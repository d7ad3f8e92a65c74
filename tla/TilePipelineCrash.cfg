SPECIFICATION Spec
CONSTANTS
  u1 = u1
  u2 = u2
  Updaters <- OneUpdater
  Layouts = {FALSE}
  MaxVersion = 2
  MaxFails <- BuilderOnce
PROPERTIES
  UpdateServed
CHECK_DEADLOCK FALSE
