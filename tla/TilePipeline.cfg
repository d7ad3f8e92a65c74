SPECIFICATION Spec
CONSTANTS
  u1 = u1
  u2 = u2
  Updaters <- TwoUpdaters
  Layouts = {TRUE, FALSE}
  MaxVersion = 3
  MaxFails <- AnyFail
INVARIANTS
  TypeOK
  TilesFollowPbf
  ServiceFollowsTiles
PROPERTIES
  ServedNeverOlder
  ImplementsFeed
CHECK_DEADLOCK FALSE
