SPECIFICATION PageSpec
CONSTANTS
  Calls = {c1, c2}
  Ids = {u1, u2}
  Settings = {0, Unparsable}
  Unparsable = Unparsable
  Hour = 2
  Cached = {preview}
  MaxAge = 1
  MaxTime = 4
  Faults = 1
  None = None
INVARIANTS
  PageTypeOK
  MapMatchesButtons
  NeverStuck
  StalenessBounded
PROPERTIES
  RunsEnd
  ImplementsLinks
CHECK_DEADLOCK FALSE
