SPECIFICATION Spec
CONSTANTS
  r1 = r1
  r2 = r2
  r3 = r3
  park = park
  pub = pub
  NoVec = NoVec
  Objects <- MCObjects
  Tags <- MCTags
  Extracts <- MCExtracts
  UpdateChunk = 1
  Runs <- Three
  MaxFails = 0
PROPERTIES
  VectorsKept
CHECK_DEADLOCK FALSE
