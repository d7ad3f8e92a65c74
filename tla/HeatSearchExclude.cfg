SPECIFICATION MCSpec
CONSTANTS
  Grids <- MCGrids
  Axes <- MCAxes
  Searches <- MCSearches
  Scenes <- MCScenes
  MaxPeaks = 3
  Spacing = 2
  MinSep = 3
  Cell = 4
  Cutoff = 6
  SampleEvery = 4
  LonDigit = 2
  LatDigit = 3
INVARIANTS
  ExcludesHonoured
CHECK_DEADLOCK FALSE
