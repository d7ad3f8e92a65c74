SPECIFICATION Spec
CONSTANTS
  museum = museum
  UserPoints = {museum}
  Requests <- MCRequests
  BaseRoutes <- MCBaseRoutes
  ScenicRoutes <- MCScenicRoutes
  Matrices <- MCMatrices
  HeatProfiles <- MCHeatProfiles
  IterSteps <- MCIterSteps
  DefaultHeatThreshold = 2
  TourOrder <- TspPeakOrder
INVARIANTS
  TypeOK
  UsedPeaksOnRoute
  ToursFitBudget
  SearchExhaustive
PROPERTIES
  HeatGrows
  ScenicEnoughIsFinal
CHECK_DEADLOCK FALSE
