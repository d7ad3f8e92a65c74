SPECIFICATION Spec
CONSTANTS
  museum = museum
  UserPoints = {museum}
  Requests <- MCRequests
  BaseRoutes <- MCBaseRoutes
  ScenicRoutes <- MCScenicRoutes
  Matrices <- MCMatrices
  HeatProfiles <- MCHeatProfiles
  IterSteps <- MCIterSteps
  DefaultHeatThreshold = 2
  TourOrder <- TspPeakOrder
INVARIANTS
  DetourCapped
CHECK_DEADLOCK FALSE
