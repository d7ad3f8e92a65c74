SPECIFICATION Spec
CONSTANTS
  N = 3
  Times <- MCTimes
  Budgets <- MCBudgets
  Profiles <- MCProfiles
INVARIANTS
  TourMinimumTime
CHECK_DEADLOCK FALSE
