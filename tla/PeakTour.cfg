SPECIFICATION Spec
CONSTANTS
  N = 3
  Times <- MCTimes
  Budgets <- MCBudgets
  Profiles <- MCProfiles
INVARIANTS
  TourAffordable
  TourHottest
CHECK_DEADLOCK FALSE
