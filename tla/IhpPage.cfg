SPECIFICATION Spec
CONSTANTS
  Mine = mine
  Pages = {mine, other}
  Budgets <- MCBudgets
INVARIANT PollsOnce
 
INVARIANT CorridorKept
PROPERTY ShowsRunning
CHECK_DEADLOCK FALSE
