SPECIFICATION Spec
CONSTANTS
  Threads = {t1, t2}
  NReqs = 2
  Width = 8
  MaxCalls = 3
SYMMETRY Symmetry
INVARIANTS
  BudgetNotExceeded
