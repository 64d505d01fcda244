SPECIFICATION Spec
CONSTANTS
  t1 = t1
  t2 = t2
  Unknown = Unknown
  N = 2
  Tasks <- MCTasks
  Full = 1
  Resources <- MCResources
  Quota <- MCQuota
  Window <- MCWindow
  Backoff = 1
  MaxCount = 1
SYMMETRY MCSymmetry
INVARIANTS
  ReportedLimitNotUndercut
PROPERTIES
  SelectsMostBudget
