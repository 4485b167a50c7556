SPECIFICATION Spec
CONSTANTS
  Codes = {200, 401, 403, 404, 429, 521, 999}
  RequestTimeout = 10
  Waits = {1, 2}
INVARIANT
  BudgetCovers
