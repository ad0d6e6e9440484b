SPECIFICATION Spec
CONSTANTS
  None = None
  r1 = r1
  r2 = r2
  Handlers = {r1, r2}
  c1 = c1
  c2 = c2
  Clients = {c1, c2}
  Emails = {e1, e2}
  Names = {n1}
  Subjects = {s1}
  Grants = {"viewer"}
  Limit = 2
  Window = 2
  AccessTtl = 1
  RefreshTtl = 2
  MaxCalls = 5
  MaxTime = 3
  Budgets <- Scenarios
CHECK_DEADLOCK FALSE
INVARIANTS
  SuspendedHaveNoRights
