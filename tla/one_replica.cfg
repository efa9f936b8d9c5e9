SPECIFICATION Spec
CONSTANTS
  o1 = o1  t1 = t1  u1 = u1  u2 = u2  s1 = s1  s2 = s2  w1 = w1  w2 = w2
  Tenants = {o1}
  Targets = {t1}
  Users = {u1}
  Servers = {s1}
  Workers = {w1}
  None = None
  Deletable = {}
  TenantOf <- OneTarget
  Batch = 2
  MaxAttempts = 2
  MaxResyncs = 3
  MaxVersion = 2
  Budget = 2
  UniqueAccounts = FALSE
  Stragglers = FALSE
INVARIANTS
  AtMostOneAccount
  FirstTriesDeliver
