SPECIFICATION Spec
CHECK_DEADLOCK FALSE
SYMMETRY Symmetry
CONSTANTS
  None = None
  NoKey = NoKey
  Keys = {k1}
  Providers = {p1, p2}
  Tenants = {ministry, agency}
  Origins = {idp, bank}
  Clients = {old, new}
  Secrets = {key, word}
  Replicas = {n1}
  Requests = {q1, q2, q3}
INVARIANTS
  TypeOK
  NoTwins
  AnswersAreTrue
  CredentialsAsWritten
PROPERTIES
  TenantsApart
  StaysWithdrawn
