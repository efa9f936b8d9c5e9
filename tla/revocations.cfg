SPECIFICATION FairSpec
CHECK_DEADLOCK FALSE
CONSTANTS
  a1 = a1  a2 = a2  ada = ada  r1 = r1  r2 = r2
  None = None
  CoreItself = CoreItself
  Sessions = {a1, a2}
  Holders = {ada}
  HolderOf <- OneHolder
  Requests = {r1, r2}
INVARIANTS
  TypeOK
  RecordedExactly
  NoneMissed
  CountIsTrue
PROPERTIES EveryoneAnswered
