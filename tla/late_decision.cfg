SPECIFICATION Spec
CHECK_DEADLOCK FALSE
CONSTANTS
  c1 = c1  c2 = c2  ada = ada  bob = bob  admin = admin  clerk = clerk
  read = read  write = write  r1 = r1  r2 = r2
  None = None
  Campaigns = {c1}
  Users = {ada}
  Roles = {admin, clerk}
  Perms = {read}
  Apps <- OneApp
  Reviewers = {r1, r2}
  AppOf <- OfOneApp
  MaxDecisions = 3
  MaxEdits = 1
INVARIANT ReportStaysTrue
