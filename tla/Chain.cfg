SPECIFICATION ChainSpec
CONSTANTS
  Jobs = {j1, j2}
  Limit = 1
  MaxReplays = 1
  Consumers = {c1, c2}
  Admins = {a1, a2}
  Nobody = Nobody
  Skew = 1
  Half = 8
  Clocks = {3}
  Stamps <- MCStamps
  MaxMishaps = 1
SYMMETRY Symmetry
INVARIANTS ChainTypeOK CredentialsWork FreshSignatures MailedWereAdmitted AuditTruthful
CHECK_DEADLOCK FALSE
