SPECIFICATION Spec
CONSTANTS
  j1 = j1
  j2 = j2
  w1 = w1
  w2 = w2
  a1 = a1
  a2 = a2
  c1 = c1
  c2 = c2
  NoJob = NoJob
  Jobs = {j1}
  Workers = {w1,w2}
  Containers = {c1}
  Admins = {a1,a2}
  Host <- MCOneHost
  MaxRetries <- Retries1
  MaxReplays = 2
  Faults = {}
INVARIANTS ExactlyOnce
