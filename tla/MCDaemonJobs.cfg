SPECIFICATION Spec
CONSTANTS
  n1 = n1
  Nonces = {n1}
  Handlers = {h1, h2}
  Replicas = {r1}
  Admins = {a1}
  Proofs <- MCProofs
  Requests <- MCRequests
  NonceLife = 2
  ProofWindow = 2
  Skew = 1
  ProofLife = 3
  CacheLife = 2
  MaxLatency = 1
  MaxVersion = 2
  MaxTime = 3
  JobLife = 2
  MaxJobs = 2
  MaxKeys = 2
  Loads <- MCLoads
SYMMETRY Symmetry
INVARIANTS
  ProofHonouredOnce
  OneJobPerRequest
  DeliveredJobsAreAuthorised
PROPERTIES
  WithdrawnDeviceIsRefused
  ImplementsJobLedger
