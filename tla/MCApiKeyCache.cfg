CONSTANTS
  Keys = {k1}
  Requests = {r1, r2}
  Workers = {w1, w2}
  Ttl = 2
  Grace = 1
  MaxLatency = 1
SPECIFICATION Spec
SYMMETRY Symmetry
INVARIANTS RevokedKeyExpires EvictionsMissOnlyRaces
