CONSTANTS
  k1 = k1
  k2 = k2
  k3 = k3
  k4 = k4
  k5 = k5
  Keys = {k1, k2, k3, k4, k5}
  Values = {v1, v2, v3, v4, v5, v6}
  None = None
  Primes <- MCPrimes
  Hash <- MCHash
SYMMETRY MCSymmetry
SPECIFICATION Spec
INVARIANTS
  EntriesFound
PROPERTIES
  IterationExact
  MapSpec
CHECK_DEADLOCK FALSE
