CONSTANTS
  Lookups = {l1, l2}
  Kids = {k1, k2}
  NoKid = NoKid
  TTL = 2
  MaxDelay = 1
  MaxTime = 3
  MaxDocuments = 2
SPECIFICATION Spec
INVARIANT RefreshesAreIdempotent
SYMMETRY MCSymmetry
