CONSTANTS
  Lookups = {l1, l2}
  k1 = k1
  k2 = k2
  Kids = {k1, k2}
  NoKid = NoKid
  TTL = 2
  MaxDelay = 1
  MaxTime = 3
  MaxDocuments = 2
  Leeway = 1
  Tokens <- MCTokens
SPECIFICATION VerifierSpec
INVARIANTS VerifierTypeOK UnknownMeansUnpublished
PROPERTIES WithdrawnKeyExpires EveryLookupEnds AdmittedIsValid
