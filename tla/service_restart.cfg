\* One handler over a restart: rows arrive, are from the future, age; created_at is coarse.
CONSTANTS
  h1 = h1
  h2 = h2
  n1 = n1
  n2 = n2
  Handlers = {h1}
  Scopes = {"syd"}
  Nodes = {n1, n2}
  WindowEnds = {1, 3}
  SeedRows = {"none"}
  RowQualities = {"fit"}
  MinimumDwell = 3
  RequestTimeout = 1
  StaleAfter = 1
  FutureTolerance = 0
  QueryAhead = 1
  StorageSkew = 0
  Precision = 2
  MaxTime = 3
  MaxRecs = 2
  MaxCopies = 2
  MaxLog = 3
  MaxStored = 3
  MaxEpoch = 1
SPECIFICATION FairSpec
INVARIANTS TypeOK RestartDwell EvidenceFresh IdentityBounded
PROPERTIES ImplementsLimiter EveryRequestAnswered GeneratedBecomesStored
