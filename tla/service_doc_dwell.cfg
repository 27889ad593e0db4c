\* README: recommendations observe a one-minute minimum dwell time.
CONSTANTS
  h1 = h1
  h2 = h2
  n1 = n1
  n2 = n2
  Handlers = {h1, h2}
  Scopes = {"syd"}
  Nodes = {n1, n2}
  WindowEnds = {0}
  SeedRows = {"fit"}
  RowQualities = {"fit"}
  MinimumDwell = 4
  RequestTimeout = 1
  StaleAfter = 9
  FutureTolerance = 1
  QueryAhead = 1
  StorageSkew = 0
  Precision = 1
  MaxTime = 4
  MaxRecs = 2
  MaxCopies = 1
  MaxLog = 2
  MaxStored = 1
  MaxEpoch = 0
SPECIFICATION Spec
INVARIANTS MinimumDwellObserved
