\* README: dependency failures return 503 and never publish.
CONSTANTS
  h1 = h1
  h2 = h2
  n1 = n1
  n2 = n2
  Handlers = {h1}
  Scopes = {"syd"}
  Nodes = {n1, n2}
  WindowEnds = {0}
  SeedRows = {"fit"}
  RowQualities = {"fit"}
  MinimumDwell = 4
  RequestTimeout = 1
  StaleAfter = 9
  FutureTolerance = 1
  QueryAhead = 1
  StorageSkew = 0
  Precision = 1
  MaxTime = 1
  MaxRecs = 1
  MaxCopies = 1
  MaxLog = 1
  MaxStored = 0
  MaxEpoch = 0
SPECIFICATION FairSpec
PROPERTIES UnavailableNeverPublishes
