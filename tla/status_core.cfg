SPECIFICATION Spec
CONSTANTS
  NFiles = 1
  Requests = {r1, r2}
  Uploads = {u1}
  Contents <- MCPlainContents
  MaxRows = 2
  MaxTs = 3
  CacheMaxSize = 2
  RequestMaxLines = 1
  SamplingInterval = 2
  MaxUpdates = 1
  Faults = {}
  Collector = Collector
  Free = Free
SYMMETRY Symmetry
INVARIANTS TypeOK RowsInOrder
PROPERTIES QueueSpec
