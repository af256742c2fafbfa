SPECIFICATION Spec
CONSTANTS
  NFiles = 1
  Requests = {r1, r2}
  Uploads = {}
  Contents <- MCFaultyContents
  MaxRows = 2
  MaxTs = 3
  CacheMaxSize = 1
  RequestMaxLines = 1
  SamplingInterval = 1
  MaxUpdates = 1
  Faults = {"io", "flush", "read", "copy", "crash"}
  Collector = Collector
  Free = Free
SYMMETRY Symmetry
INVARIANTS Inv RowsInOrder CacheBound MutexQueue
PROPERTIES  OnlyFreshRows
