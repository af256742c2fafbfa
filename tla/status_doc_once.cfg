SPECIFICATION Spec
CONSTANTS
  NFiles = 1
  Requests = {r1}
  Uploads = {}
  Contents <- MCGarbledContents
  MaxRows = 2
  MaxTs = 2
  CacheMaxSize = 3
  RequestMaxLines = 1
  SamplingInterval = 1
  MaxUpdates = 1
  Faults = {}
  Collector = Collector
  Free = Free
INVARIANT CollectedOnce
