SPECIFICATION FairSpec
CONSTANTS
  NFiles = 2
  Requests = {r1}
  Uploads = {u1}
  Contents <- MCLiveContents
  MaxRows = 2
  MaxTs = 2
  CacheMaxSize = 0
  RequestMaxLines = 1
  SamplingInterval = 1
  MaxUpdates = 1
  Faults = {}
  Collector = Collector
  Free = Free
PROPERTIES CatchesUp RequestsServed UpdatesTaken
