SPECIFICATION FairSpec
CONSTANTS
  Sockets = {i1, i2, i3}
  Plugins = {p1}
  Scripts = {}
  Tests = {}
  Workers = {w1, w2}
  MaxConcurrent = 1
  MaxLines = 0
  NoSocket = NoSocket
CHECK_DEADLOCK FALSE
INVARIANTS MapBound CheckedBound
PROPERTIES StreamsClose
