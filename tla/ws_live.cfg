SPECIFICATION FairSpec
CONSTANTS
  Sockets = {i1}
  Plugins = {}
  Scripts = {s1, s2}
  Tests = {t1}
  Workers = {w1, w2}
  MaxConcurrent = 1
  MaxLines = 0
  NoSocket = NoSocket
CHECK_DEADLOCK FALSE
INVARIANTS NoDeadlock
PROPERTIES CommandsEnd StreamsClose
