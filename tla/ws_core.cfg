SPECIFICATION Spec
CONSTANTS
  Sockets = {i1, i2}
  Plugins = {}
  Scripts = {s1}
  Tests = {t1}
  Workers = {w1, w2}
  MaxConcurrent = 1
  MaxLines = 2
  NoSocket = NoSocket
CHECK_DEADLOCK FALSE
SYMMETRY Symmetry
INVARIANTS TypeOK StreamComplete OrphansFinished FinishedBeforeExit
PROPERTIES StreamSpec
