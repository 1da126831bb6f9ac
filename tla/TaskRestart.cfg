SPECIFICATION RestartSpec
CONSTANTS
  t1 = t1
  t2 = t2
  c1 = c1
  c2 = c2
  Tasks = {t1, t2}
  Inbound = {t1, t2}
  Leftover = {t1, t2}
  Conns = {c1}
  NoTask = NoTask
  NoConn = NoConn
  MaxConcurrent = 1
  SilentClose = FALSE
  MaxRestarts = 1
SYMMETRY Symmetric
INVARIANTS RedoneAtMostOncePerRestart
PROPERTIES SavedExecutingNotRedone
