SPECIFICATION Spec
CONSTANTS
  t1 = t1
  t2 = t2
  t3 = t3
  c1 = c1
  c2 = c2
  Tasks = {t1, t2, t3}
  Inbound = {t1, t2, t3}
  Leftover = {}
  Conns = {c1, c2}
  NoTask = NoTask
  NoConn = NoConn
  MaxConcurrent = 2
  SilentClose = TRUE
SYMMETRY Symmetric
INVARIANTS ConcurrencyBound OnceEach ReportsAgree NothingForgotten NoLostWakeup CloseLeavesOne
