SPECIFICATION FairSpec
CONSTANTS
  t1 = t1
  t2 = t2
  t3 = t3
  c1 = c1
  c2 = c2
  Tasks = {t1, t2, t3}
  Inbound <- TwoInbound
  Leftover <- OneLeftover
  Conns = {c1, c2}
  NoTask = NoTask
  NoConn = NoConn
  MaxConcurrent = 1
  SilentClose = FALSE
PROPERTIES LifecycleSpec EveryTaskEnds QueueMoves
