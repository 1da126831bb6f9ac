SPECIFICATION Spec
CONSTANTS
  a = a
  b = b
  t1 = t1
  t2 = t2
  r1 = r1
  Daemons = {a, b}
  Tasks = {t1, t2}
  Rooms = {r1}
  NoRoom = NoRoom
  Proposer <- ProposerDef
  Executor <- ExecutorDef
  MaxRestarts = 1
INVARIANTS ReportsEndRecords AnsweredOnce
PROPERTIES Delegates
CHECK_DEADLOCK FALSE
