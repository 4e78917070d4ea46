\* What a node does with transactions and time.
CONSTANTS
  Parts = {"loop", "flow", "actions", "restarts", "evictions"}
  Interval = 2
  Producers = 2
  Us = 1
  Repetitions = 2
  Early = 1
  EarlyLast = 2
  MaxHeadAge = 4
  StartTimes = {1, 7}
  MaxTime = 12
  MaxNum = 4
  MaxFailures = 1
  Trxs = {t1, t2}
  IsProducer = TRUE
  MaxBlocks = 2
  MaxIncoming = 1
  MaxSubmits = 2
  MaxForks = 1
  a1 = a1
  a2 = a2
  System = System
  c1 = c1
  c2 = c2
  c3 = c3
  s1 = s1
  s2 = s2
  NoCode = NoCode
  Free = Free
  IndexData = IndexData
  NoTimer = NoTimer
  NotBuilding = NotBuilding
SYMMETRY Symmetric
SPECIFICATION NodeSpec
\* The clock, the blocks and a transaction's actions end at their bounds.
CHECK_DEADLOCK FALSE
INVARIANTS
  LoopSound
  SubmissionsKept
  ActionsOrdered
  CodeCacheSound
PROPERTIES
  ProducesInTurn
  SignsForward
