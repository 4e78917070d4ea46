\* A schedule that becomes smaller.
CONSTANTS
  Parts = {"schedules"}
  p1 = p1
  p2 = p2
  p3 = p3
  p4 = p4
  NoFeature = NoFeature
  Producers = {p1, p2, p3, p4}
  ProducerRepetitions = 1
  MaxTracked = 8
  InitialSchedule <- FourProducers
  Schedules <- Smaller
  MaxForgone = 0
  MaxMissed = 3
  MaxNum = 20
SPECIFICATION ConsensusSpec
\* Every part ends at its bound.
CHECK_DEADLOCK FALSE
PROPERTY IrreversibleNeverDecreases
