\* What makes nodes agree: header states, DPOS, protocol features, Merkle trees.
CONSTANTS
  Parts = {"schedules", "confirmations", "dpos", "restart", "recovered", "features", "merkle"}
  p1 = p1
  p2 = p2
  p3 = p3
  p4 = p4
  NoFeature = NoFeature
  Producers = {p1, p2, p3, p4}
  ProducerRepetitions = 1
  MaxTracked = 4
  InitialSchedule <- TwoProducers
  Schedules <- SameSize
  MaxForgone = 0
  MaxMissed = 2
  MaxNum = 14
SPECIFICATION ConsensusSpec
\* Every part ends at its bound.
CHECK_DEADLOCK FALSE
INVARIANTS
  ProposedIsFinal
  
  FeatureViewsAgree
  RootIsMerkle
PROPERTIES
  IrreversibleNeverDecreases
