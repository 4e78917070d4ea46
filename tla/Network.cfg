\* A node and its peers and clients.
CONSTANTS
  Parts = {"relay", "busy", "triangle", "http", "connection", "broken", "hasty", "twins"}
  node1 = node1
  node2 = node2
  peer1 = peer1
  peer2 = peer2
  trx1 = trx1
  trx2 = trx2
  Nodes = {node1, node2}
  Producer = node1
  Links <- Pair
  Trxs = {trx1}
  Origin <- FromFirst
  Refuses <- SecondRefuses
  MaxBlock = 2
  Lag = 0
  MaxInProgress = 1
  Connections = {c1, c2, c3}
  Idle = Idle
  Threads = 2
  LimitOption = 2
  Bodies = {1, 2}
  Responses = {1}
  Jsons = {0, 1}
SYMMETRY Alike
SPECIFICATION NetworkSpec
\* Blocks, transactions and handshakes end at their bounds.
CHECK_DEADLOCK FALSE
INVARIANTS
  ProgressIsPosted
  AnsweredOnce
  BytesSound
  ConnectionsSound
PROPERTIES
  NeverEchoed
