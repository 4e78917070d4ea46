\* A timer of sync_manager that expires although the answer is on its way.
CONSTANTS
  Parts = {"sync"}
  MaxLate = 1
  p1 = p1
  p2 = p2
  node1 = node1
  node2 = node2
  node3 = node3
  trx1 = trx1
  client1 = client1
  client2 = client2
  a1 = a1
  c1 = c1
  c2 = c2
  s1 = s1
  s2 = s2
  s3 = s3
  NoPeer = NoPeer
  NoRequest = NoRequest
  NoCode = NoCode
  Free = Free
  IndexData = IndexData
  Idle = Idle
SPECIFICATION ProgressSpec
CHECK_DEADLOCK FALSE
PROPERTIES
  SyncCatchesUp
