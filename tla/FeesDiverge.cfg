\* Transactions that pay as a whole, before f.onfeeact opens.
CONSTANTS
  Parts = {"fees"}
  Accounts <- TwoAccounts
  alice = alice
  bob = bob
  Precision = 5
  Window = 3
  Periods = 2
  Multiplier = 2
  Contract <- Half
  Expand <- Growth
  TargetPct = 50
  Maxes = {2, 3}
  Weights <- SomeWeights
  SystemAccounts <- OneSystem
  FreeRam = 1
  MaxRam = 3
  MaxSlot = 6
  FeeTxs = {"pay", "two"}
  FeesOpenAt <- Never
  sys = sys
  msig = msig
  system0 = system0
  system1 = system1
  multi = multi
  nocode = nocode
  native = native
  custom = custom
  v1 = v1
  v2 = v2
SPECIFICATION ExecutionSpec
\* The parts with bounds on time and blocks end there.
CHECK_DEADLOCK FALSE
INVARIANT ValidatorAgrees
