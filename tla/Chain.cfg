\* The stores of a node: fork database, controller, snapshots, logs, wallets.
CONSTANTS
  Parts = {"forks", "controller", "snapshots", "history", "blocklog", "wallet"}
  NoBlock = NoBlock
  Garbage = Garbage
  Names = {n1, n2}
  Keys = {k1, k2}
  NoWallet = NoWallet
  Torn = Torn
  MaxPassword = 2
  MaxFailures = 1
  MaxFaults = 2
  MaxBlockNum = 4
  Blocks <- ForkBlocks
  Prev <- ForkPrev
  Num <- ForkNum
  Lib <- ForkLib
  IdRank <- ForkIdRank
  Anc <- ForkAnc
SPECIFICATION ChainSpec
INVARIANTS
  HeadIsBest
  TreeSurvives
  StoresAgree
  SnapshotsAnswered
  LogsKept
  AckedKeysKept
PROPERTIES
  HeadNeverWorsens
  ImplementsLedger
