\* The keys that sign a transaction.
CONSTANTS
  Parts = {"authorization"}
  ta1 = ta1
  ta2 = ta2
  ka1 = ka1
  ka2 = ka2
  ia1 = ia1
  ia2 = ia2
  kb = kb
  ib = ib
  nullptr = nullptr
  alice = alice
  bob = bob
  tab1 = tab1
  tab2 = tab2
  NoAccount = NoAccount
SPECIFICATION ContractsSpec
INVARIANT RequiredKeysSuffice
