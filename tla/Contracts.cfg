\* Contract tables and authorization.
CONSTANTS
  Parts = {"iterators", "indices", "ram", "restricted", "authorization"}
  ta1 = ta1
  ta2 = ta2
  ka1 = ka1
  ka2 = ka2
  ia1 = ia1
  ia2 = ia2
  kb = kb
  ib = ib
  nullptr = nullptr
  alice = alice
  bob = bob
  tab1 = tab1
  tab2 = tab2
  NoAccount = NoAccount
SPECIFICATION ContractsSpec
SYMMETRY Addresses
\* A full cache of iterators ends an action's calls.
CHECK_DEADLOCK FALSE
INVARIANTS
  IteratorsDenoteRows
  RamIsBilled
  AcceptedIsAuthorised
PROPERTIES
  RamRisesWithConsent
