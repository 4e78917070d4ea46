---------------------------- MODULE MCContracts ----------------------------
(***************************************************************************)
(* What contracts and accounts rely on, for TLC.  A behaviour is one of    *)
(* the parts of Parts, chosen at the start; the variables of the others    *)
(* stay as they are.                                                       *)
(*                                                                         *)
(*  "iterators", "indices": the tables of a contract, by primary key and   *)
(*      by a secondary index                                               *)
(*  "ram", "restricted": their RAM, without and with ram_restrictions      *)
(*  "authorization": permissions and what they authorize                   *)
(***************************************************************************)
EXTENDS Integers, Sequences, TLC

CONSTANTS
  Parts,                     \* the parts to explore
  ta1, ta2, ka1, ka2, ia1, ia2, kb, ib,   \* addresses
  nullptr, alice, bob, tab1, tab2, NoAccount

VARIABLES part,
  tables, kv, idx, lastId, ram, deltas, keyval, itr_cache, names, receiver, acting, auths,
  perms, links, delayed

-----------------------------------------------------------------------------
\* The small sets of the instances.
TableObjects == {ta1, ta2}
KvObjects == {ka1, ka2}
IdxObjects == {ia1, ia2}
OneKv == {kb}
OneIdx == {ib}
TwoTables == {tab1, tab2}
OneTable == {tab1}
Both == {alice, bob}
AliceSigns == {{alice}}
Alice == {alice}
Bits == {0, 1}
JustZero == {0}
JustOne == {1}
NoObjects == {}

\* What a row costs is left to Billed and Restricted: here one account pays for
\* every row, and nothing depends on the amounts.
Primary == INSTANCE ContractTables WITH
  TableAddrs <- TableObjects, KvAddrs <- KvObjects, IdxAddrs <- NoObjects, Codes <- Alice, TableNames <- TwoTables,
  Accounts <- Alice, Keys <- Bits, Secondaries <- JustZero, Sizes <- JustZero, RamRestrictions <- FALSE,
  MaxTableId <- 3, MaxIterators <- 3, MaxEnds <- 3, AuthSets <- AliceSigns, KvOverhead <- 0,
  IdxSize <- 0, TableSize <- 0, Privileged <- NoObjects, NotifyBilling <- TRUE, account <- acting
Secondary == INSTANCE ContractTables WITH
  TableAddrs <- TableObjects, KvAddrs <- NoObjects, IdxAddrs <- IdxObjects, Codes <- Alice, TableNames <- TwoTables,
  Accounts <- Alice, Keys <- Bits, Secondaries <- Bits, Sizes <- JustZero, RamRestrictions <- FALSE,
  MaxTableId <- 3, MaxIterators <- 2, MaxEnds <- 3, AuthSets <- AliceSigns, KvOverhead <- 0,
  IdxSize <- 0, TableSize <- 0, Privileged <- NoObjects, NotifyBilling <- TRUE, account <- acting
Billed == INSTANCE ContractTables WITH
  TableAddrs <- TableObjects, KvAddrs <- OneKv, IdxAddrs <- OneIdx, Codes <- Both, TableNames <- OneTable,
  Accounts <- Both, Keys <- JustZero, Secondaries <- JustZero, Sizes <- Bits, RamRestrictions <- FALSE,
  MaxTableId <- 2, MaxIterators <- 2, MaxEnds <- 1, AuthSets <- AliceSigns, KvOverhead <- 2,
  IdxSize <- 3, TableSize <- 5, Privileged <- NoObjects, NotifyBilling <- TRUE, account <- acting
Restricted == INSTANCE ContractTables WITH
  TableAddrs <- TableObjects, KvAddrs <- OneKv, IdxAddrs <- OneIdx, Codes <- Both, TableNames <- OneTable,
  Accounts <- Both, Keys <- JustZero, Secondaries <- JustZero, Sizes <- JustOne, RamRestrictions <- TRUE,
  MaxTableId <- 2, MaxIterators <- 2, MaxEnds <- 2, AuthSets <- AliceSigns, KvOverhead <- 2,
  IdxSize <- 3, TableSize <- 5, Privileged <- NoObjects, NotifyBilling <- TRUE, account <- acting

\* An address has no meaning of its own: which one is free is all that counts.
Addresses == Permutations({ta1, ta2}) \cup Permutations({ka1, ka2}) \cup Permutations({ia1, ia2})

-----------------------------------------------------------------------------
(* The accounts alice and bob and the system account sys.  Their permissions
   may refer to each other, alice has a permission pay that can be linked to
   an action of bob's contract, and bob may make it one that the contract
   satisfies. *)
Account(l, w) == [kind |-> "account", of |-> l, weight |-> w]
Key(k, w) == [kind |-> "key", of |-> k, weight |-> w]
Wait(n, w) == [kind |-> "wait", of |-> n, weight |-> w]
Auth(n, fs) == [threshold |-> n, factors |-> fs]

One(k) == Auth(1, <<Key(k, 1)>>)
AliceOwner == <<"alice", "owner">>
AliceActive == <<"alice", "active">>
AlicePay == <<"alice", "pay">>
AliceSub == <<"alice", "sub">>
BobOwner == <<"bob", "owner">>
BobActive == <<"bob", "active">>

SigningKeys == {"k1", "k2"}

Permissions(name, owner, active) ==
  ((<<name, "owner">>) :> [parent |-> "", auth |-> owner])
  @@ ((<<name, "active">>) :> [parent |-> "owner", auth |-> active])

Genesis == Permissions("sys", One("k2"), One("k2")) @@ Permissions("alice", One("k1"), One("k1"))

Update(l, parent, auth, by) ==
  [type |-> "updateauth", code |-> "sys", act |-> "updateauth", account |-> l[1],
   permission |-> l[2], parent |-> parent, auth |-> auth, authorization |-> <<by>>]
Delete(l, by) ==
  [type |-> "deleteauth", code |-> "sys", act |-> "deleteauth", account |-> l[1],
   permission |-> l[2], authorization |-> <<by>>]
Link(account, code, act, name, by) ==
  [type |-> "linkauth", account |-> account, code |-> code, act |-> act,
   requirement |-> name, authorization |-> <<by>>]
Unlink(account, code, act, by) ==
  [type |-> "unlinkauth", account |-> account, code |-> code, act |-> act,
   authorization |-> <<by>>]
Cancel(t, l, by) ==
  [type |-> "canceldelay", trx |-> t, canceling_auth |-> l, authorization |-> <<by>>]
NewAccount(name, owner, active, by) ==
  [type |-> "newaccount", code |-> "sys", act |-> "newaccount", creator |-> by[1],
   name |-> name, owner |-> owner, active |-> active, authorization |-> <<by>>]
Call(code, act, bys) ==
  [type |-> "call", code |-> code, act |-> act, authorization |-> bys]

Now(as) == [actions |-> as, delay |-> 0]
Later(as) == [actions |-> as, delay |-> 1]

Trx ==
  [ create  |-> Now(<<NewAccount("bob", One("k2"), Auth(1, <<Account(AliceActive, 1)>>), AliceActive)>>),
    active  |-> Now(<<Update(BobActive, "owner", Auth(2, <<Account(AliceActive, 1), Key("k2", 1)>>), BobOwner)>>),
    trust   |-> Now(<<Update(AliceActive, "owner",
                        Auth(1, <<Account(BobActive, 2), Key("k1", 1)>>), AliceActive)>>),
    lean    |-> Now(<<Update(AliceActive, "owner", Auth(1, <<Account(BobActive, 1)>>), AliceOwner)>>),
    pay     |-> Now(<<Update(AlicePay, "active",
                        Auth(1, <<Account(<<"bob", "eosio.code">>, 1), Wait(1, 1)>>), AliceActive)>>),
    either  |-> Now(<<Update(AlicePay, "active",
                        Auth(1, <<Account(AliceActive, 1), Account(BobActive, 2)>>), AliceActive)>>),
    both    |-> Now(<<Update(AlicePay, "active",
                        Auth(3, <<Account(AliceActive, 2), Account(BobActive, 1)>>), AlicePay)>>),
    repay   |-> Now(<<Update(AlicePay, "active",
                        Auth(2, <<Account(BobActive, 2), Key("k1", 1), Wait(1, 1)>>), AlicePay)>>),
    sub     |-> Now(<<Update(AliceSub, "pay", One("k2"), AlicePay)>>),
    link    |-> Now(<<Link("alice", "bob", "act", "pay", AliceActive)>>),
    linkany |-> Now(<<Link("alice", "bob", "", "eosio.any", AliceActive)>>),
    unlink  |-> Now(<<Unlink("alice", "bob", "act", AlicePay)>>),
    drop    |-> Now(<<Unlink("alice", "bob", "act", AliceActive), Delete(AlicePay, AliceActive)>>),
    nosub   |-> Now(<<Delete(AliceSub, AliceSub)>>),
    erase   |-> Later(<<Delete(AlicePay, AlicePay)>>),
    tie     |-> Later(<<Call("bob", "act", <<AlicePay>>), Link("alice", "bob", "other", "pay", AliceActive)>>),
    cancel  |-> Now(<<Cancel("erase", AlicePay, AliceActive)>>),
    call    |-> Now(<<Call("bob", "act", <<AlicePay, BobActive>>)>>) ]

Inline ==
  { <<"bob", Call("bob", "act", <<AlicePay>>)>>,
    <<"bob", Unlink("alice", "bob", "act", AlicePay)>> }

TrxNames == DOMAIN Trx

Permission == INSTANCE Authorization WITH
  MaxDepth <- 3, Trxs <- TrxNames, Def <- Trx, Keys <- SigningKeys, System <- "sys", MaxDelay <- 2,
  OnlyLinkToExisting <- TRUE, FixLinkauth <- TRUE

ASSUME
  /\ Primary!TablesAssumption /\ Secondary!TablesAssumption
  /\ Billed!TablesAssumption /\ Restricted!TablesAssumption /\ Permission!DepthAssumption

-----------------------------------------------------------------------------
table_vars == <<tables, kv, idx, lastId, ram, deltas, keyval, itr_cache, names, receiver,
                acting, auths>>
perm_vars == <<perms, links, delayed>>

all_vars == <<part, table_vars, perm_vars>>

\* The variables of a part that does not run.
Off == "off"
TableOff == /\ tables = Off /\ kv = Off /\ idx = Off /\ lastId = Off /\ ram = Off /\ deltas = Off
            /\ keyval = Off /\ itr_cache = Off /\ names = Off /\ receiver = Off /\ acting = Off
            /\ auths = Off
PermOff == perms = Off /\ links = Off /\ delayed = Off

ContractsInit ==
  /\ part \in Parts
  /\ \/ /\ part = "iterators" /\ Primary!Init
        /\ PermOff
     \/ /\ part = "indices" /\ Secondary!Init
        /\ PermOff
     \/ /\ part = "ram" /\ Billed!Init
        /\ PermOff
     \/ /\ part = "restricted" /\ Restricted!Init
        /\ PermOff
     \/ /\ part = "authorization" /\ Permission!Init
        /\ TableOff

ContractsNext ==
  \/ /\ part = "iterators" /\ Primary!Next
     /\ UNCHANGED <<part, perm_vars>>
  \/ /\ part = "indices" /\ Secondary!Next
     /\ UNCHANGED <<part, perm_vars>>
  \/ /\ part = "ram" /\ Billed!Next
     /\ UNCHANGED <<part, perm_vars>>
  \/ /\ part = "restricted" /\ Restricted!Next
     /\ UNCHANGED <<part, perm_vars>>
  \/ /\ part = "authorization" /\ Permission!Next
     /\ UNCHANGED <<part, table_vars>>

ContractsSpec == ContractsInit /\ [][ContractsNext]_all_vars

-----------------------------------------------------------------------------
\* An iterator that can be dereferenced is the row it was handed out for,
\* although addresses are used again; the table of its row is in the cache; and
\* scans in both directions stay in their table (iterator_cache, db_next_i64 and
\* db_previous_i64, generic_index).
IteratorsDenoteRows ==
  /\ part = "iterators" =>
       Primary!IteratorsDenoteRows /\ Primary!TableInCache /\ Primary!ScansStayInTable
  /\ part = "indices" => Secondary!IteratorsDenoteRows /\ Secondary!ScansStayInTable

\* A table exists exactly while it has rows, which it counts, and each account
\* is billed for exactly the rows and tables it pays for now (find_or_create_table,
\* remove_table, update_db_usage).
RamIsBilled ==
  /\ part = "ram" => Billed!CountIsRows /\ Billed!RamIsBilled
  /\ part = "restricted" => Restricted!CountIsRows /\ Restricted!RamIsBilled

\* An action of an unprivileged contract never leaves an account with more RAM
\* in use, unless it is the contract's own or authorized the action, and with
\* ram_restrictions not even then when the contract is only notified
\* (add_ram_usage, exec_one).
RamRisesWithConsent ==
  [][/\ part = "ram" => Billed!ConsentStep
     /\ part = "restricted" => Restricted!ConsentStep]_all_vars

\* Permissions are trees that links and delayed transactions never break,
\* check_authorization accepts only what the keys and delays really satisfy, and
\* it finds what they satisfy unless it is nested too deep (authorization_manager,
\* authority_checker).
AcceptedIsAuthorised ==
  part = "authorization" =>
    /\ Permission!PermissionsAreTrees /\ Permission!LinksResolve
    /\ Permission!AcceptedIsAuthorised /\ Permission!SatisfiedWhenShallow

\* The keys get_required_keys picks are enough to sign with: "check_authorization"
\* then accepts the transaction.
RequiredKeysSuffice == part = "authorization" => Permission!RequiredKeysSuffice
=============================================================================
