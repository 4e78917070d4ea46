-------------------------- MODULE SystemContracts --------------------------
(***************************************************************************)
(* Functions that open at a block whose number is kept on chain, what the  *)
(* start of that block does for them (check_func_open), and the code       *)
(* objects, which setcode and the contracts that a function loads share.   *)
(* Blocks are produced, aborted, and dropped by a fork switch: the         *)
(* database goes back with them.                                           *)
(***************************************************************************)
EXTENDS Integers, Sequences, FiniteSets, SequencesExt

CONSTANTS
  Accounts,    \* accounts, eosio and eosio.msig among them
  Sys, Msig,   \* those two
  Codes,       \* contract codes
  SystemCode, System01Code, MsigCode,  \* the ones of the configuration
  CodeSize,    \* their sizes
  AbiSizes,    \* sizes of the abis that are set
  SystemAbi,   \* size of the configuration's abis
  Mult,        \* setcode_ram_bytes_multiplier
  Default,     \* the block where each function opens unless it is set, 0 for none
  NoCode,      \* the hash of an account without code
  MaxBlocks,   \* bound on the blocks
  MaxSets      \* bound on the actions

Funcs == {"system01", "msig", "prods", "ram", "eosio", "cprod"}

SystemAssumption ==
  /\ {Sys, Msig} \subseteq Accounts /\ {SystemCode, System01Code, MsigCode} \subseteq Codes
  /\ CodeSize \in [Codes -> Nat \ {0}] /\ AbiSizes \subseteq Nat /\ SystemAbi \in Nat
  /\ Default \in [Funcs -> Nat] /\ NoCode \notin Codes
  /\ {Mult, MaxBlocks, MaxSets} \subseteq Nat

VARIABLES
  chain,   \* the database after each block
  pend,    \* the database of the pending block, a sequence of at most one
  sets     \* actions so far

vars == <<chain, pend, sets>>
-----------------------------------------------------------------------------
(***************************************************************************)
(* The database: num is a function's block, Unset without an entry; refs   *)
(* the count of a code object, 0 when there is none; ran what was loaded.  *)
(* late is no part of it: the functions whose number was already reached   *)
(* when it was set.                                                        *)
(***************************************************************************)
Unset == -1

is_func_has_open(db, f, head) ==
  \/ db.num[f] >= 0 /\ head >= db.num[f]
  \/ db.num[f] = Unset /\ Default[f] # 0 /\ head >= Default[f]

is_func_open_in_curr_block_Late(db, f, head) ==
  IF db.num[f] < 0 THEN Default[f] > 0 /\ head = Default[f] ELSE head = db.num[f] + 1

is_func_open_in_curr_block(db, f, head) ==
  IF db.num[f] < 0 THEN Default[f] > 0 /\ head = Default[f] ELSE head = db.num[f]

\* The count of the code that was there is left as it is.
initialize_contract(db, a, c, abi) ==
  [db EXCEPT !.abi[a] = IF abi > 0 THEN abi ELSE @,
             !.refs[c] = @ + 1,
             !.code[a] = c,
             !.privileged = @ \cup {a},
             !.ram[a] = @ + (CodeSize[c] + abi) * Mult]

Run(db, f) ==
  CASE f = "system01" -> initialize_contract(db, Sys, System01Code, SystemAbi)
    [] f = "msig" -> initialize_contract(db, Msig, MsigCode, SystemAbi)
    [] f = "prods" -> [db EXCEPT !.prodsAuth = TRUE]
    [] f = "ram" -> [db EXCEPT !.freeRam = "8KiB"]
    [] f = "eosio" -> [db EXCEPT !.rows = @ \cup {"eosio"}]
    [] OTHER -> [db EXCEPT !.rows = @ \cup {"eosio.prods"}]

Order == <<"system01", "msig", "prods", "ram", "eosio", "cprod">>

\* The eosio account is created whenever its function is open, the rest is
\* done in the one block that opens it.
check_func_open(db, head) ==
  LET step(d, f) ==
        IF IF f = "eosio" THEN is_func_has_open(d, f, head) ELSE is_func_open_in_curr_block(d, f, head)
        THEN [Run(d, f) EXCEPT !.ran = @ \cup {f}] ELSE d
  IN FoldLeft(step, db, Order)

Empty ==
  [num |-> [f \in Funcs |-> Unset], code |-> [a \in Accounts |-> NoCode],
   abi |-> [a \in Accounts |-> 0], refs |-> [c \in Codes |-> 0], ram |-> [a \in Accounts |-> 0],
   privileged |-> {}, prodsAuth |-> FALSE, freeRam |-> "unset", rows |-> {}, ran |-> {},
   late |-> {}]

\* The system contract's part of the genesis
initialize_eosc_chain ==
  [initialize_contract(Empty, Sys, SystemCode, SystemAbi) EXCEPT !.freeRam = "unlimited"]

Init ==
  /\ chain = <<initialize_eosc_chain>>
  /\ pend = <<>>
  /\ sets = 0

head_block_num == Len(chain)

StartBlock ==
  /\ pend = <<>> /\ Len(chain) < MaxBlocks
  /\ pend' = <<check_func_open(Last(chain), head_block_num)>>
  /\ UNCHANGED <<chain, sets>>

Write(db) ==
  /\ sets < MaxSets
  /\ sets' = sets + 1
  /\ pend' = <<db>>
  /\ UNCHANGED chain

set_config_on_chain(db, f, n) ==
  LET set == [db EXCEPT !.num[f] = n]
  IN [set EXCEPT !.late = IF is_func_has_open(set, f, head_block_num) THEN @ \cup {f} ELSE @ \ {f}]

\* apply_eosio_setconfig of a function's block, which takes any number
setconfig(f, n) ==
  /\ pend # <<>>
  /\ Write(set_config_on_chain(pend[1], f, n))

\* The code object goes with the last account that has its code.
Release(db, c) == [db EXCEPT !.refs[c] = @ - 1]

SetCode(db, a, old, new) ==
  LET kept == IF old = NoCode THEN db ELSE Release(db, old)
      size(c) == IF c = NoCode THEN 0 ELSE CodeSize[c] * Mult
  IN [kept EXCEPT !.refs = IF new = NoCode THEN @ ELSE [@ EXCEPT ![new] = @ + 1],
                  !.code[a] = new,
                  !.ram[a] = @ + size(new) - size(old)]

\* apply_eosio_setcode; NoCode clears the contract.
setcode(a, c) ==
  /\ pend # <<>>
  /\ pend[1].code[a] # c
  /\ Write(SetCode(pend[1], a, pend[1].code[a], c))

\* apply_eosio_setabi
setabi(a, size) ==
  /\ pend # <<>>
  /\ Write([pend[1] EXCEPT !.abi[a] = size, !.ram[a] = @ + size - pend[1].abi[a]])

CommitBlock ==
  /\ pend # <<>>
  /\ chain' = Append(chain, pend[1])
  /\ pend' = <<>>
  /\ UNCHANGED sets

AbortBlock == pend # <<>> /\ pend' = <<>> /\ UNCHANGED <<chain, sets>>

\* pop_block of a fork switch, which has no pending block
PopBlock ==
  /\ pend = <<>> /\ Len(chain) > 1
  /\ chain' = Front(chain)
  /\ UNCHANGED <<pend, sets>>

\* A function's block is one that head_block_num takes at a StartBlock.
Next ==
  \/ StartBlock \/ CommitBlock \/ AbortBlock \/ PopBlock
  \/ \E f \in Funcs, n \in {Unset} \cup 1 .. (MaxBlocks - 1) : setconfig(f, n)
  \/ \E a \in Accounts, c \in Codes \cup {NoCode} : setcode(a, c)
  \/ \E a \in Accounts, size \in AbiSizes : setabi(a, size)

Spec == Init /\ [][Next]_vars
-----------------------------------------------------------------------------
Dbs == Range(chain) \cup Range(pend)

\* The variables have their types: no RAM usage goes below zero.
TypeOK ==
  /\ sets \in 0 .. MaxSets
  /\ \A db \in Dbs :
       /\ db.code \in [Accounts -> Codes \cup {NoCode}]
       /\ db.refs \in [Codes -> Nat]
       /\ db.ram \in [Accounts -> Nat]

Users(db, c) == {a \in Accounts : db.code[a] = c}

\* apply_eosio_setcode and initialize_contract: an account's code has its
\* code object, counted at least once for each account that has the code,
\* however loading by a function, setcode and fork switches mix.
CodeHasObject ==
  \A db \in Dbs : \A c \in Codes : db.refs[c] >= Cardinality(Users(db, c))

\* The same calls, setabi and add_ram_usage: an account is always charged
\* for the code and the abi it has, so that replacing them never takes its
\* usage below zero.
RamCoversCode ==
  \A db \in Dbs : \A a \in Accounts :
    db.ram[a] >= db.abi[a] + (IF db.code[a] = NoCode THEN 0 ELSE Mult * CodeSize[db.code[a]])

\* is_func_has_open and check_func_open: in a block where a function counts as
\* open, what opens with it has been done on this branch, also when its
\* block was moved or the block that did it was dropped.  This is so unless
\* setconfig gave it a block that the chain had already reached, which opens
\* it at once and does nothing.
OpenMeansDone ==
  pend # <<>> =>
    \A f \in Funcs \ pend[1].late :
      is_func_has_open(pend[1], f, head_block_num) => f \in pend[1].ran
=============================================================================
