----------------------------- MODULE Controller -----------------------------
(***************************************************************************)
(* A node: the controller with its fork database, its chainbase state, its *)
(* reversible block database and its block log.  Blocks arrive from the    *)
(* network in any order the fork database links, valid or not; the node    *)
(* produces blocks; it is stopped and started again, in the same read mode *)
(* or another one; it crashes between or inside the handlers.  The fork    *)
(* database and the chainbase state survive only a clean shutdown; the     *)
(* block log and the reversible blocks survive a crash.                    *)
(***************************************************************************)
EXTENDS ControllerOps

CONSTANTS
  Genesis,     \* the block of the genesis state
  StartModes   \* the read modes the operator starts the node in

GenesisAssumption ==
  Genesis \in Blocks /\ Prev[Genesis] = NoBlock /\ StartModes \subseteq Modes

VARIABLES
  n,         \* the node (ControllerOps)
  running,   \* "up", "down" after a clean exit, "crashed"
  pending    \* the node is building a block on its head

vars == <<n, running, pending>>

\* What a crash leaves of the node: the block log and the reversible blocks.
Survivors(log, rev) ==
  [ n EXCEPT !.fdb = reset(Genesis), !.head = Genesis, !.state = Genesis,
             !.committed = Num[Genesis], !.blog = log, !.reversible = rev,
             !.exc = "none" ]

Init ==
  /\ \E m \in StartModes :
       n = [ fdb |-> reset(Genesis), head |-> Genesis, state |-> Genesis,
             committed |-> Num[Genesis], reversible |-> {}, blog |-> <<Genesis>>,
             mode |-> m, replaying |-> FALSE, exc |-> "none" ]
  /\ running = "up"
  /\ pending = FALSE

\* create_block_state_future refuses a known or an unlinkable block.
CanPush(b) == running = "up" /\ ~pending /\ CanAdd(n.fdb, b)

PushBlock(b) ==
  /\ CanPush(b)
  /\ n' = push_block([n EXCEPT !.exc = "none"], b)
  /\ UNCHANGED <<running, pending>>

\* A producing node is not in irreversible mode.
StartBlock ==
  /\ running = "up" /\ ~pending /\ n.mode # "irreversible"
  /\ Num[n.state] = Num[n.head]
  /\ pending' = TRUE
  /\ UNCHANGED <<n, running>>

AbortBlock ==
  /\ pending
  /\ pending' = FALSE
  /\ UNCHANGED <<n, running>>

\* The block that is built is a new, valid child of the head.
CanCommit(b) ==
  /\ running = "up" /\ pending
  /\ Prev[b] = n.head /\ b \notin Bad /\ b \notin n.fdb.index

CommitBlock(b) ==
  /\ CanCommit(b)
  /\ n' = commit_block([n EXCEPT !.exc = "none"], b)
  /\ pending' = FALSE
  /\ UNCHANGED running

-----------------------------------------------------------------------------
Stop ==
  /\ running = "up"
  /\ n' = [n EXCEPT !.exc = "none"]
  /\ running' = "down"
  /\ pending' = FALSE

Crash ==
  /\ running = "up"
  /\ n' = Survivors(n.blog, n.reversible)
  /\ running' = "crashed"
  /\ pending' = FALSE

\* The reversible blocks on disk while the node moves to new_head: the old
\* branch is popped from its top, then the new one is stored from its bottom,
\* up to its first bad block.
SwitchStores(new_head) ==
  LET up    == fetch_branch_from(new_head, n.head)[1]
      fork  == Max({Num[b] : b \in Chain(new_head) \cap Chain(n.head)})
      kept  == {r \in n.reversible : Num[r] <= fork}
      good  == {b \in up : Chain(b) \cap up \cap Bad = {}}
  IN  {{r \in n.reversible : Num[r] <= k} : k \in fork .. Num[n.head]}
      \cup {kept \cup {b \in good : Num[b] <= k} : k \in fork .. Num[new_head]}

\* The log and the reversible blocks on disk while log_irreversible turns n
\* into m: some of the blocks are appended, and the reversible blocks up to the
\* last of them are removed, or not yet.
LogStores(m) ==
  LET new == Range(m.blog) \ Range(n.blog)
      all == IF n.mode = "irreversible" THEN {} ELSE m.reversible \cup new
  IN  { <<SubSeq(m.blog, 1, j), {r \in all : Num[r] > Num[m.blog[j]] - lag}>> :
          j \in Len(n.blog) + 1 .. Len(m.blog), lag \in {0, 1} }

CrashInPush(b) ==
  /\ CanPush(b)
  /\ \/ /\ n.mode # "irreversible"
        /\ \E rev \in SwitchStores(pending_head(add(n.fdb, b))) :
             n' = Survivors(n.blog, rev)
     \/ \E s \in LogStores(push_block(n, b)) : n' = Survivors(s[1], s[2])
  /\ running' = "crashed"
  /\ UNCHANGED pending

CrashInCommit(b) ==
  /\ CanCommit(b)
  /\ \E s \in LogStores(commit_block(n, b)) : n' = Survivors(s[1], s[2])
  /\ running' = "crashed"
  /\ pending' = FALSE

\* A startup that throws ends the process, which closes its stores in order;
\* back() of a vector that never held anything reads an invalid address.
Started(m) ==
  LET segfault == m.exc = "back() of an empty branch"
  IN  /\ n' = IF segfault
              THEN [Survivors(m.blog, m.reversible) EXCEPT !.mode = m.mode, !.exc = m.exc]
              ELSE m
      /\ running' = IF OK(m) THEN "up" ELSE IF segfault THEN "crashed" ELSE "down"
      /\ UNCHANGED pending

Start(mode) ==
  /\ running = "down"
  /\ Started(startup([n EXCEPT !.mode = mode, !.exc = "none"]))

\* recover_reversible_blocks copies the reversible blocks up to the first gap.
RecoverReversible(rev) ==
  LET Low == Min({Num[r] : r \in rev})
  IN  {r \in rev : \A k \in Low .. Num[r] : \E s \in rev : Num[s] = k}

\* --replay-blockchain; after a crash there is no other way to start.
StartReplay(mode) ==
  /\ running \in {"down", "crashed"}
  /\ LET rev == IF running = "crashed" THEN RecoverReversible(n.reversible)
                ELSE n.reversible
     IN  Started(startup_genesis([n EXCEPT !.mode = mode, !.exc = "none",
                                           !.reversible = rev], running = "down"))

Next ==
  \/ \E b \in Blocks : \/ PushBlock(b) \/ CommitBlock(b)
                       \/ CrashInPush(b) \/ CrashInCommit(b)
  \/ StartBlock \/ AbortBlock \/ Stop \/ Crash
  \/ \E mode \in StartModes : Start(mode) \/ StartReplay(mode)

Spec == Init /\ [][Next]_vars

-----------------------------------------------------------------------------
\* Every variable has the shape the code gives it; only blocks of the fork
\* database's index carry its validated flag, and no two reversible blocks have
\* one number (by_num is a unique index).
TypeOK ==
  /\ n \in Nodes /\ n.blog # <<>>
  /\ n.fdb.valid \subseteq n.fdb.index
  /\ \A r, s \in n.reversible : Num[r] = Num[s] => r = s
  /\ running \in {"up", "down", "crashed"}
  /\ pending \in BOOLEAN

\* Whatever sequence of pushes, failed and reversed fork switches, restarts and
\* replays led here, the chainbase state of a running node is the state of its
\* head, and that can be undone down to the last irreversible block and no
\* further (pop_block, db.commit).
StateIsHead ==
  running = "up" =>
    n.state = n.head /\ n.committed = LibNum(n) /\ LibNum(n) <= Num[n.head]

\* The reversible block database of a running node holds exactly the blocks
\* between the last irreversible block and the head, on the head's branch:
\* init() refuses to start on anything else (controller.cpp:724-765).
ReversibleIsBranch ==
  running = "up" =>
    n.reversible = IF n.mode = "irreversible" THEN {}
                   ELSE {b \in Chain(n.head) : Num[b] > LibNum(n)}

\* The block log is one chain from genesis, its end is the fork database's root
\* and the head descends from it: nothing irreversible is ever forked out.
LogIsRoot ==
  running = "up" =>
    /\ n.blog[1] = Genesis
    /\ \A i \in 2 .. Len(n.blog) : Prev[n.blog[i]] = n.blog[i - 1]
    /\ Last(n.blog) = n.fdb.root
    /\ n.fdb.root \in Chain(n.head)

\* Once a push returns, successfully or not, no block the fork database holds,
\* validated or not, is preferred to the head, and its own head is as good as
\* the controller's.  In irreversible mode the head is the root.
OnBestBranch ==
  running = "up" =>
    IF n.mode = "irreversible" THEN n.head = n.fdb.root /\ n.fdb.head = n.head
    ELSE /\ n.head \in n.fdb.valid \cup {n.fdb.root}
         /\ \A b \in n.fdb.index : ~first_preferred(b, n.head)
         /\ ~first_preferred(n.head, n.fdb.head)

\* No block that fails to validate is ever the head, or stored as validated,
\* reversible or irreversible, also when it is delivered again after its
\* removal, or applied in a replay.
BadNeverStored ==
  Bad \cap ({n.head, n.state} \cup n.fdb.valid \cup n.reversible \cup Range(n.blog)) = {}

\* The assertions of push_block, maybe_switch_forks, pop_block, commit_block
\* and log_irreversible that "_should_ never fail" (controller.cpp:2251, 2280)
\* do not fail while the node runs.
RunningIsConsistent == running = "up" => n.exc \notin ConsistencyFailures

\* init() refuses to start on stores that the node itself left, after a clean
\* shutdown or a crash, in one case only: the fork database's head is another
\* block than the last reversible one and ties with it.
StartRefusedOnlyOnTie ==
  running = "down" /\ n.exc \in ConsistencyFailures =>
    \E r \in n.reversible :
      /\ \A s \in n.reversible : Num[s] <= Num[r]
      /\ r # n.fdb.head
      /\ ~first_preferred(r, n.fdb.head) /\ ~first_preferred(n.fdb.head, r)

Promised == INSTANCE Ledger WITH
  chain <- n.blog, tip <- IF running = "up" THEN n.head ELSE NoBlock, up <- running = "up"

\* The controller implements the abstract ledger: through fork switches, failed
\* ones included, crashes, restarts in another mode and replays, its log grows
\* by children, its head stays on it, and a running node never moves to a head
\* that the fork choice rule ranks lower (maybe_switch_forks, log_irreversible).
ImplementsLedger == Promised!Spec
=============================================================================
