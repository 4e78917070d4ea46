------------------------------ MODULE MCChain ------------------------------
(***************************************************************************)
(* A node's block stores, for TLC.  A behaviour is one of the parts of     *)
(* Parts, chosen at the start; the variables of the others stay as they    *)
(* are.  The fork database and the wallets are the modules themselves, the *)
(* other parts are instances:                                              *)
(*                                                                         *)
(*  "forks": the fork database      "controller": controller and stores    *)
(*  "snapshots": create_snapshot    "history": state_history_log           *)
(*  "blocklog": block_log           "wallet": wallet_manager               *)
(*                                                                         *)
(* Blocks are written as the function from a block to its parent.          *)
(***************************************************************************)
EXTENDS ForkDatabase, Wallet, TLC

CONSTANTS
  Parts,     \* the parts to explore
  Garbage

VARIABLES part, n, running, pending,
  sn, waiting, files, owed, asked, starts,
  log, idx, memory, unsaved, phase, clean, head, missed, snapshot, failed, crashes,
  index, state, appended, saved, dropped, holed, trims

NumOf(prev) ==
  LET num[b \in DOMAIN prev] == IF prev[b] = NoBlock THEN 1 ELSE num[prev[b]] + 1
  IN  [b \in DOMAIN prev |-> num[b]]

AncOf(prev) ==
  LET anc[b \in DOMAIN prev] == IF prev[b] = NoBlock THEN {} ELSE {prev[b]} \cup anc[prev[b]]
  IN  [b \in DOMAIN prev |-> anc[b]]

-----------------------------------------------------------------------------
(* a1 ties with b1 and a2 with b2, so that ids decide; c2 is shorter than a3
   but carries a higher irreversible number, so that it is preferred. *)
ForkPrev == [g |-> NoBlock, a1 |-> "g", a2 |-> "a1", a3 |-> "a2",
             b1 |-> "g", b2 |-> "b1", c2 |-> "b1"]
ForkBlocks == DOMAIN ForkPrev
ForkNum == NumOf(ForkPrev)
ForkAnc == AncOf(ForkPrev)
ForkLib == [g |-> 0, a1 |-> 0, a2 |-> 1, a3 |-> 1, b1 |-> 0, b2 |-> 1, c2 |-> 2]
ForkIdRank == [g |-> 0, a1 |-> 6, a2 |-> 5, a3 |-> 4, b1 |-> 3, b2 |-> 2, c2 |-> 1]

(* Three branches from the genesis block, two of them with a fork of their
   own; b4 and d4 are bad.  Blocks of one number tie unless their irreversible
   numbers differ, so that ids decide.  a5 makes two blocks irreversible at
   once, c4 one and c5 a second one. *)
NodePrev == [g |-> NoBlock, a2 |-> "g", a3 |-> "a2", a4 |-> "a3", a5 |-> "a4",
             b2 |-> "g", b3 |-> "b2", b4 |-> "b3", b5 |-> "b4",
             c4 |-> "b3", c5 |-> "c4", d4 |-> "a3", e2 |-> "g", e3 |-> "e2", e4 |-> "e3"]
NodeBlocks == DOMAIN NodePrev
NodeNum == NumOf(NodePrev)
NodeAnc == AncOf(NodePrev)
NodeLib == [b \in NodeBlocks |->
              CASE b = "a5" -> 3
                [] b = "c4" -> 2
                [] b = "c5" -> 3
                [] OTHER    -> IF NodeNum[b] >= 3 THEN 1 ELSE 0]
NodeIdRank == [g |-> 0, a2 |-> 1, a3 |-> 6, a4 |-> 5, a5 |-> 8, b2 |-> 2, b3 |-> 3, b4 |-> 4,
               b5 |-> 9, c4 |-> 7, c5 |-> 10, d4 |-> 11, e2 |-> 12, e3 |-> 13, e4 |-> 14]

Node == INSTANCE Controller WITH
  Blocks <- NodeBlocks, Prev <- NodePrev, Num <- NodeNum, Anc <- NodeAnc,
  Lib <- NodeLib, IdRank <- NodeIdRank, MaxBlockNum <- 5, Bad <- {"b4", "d4"},
  Genesis <- "g", StartModes <- {"speculative", "irreversible"}

(* The second branch becomes irreversible in two steps, so that the first one
   is cut off before the heights of its last blocks are reached. *)
SnapPrev == [g |-> NoBlock, a2 |-> "g", a3 |-> "a2", a4 |-> "a3",
             b2 |-> "g", b3 |-> "b2", b4 |-> "b3", b5 |-> "b4", b6 |-> "b5"]
SnapBlocks == DOMAIN SnapPrev
SnapNum == NumOf(SnapPrev)
SnapAnc == AncOf(SnapPrev)
SnapLib == [b \in SnapBlocks |-> CASE b \in {"b4", "b5"} -> 2 [] b = "b6" -> 4 [] OTHER -> 1]
SnapIdRank == [g |-> 0, a2 |-> 1, a3 |-> 6, a4 |-> 5, b2 |-> 2, b3 |-> 3, b4 |-> 4, b5 |-> 7, b6 |-> 8]

Snapshots == INSTANCE PendingSnapshots WITH
  Blocks <- SnapBlocks, Prev <- SnapPrev, Num <- SnapNum, Anc <- SnapAnc,
  Lib <- SnapLib, IdRank <- SnapIdRank, MaxBlockNum <- 6, Bad <- {},
  Genesis <- "g", StartModes <- {"speculative", "irreversible"}, MaxRequests <- 3, MaxStarts <- 1,
  n <- sn

(* The entries of one number have different sizes, so that an index that was
   not rebuilt points into the wrong place. *)
HistPrev == [g |-> NoBlock, a2 |-> "g", a3 |-> "a2", a4 |-> "a3",
             b3 |-> "a2", b4 |-> "b3", c2 |-> "g"]
HistBlocks == DOMAIN HistPrev
HistNum == NumOf(HistPrev)
HistAnc == AncOf(HistPrev)
HistIdRank == [g |-> 0, a2 |-> 6, a3 |-> 5, a4 |-> 4, b3 |-> 3, b4 |-> 2, c2 |-> 1]
HistSize == [x \in HistBlocks \cup {Garbage} |-> IF x \in {"a2", "b3", "b4"} THEN 2 ELSE 1]

History == INSTANCE StateHistoryLog WITH
  Blocks <- HistBlocks, Prev <- HistPrev, Num <- HistNum, Anc <- HistAnc,
  Lib <- [b \in HistBlocks |-> 0], IdRank <- HistIdRank, MaxBlockNum <- 4,
  Genesis <- "g", Size <- HistSize, MaxFaults <- 3, faults <- crashes

(* A log is longer than a buffer of the index writer. *)
Log == INSTANCE BlockLog WITH
  BufferBlocks <- 2, MaxNum <- 4, MaxFaults <- 2, MaxTrims <- 1, status <- state, faults <- crashes

ASSUME
  /\ Node!GenesisAssumption /\ Node!BadAssumption /\ Snapshots!SnapshotAssumption
  /\ History!LogAssumption /\ Log!LogAssumption

-----------------------------------------------------------------------------
fork_vars == <<fdb, status>>
node_vars == <<n, running, pending>>
snap_vars == <<sn, waiting, files, owed, asked, starts>>
file_vars == <<log, head, crashes>>
hist_vars == <<idx, memory, unsaved, phase, clean, missed, snapshot, failed>>
log_vars == <<index, state, appended, saved, dropped, holed, trims>>

all_vars == <<part, fork_vars, node_vars, snap_vars, file_vars, hist_vars, log_vars, wallet_vars>>

\* The variables of a part that does not run.
Off == "off"
ForkOff == fdb = reset("g") /\ status = "closed"
NodeOff == Node!Init /\ n.mode = "speculative"
SnapOff == sn = Off /\ waiting = Off /\ files = Off /\ owed = Off /\ asked = Off /\ starts = Off
FileOff == log = Off /\ head = Off /\ crashes = Off
HistOff == /\ idx = Off /\ memory = Off /\ unsaved = Off /\ phase = Off
           /\ clean = Off /\ missed = Off /\ snapshot = Off /\ failed = Off
LogOff == /\ index = Off /\ state = Off /\ appended = Off /\ saved = Off
          /\ dropped = Off /\ holed = Off /\ trims = Off
WalletOff == WalletInit

ChainInit ==
  /\ part \in Parts
  /\ \/ /\ part = "forks" /\ Init
        /\ NodeOff /\ SnapOff /\ FileOff /\ HistOff /\ LogOff /\ WalletOff
     \/ /\ part = "controller" /\ Node!Init
        /\ ForkOff /\ SnapOff /\ FileOff /\ HistOff /\ LogOff /\ WalletOff
     \/ /\ part = "snapshots" /\ Snapshots!Init
        /\ ForkOff /\ NodeOff /\ FileOff /\ HistOff /\ LogOff /\ WalletOff
     \/ /\ part = "history" /\ History!Init
        /\ ForkOff /\ NodeOff /\ SnapOff /\ LogOff /\ WalletOff
     \/ /\ part = "blocklog" /\ Log!Init
        /\ ForkOff /\ NodeOff /\ SnapOff /\ HistOff /\ WalletOff
     \/ /\ part = "wallet" /\ WalletInit
        /\ ForkOff /\ NodeOff /\ SnapOff /\ FileOff /\ HistOff /\ LogOff

\* The bounds leave a node that takes snapshots without a step in the end.
ChainNext ==
  \/ /\ part = "forks" /\ Next
     /\ UNCHANGED <<part, node_vars, snap_vars, file_vars, hist_vars, log_vars, wallet_vars>>
  \/ /\ part = "controller" /\ Node!Next
     /\ UNCHANGED <<part, fork_vars, snap_vars, file_vars, hist_vars, log_vars, wallet_vars>>
  \/ /\ part = "snapshots" /\ Snapshots!Next
     /\ UNCHANGED <<part, fork_vars, node_vars, file_vars, hist_vars, log_vars, wallet_vars>>
  \/ /\ part = "history" /\ History!Next
     /\ UNCHANGED <<part, fork_vars, node_vars, snap_vars, log_vars, wallet_vars>>
  \/ /\ part = "blocklog" /\ Log!Next
     /\ UNCHANGED <<part, fork_vars, node_vars, snap_vars, hist_vars, wallet_vars>>
  \/ /\ part = "wallet" /\ WalletNext
     /\ UNCHANGED <<part, fork_vars, node_vars, snap_vars, file_vars, hist_vars, log_vars>>
  \/ part = "snapshots" /\ UNCHANGED all_vars

ChainSpec == ChainInit /\ [][ChainNext]_all_vars

-----------------------------------------------------------------------------
\* The stores of a running node agree, whatever led to its state (pushes,
\* failed and reversed fork switches, crashes, restarts in another mode and
\* replays): the chain state is that of the head, the reversible blocks are
\* the head's branch, the block log ends with the root, and no block that
\* failed to validate is stored (controller_impl).  The node is on the best
\* branch it knows, none of the assertions that "_should_ never fail" failed on
\* the way there, and only a tie makes init() refuse the stores it left
\* (maybe_switch_forks, init).
StoresAgree ==
  /\ Node!StateIsHead /\ Node!ReversibleIsBranch /\ Node!LogIsRoot /\ Node!BadNeverStored
  /\ Node!OnBestBranch /\ Node!RunningIsConsistent /\ Node!StartRefusedOnlyOnTie

\* Controller implements Ledger: its log only grows, by children, and a running
\* node never moves to a head that the fork choice ranks lower.
ImplementsLedger == Node!ImplementsLedger

\* Every request for a snapshot is answered once, or waits at a block that a
\* later irreversible block will reach (create_snapshot, on_irreversible_block).
SnapshotsAnswered ==
  part = "snapshots" => Snapshots!AnsweredOnce /\ Snapshots!StillToCome

\* create_snapshot's promise that a snapshot "will be returned when the snapshot
\* becomes irreversible" (pending_snapshot::finalize).
FinalIsIrreversible == part = "snapshots" => Snapshots!FinalIsIrreversible

\* Through crashes, failed writes, repairs and trims: an open state history
\* log returns one chain, the controller's while nothing was missed, misses a
\* block only after a snapshot or a failed write, and refuses its files only if
\* nothing could be kept (state_history_log); the index of an open block log
\* leads to every block, or nowhere for the blocks that a construct_index which
\* did not end left out, an appended block is never lost, and open() refuses
\* only a damaged log (block_log, eosio-blocklog).
LogsKept ==
  /\ part = "history" =>
       /\ History!EntriesAreChain /\ History!RecordsChain
       /\ History!MissedOnlyAfterSnapshot /\ History!RefusedOnlyIfNothingKept
  /\ part = "blocklog" => Log!IndexLeadsToBlocks /\ Log!AppendedSurvive /\ Log!RefusedOnlyIfDamaged
=============================================================================
