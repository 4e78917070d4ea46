-------------------------- MODULE PendingSnapshots --------------------------
(***************************************************************************)
(* create_snapshot and the index of pending snapshots of producer_plugin,  *)
(* on top of the controller of ControllerOps: a snapshot of the head is    *)
(* written at once, and promoted or given up when log_irreversible reaches *)
(* its height.  log_irreversible emits irreversible_block for each block   *)
(* before it advances the root of the fork database.                       *)
(***************************************************************************)
EXTENDS ControllerOps

CONSTANTS
  Genesis,      \* the block of the genesis state
  StartModes,   \* the read modes the node is started in
  MaxRequests,  \* bound on the number of requests
  MaxStarts     \* bound on the number of restarts

SnapshotAssumption ==
  /\ Genesis \in Blocks /\ StartModes \subseteq Modes
  /\ {MaxRequests, MaxStarts} \subseteq Nat

VARIABLES
  n,        \* the node (ControllerOps)
  waiting,  \* _pending_snapshot_index: the number of requests chained at each block
  files,    \* snapshot files: their state and block
  owed,     \* requests for each block that were not answered
  asked,    \* requests so far
  starts    \* restarts so far

vars == <<n, waiting, files, owed, asked, starts>>

Waiting == DOMAIN waiting
File(state, b) == [state |-> state, block |-> b]
Files == [state : {"incomplete", "pending", "final"}, block : Blocks]
Without(f, S) == [b \in DOMAIN f \ S |-> f[b]]

Init ==
  /\ \E m \in StartModes :
       n = [ fdb |-> reset(Genesis), head |-> Genesis, state |-> Genesis,
             committed |-> Num[Genesis], reversible |-> {}, blog |-> <<Genesis>>,
             mode |-> m, replaying |-> FALSE, exc |-> "none" ]
  /\ waiting = <<>> /\ files = {} /\ owed = [b \in Blocks |-> 0] /\ asked = 0 /\ starts = 0
-----------------------------------------------------------------------------
(* Irreversible blocks *)

\* fetch_block_by_id, while log_irreversible turns n into m: the fork database
\* still has every block it had, and the blocks of the log are found by number.
fetch_block_by_id(m, b) == b \in n.fdb.index \cup m.fdb.index \cup Range(m.blog)

Reached(m) == {b \in Waiting : Num[b] <= LibNum(m)}

\* pending_snapshot::finalize of the snapshots in S; renaming some of them
\* fails.  The file of a snapshot that is not in the chain is removed.
finalize(m, S, failing) ==
  LET inChain == {b \in S : fetch_block_by_id(m, b)}
  IN  (files \ {File("pending", b) : b \in S \ (inChain \cap failing)})
      \cup {File("final", b) : b \in inChain \ failing}

\* on_irreversible_block, for each block the log gained: every pending snapshot
\* up to its height is finalized, its requests are answered and it leaves the
\* index.
on_irreversible_blocks(m) ==
  IF m.blog = n.blog THEN UNCHANGED <<waiting, files, owed>>
  ELSE /\ \E failing \in SUBSET Reached(m) : files' = finalize(m, Reached(m), failing)
       /\ owed' = [b \in Blocks |-> IF b \in Reached(m) THEN owed[b] - waiting[b] ELSE owed[b]]
       /\ waiting' = Without(waiting, Reached(m))

PushBlock(b) ==
  /\ CanAdd(n.fdb, b)
  /\ n' = push_block([n EXCEPT !.exc = "none"], b)
  /\ on_irreversible_blocks(n')
  /\ UNCHANGED <<asked, starts>>

CommitBlock(b) ==
  /\ n.mode # "irreversible" /\ Prev[b] = n.head /\ b \notin Bad /\ b \notin n.fdb.index
  /\ n' = commit_block([n EXCEPT !.exc = "none"], b)
  /\ on_irreversible_blocks(n')
  /\ UNCHANGED <<asked, starts>>
-----------------------------------------------------------------------------
(* create_snapshot of the head *)

Request == asked < MaxRequests /\ asked' = asked + 1

Answer == UNCHANGED <<waiting, owed>>

\* "maintain legacy exception if the snapshot exists"
SnapshotExists ==
  /\ Request /\ File("final", n.head) \in files
  /\ Answer
  /\ UNCHANGED <<n, files, starts>>

\* Writing or renaming fails, after some of the file was written.
SnapshotFails ==
  /\ Request /\ File("final", n.head) \notin files /\ n.head \notin Waiting
  /\ files' = files \cup {File("incomplete", n.head)}
  /\ Answer
  /\ UNCHANGED <<n, starts>>

Written(state) == (files \ {File("incomplete", n.head)}) \cup {File(state, n.head)}

\* In irreversible mode the head is irreversible.
SnapshotNow ==
  /\ Request /\ n.mode = "irreversible" /\ File("final", n.head) \notin files
  /\ files' = Written("final")
  /\ Answer
  /\ UNCHANGED <<n, starts>>

Chained_Replace == 1

\* The handler of a request for a block that is already pending is chained to
\* the one before.
Chained == waiting[n.head] + 1

Pends == n.mode # "irreversible"

SnapshotPends ==
  /\ Request /\ Pends /\ File("final", n.head) \notin files
  /\ IF n.head \in Waiting
     THEN waiting' = [waiting EXCEPT ![n.head] = Chained] /\ UNCHANGED files
     ELSE waiting' = (n.head :> 1) @@ waiting /\ files' = Written("pending")
  /\ owed' = [owed EXCEPT ![n.head] = @ + 1]
  /\ UNCHANGED <<n, starts>>

\* A clean shutdown and a start: the index is lost, with the connections of the
\* requests; files stay.
Restart(mode) ==
  /\ starts < MaxStarts
  /\ starts' = starts + 1
  /\ n' = startup([n EXCEPT !.mode = mode, !.exc = "none"])
  /\ OK(n')
  /\ waiting' = <<>> /\ owed' = [b \in Blocks |-> 0]
  /\ UNCHANGED <<files, asked>>

Next ==
  \/ \E b \in Blocks : PushBlock(b) \/ CommitBlock(b)
  \/ SnapshotExists \/ SnapshotFails \/ SnapshotNow \/ SnapshotPends
  \/ \E mode \in StartModes : Restart(mode)

Spec == Init /\ [][Next]_vars
-----------------------------------------------------------------------------
TypeOK ==
  /\ n \in Nodes
  /\ Waiting \subseteq Blocks /\ \A b \in Waiting : waiting[b] \in 1 .. MaxRequests
  /\ files \subseteq Files
  /\ n.mode = "irreversible" => Waiting = {}

\* Every request is answered exactly once, or its handler waits at its block:
\* also when several requests share a block, when writing fails and when the
\* block is forked out (create_snapshot, on_irreversible_block).
AnsweredOnce ==
  \A b \in Blocks : owed[b] = IF b \in Waiting THEN waiting[b] ELSE 0

\* No snapshot is forgotten: what is pending is above the last irreversible
\* block, or was taken of it, and will be reached by a later one; its file is
\* there to be promoted.
StillToCome ==
  \A b \in Waiting : /\ Num[b] > LibNum(n) \/ b = Last(n.blog)
                     /\ File("pending", b) \in files

\* A snapshot "will be returned when the snapshot becomes irreversible": no
\* snapshot is promoted whose block is not in the irreversible chain
\* (pending_snapshot::finalize).
FinalIsIrreversible ==
  \A f \in files : f.state = "final" => f.block \in Range(n.blog)
=============================================================================
