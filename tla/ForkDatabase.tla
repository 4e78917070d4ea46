---------------------------- MODULE ForkDatabase ----------------------------
(***************************************************************************)
(* fork_database as a component: its callers may invoke its operations in  *)
(* any order that passes the operations' own EOS_ASSERTs, shut the node    *)
(* down (close writes fork_db.dat) and start it again (open reads the file *)
(* back and deletes it).  After a crash there is no file, and the          *)
(* controller resets the database.  An operation whose assertion fails     *)
(* throws before it changes anything, with one exception: advance_root to  *)
(* a block off the head's branch throws in remove() after it erased the    *)
(* new root.  The controller never asks for it: log_irreversible takes the *)
(* branch of the head.                                                     *)
(***************************************************************************)
EXTENDS ForkOps

VARIABLES
  fdb,     \* the fork database; while status is "closed", what fork_db.dat holds
  status   \* "open", "closed" (by close()), "crashed", or "corrupt": open() threw

vars == <<fdb, status>>

\* Mutant: the validated half of the index is written before the other one.
WrittenBefore_Unmerged(V, a, b) ==
  IF (a \in V) = (b \in V) THEN Before(b, a) ELSE a \in V

\* The order in which close() merges the two halves of the index, both taken
\* backwards: the validated block goes first unless it is strictly preferred.
WrittenBefore(V, a, b) ==
  IF (a \in V) = (b \in V) THEN Before(b, a)
  ELSE IF a \in V THEN ~first_preferred(a, b)
  ELSE first_preferred(b, a)

\* open() adds the blocks in file order; add() throws "unlinkable block" when
\* the parent is not there yet.
FileLinks(f) ==
  \A b \in f.index :
    Prev[b] # f.root =>
      Prev[b] \in f.index /\ WrittenBefore(f.valid, Prev[b], b)

\* The checks on the head once the blocks are read back.
FileHeadOK(f) ==
  /\ get_block_header(f, f.head)
  /\ IF f.valid = {} THEN f.head = f.root
     ELSE ~first_preferred(First(f.valid), f.head)

-----------------------------------------------------------------------------
Init ==
  /\ \E r \in Blocks : fdb = reset(r)
  /\ status = "open"

Add(b) ==
  /\ status = "open"
  /\ CanAdd(fdb, b)
  /\ fdb' = add(fdb, b)
  /\ UNCHANGED status

MarkValid(b) ==
  /\ status = "open"
  /\ b \in fdb.index
  /\ fdb' = mark_valid(fdb, b)
  /\ UNCHANGED status

Remove(b) ==
  /\ status = "open"
  /\ b \in fdb.index
  /\ CanRemove(fdb, b)
  /\ fdb' = remove(fdb, b)
  /\ UNCHANGED status

AdvanceRoot(b) ==
  /\ status = "open"
  /\ CanAdvanceRoot(fdb, b)
  /\ fdb' = advance_root(fdb, b)
  /\ UNCHANGED status

RollbackHeadToRoot ==
  /\ status = "open"
  /\ fdb' = rollback_head_to_root(fdb)
  /\ UNCHANGED status

\* A node without fork_db.dat, and a replay that outruns the fork database,
\* start again from the block the state is at.
Reset(r) ==
  /\ status \in {"open", "crashed"}
  /\ fdb' = reset(r)
  /\ status' = "open"

Close ==
  /\ status = "open"
  /\ status' = "closed"
  /\ UNCHANGED fdb

\* The node dies; while it runs there is no fork_db.dat to come back to.
Crash ==
  /\ status = "open"
  /\ status' = "crashed"
  /\ UNCHANGED fdb

Open ==
  /\ status = "closed"
  /\ status' = IF FileLinks(fdb) /\ FileHeadOK(fdb) THEN "open" ELSE "corrupt"
  /\ UNCHANGED fdb

Next ==
  \/ \E b \in Blocks : Add(b) \/ MarkValid(b) \/ Remove(b) \/ AdvanceRoot(b)
  \/ RollbackHeadToRoot
  \/ \E r \in Blocks : Reset(r)
  \/ Close \/ Crash \/ Open

Spec == Init /\ [][Next]_vars

-----------------------------------------------------------------------------
\* Every variable has the shape the code gives it; only blocks of the index
\* carry the validated flag.
TypeOK ==
  /\ fdb \in ForkDbs
  /\ fdb.valid \subseteq fdb.index
  /\ status \in {"open", "closed", "crashed", "corrupt"}

\* No orphaned branch is ever present: every block of the index hangs on the
\* root or on a block of the index, and descends from the root.  advance_root
\* asserts it (fork_database.cpp:266), and fetch_branch_from, pop_block and
\* the removal of stale forks rely on it.
NoOrphans ==
  /\ \A b \in fdb.index : Prev[b] \in fdb.index \cup {fdb.root}
  /\ \A b \in fdb.index : fdb.root \in Anc[b]

\* The head is the root or a validated block of the index, and no validated
\* block is preferred to it: what open() checks after a restart
\* (fork_database.cpp:149-158) and log_irreversible assumes of head().
HeadIsBest ==
  /\ fdb.head = fdb.root \/ fdb.head \in fdb.valid
  /\ \A b \in fdb.valid : ~first_preferred(b, fdb.head)

\* Whatever close() wrote, open() reads back: the merge of the two halves of
\* the index puts every parent before its children, and the saved head passes
\* the checks.  open() never rejects the file of a clean shutdown.
ReopenSucceeds == status # "corrupt"

\* Both together: the blocks on disk and in memory form one tree from the root,
\* and a clean restart brings that tree back.
TreeSurvives == NoOrphans /\ ReopenSucceeds

\* The root only moves forward along one branch: to a validated descendant of
\* the old root, with every block on another branch dropped, and with the head
\* still on the branch of the root.  Only reset() may replace it otherwise.
RootAdvancesOnly ==
  [][ fdb'.root # fdb.root =>
        \/ fdb'.index = {} /\ fdb'.head = fdb'.root
        \/ /\ fdb'.root \in fdb.valid
           /\ fdb.root \in Anc[fdb'.root]
           /\ fdb'.index = {b \in fdb.index : fdb'.root \in Anc[b]}
           /\ fdb'.head = fdb.head ]_vars

\* Unless the database starts over at a root with nothing validated, no
\* operation makes the head worse.  add() assigns the head without comparing it
\* (fork_database.cpp:330-333), and log_irreversible takes the irreversible
\* block from it.
HeadNeverWorsens ==
  [][ \/ ~first_preferred(fdb.head, fdb'.head)
      \/ fdb'.head = fdb'.root /\ fdb'.valid = {} ]_vars
=============================================================================
