---------------------------- MODULE ControllerOps ----------------------------
(***************************************************************************)
(* The block handling of libraries/chain/controller.cpp as functions on    *)
(* the value of a node: a record with                                      *)
(*   fdb         the fork database (ForkOps),                              *)
(*   head        the controller's head,                                    *)
(*   state       the block whose execution the chainbase state reflects,   *)
(*   committed   the revision below which chainbase can no longer undo,    *)
(*   reversible  the blocks of the reversible block database,              *)
(*   blog        the block log,                                            *)
(*   mode        the read mode: SPECULATIVE, HEAD and READ_ONLY handle     *)
(*               blocks alike, IRREVERSIBLE does not,                      *)
(*   replaying   replay_head_time is set,                                  *)
(*   exc         what the operation threw.                                 *)
(* Whether a block's transactions execute as its producer says depends on  *)
(* the block alone: Bad holds the ones that do not.                        *)
(***************************************************************************)
EXTENDS ForkOps, SequencesExt

CONSTANT Bad    \* the blocks that apply_block rejects

BadAssumption == Bad \subseteq Blocks

Modes == {"speculative", "irreversible"}

\* An exception of a block that does not validate is part of normal operation.
\* The others are assertions that guard the consistency of the node's stores.
ConsistencyFailures ==
  { "chainbase revision does not match head", "reversible block exists",
    "pop beyond last irreversible block", "block not in fork database",
    "removing the head", "loss of sync", "back() of an empty branch",
    "root is not the log head", "cannot advance root",
    "committed block is not the head", "root beyond block log",
    "state behind head", "gap in reversible blocks",
    "head beyond last stored block", "reversible blocks mismatch",
    "LIB not in fork database", "unlinkable reversible block" }

Outcomes == {"none", "block_validate_exception"} \cup ConsistencyFailures

Nodes ==
  [ fdb : ForkDbs, head : Blocks, state : Blocks, committed : 0 .. MaxBlockNum,
    reversible : SUBSET Blocks, blog : Seq(Blocks), mode : Modes,
    replaying : BOOLEAN, exc : Outcomes ]

Throw(n, e) == [n EXCEPT !.exc = e]

OK(n) == n.exc = "none"

\* What follows a call that left m: nothing if it threw.
Then(m, Op(_)) == IF OK(m) THEN Op(m) ELSE m

\* A catch clause: the exception is put aside, and thrown again after the
\* handler unless that threw one itself.
Caught(m) == [m EXCEPT !.exc = "none"]

Rethrow(m, e) == Then(m, LAMBDA k : Throw(k, e))

\* The blocks of a branch in the order they are applied.
Ascending(S) == SetToSortSeq(S, LAMBDA a, b : Num[a] < Num[b])

LibNum(n) == Num[Last(n.blog)]

-----------------------------------------------------------------------------
(* Applying and popping one block.                                         *)

\* Mutant: the reversible block of an undone block is kept.
pop_block_KeepReversible(n) ==
  [n EXCEPT !.head = Prev[n.head],
            !.state = IF Num[n.state] > n.committed THEN Prev[n.state] ELSE n.state]

pop_block(n) ==
  IF ~get_block_header(n.fdb, Prev[n.head])
  THEN Throw(n, "pop beyond last irreversible block")
  ELSE [n EXCEPT !.head = Prev[n.head],
                 !.reversible = {r \in n.reversible : Num[r] # Num[n.head]},
                 !.state = IF Num[n.state] > n.committed
                           THEN Prev[n.state] ELSE n.state]

\* The blocks of S are the last ones applied.
Pop(n, S) ==
  FoldLeft(LAMBDA m, b : Then(m, pop_block), n, Ascending(S))

\* start_block's check of the chainbase revision, the execution of the block,
\* and commit_block(false), which stores it as a reversible block.  A block
\* executed on another state than its parent's does not reproduce its id.
apply_block(n, b) ==
  IF Num[n.state] # Num[n.head]
  THEN Throw(n, "chainbase revision does not match head")
  ELSE IF b \in Bad \/ n.state # Prev[b]
  THEN Throw(n, "block_validate_exception")
  ELSE IF n.replaying \/ n.mode = "irreversible"
  THEN [n EXCEPT !.state = b]
  ELSE IF \E r \in n.reversible : Num[r] = Num[b]
  THEN Throw(n, "reversible block exists")
  ELSE [n EXCEPT !.state = b, !.reversible = n.reversible \cup {b}]

\* apply_block, fork_db.mark_valid, head = b.
ApplyAndMark(n, b) ==
  Then(n, LAMBDA k : Then(apply_block(k, b),
    LAMBDA m : [m EXCEPT !.fdb = mark_valid(m.fdb, b), !.head = b]))

\* Blocks that were validated before are applied again: no mark_valid.
Reapply(n, b) ==
  Then(n, LAMBDA k : Then(apply_block(k, b), LAMBDA m : [m EXCEPT !.head = b]))

RemoveBlock(n, b) ==
  IF CanRemove(n.fdb, b) THEN [n EXCEPT !.fdb = remove(n.fdb, b)]
  ELSE Throw(n, "removing the head")

-----------------------------------------------------------------------------
(* Irreversibility.                                                        *)

\* One turn of log_irreversible's loop.
LogBlock(n, b) ==
  Then(IF n.mode = "irreversible" THEN ApplyAndMark(n, b) ELSE n,
    LAMBDA m : [m EXCEPT !.committed = Max({Num[b], m.committed}),
                         !.blog = Append(m.blog, b),
                         !.reversible = {r \in m.reversible : Num[r] > Num[b]}])

\* After the loop, and in its catch clause: the root follows the log.
AdvanceRootToLog(n) ==
  LET b == Last(n.blog)
  IN  IF b = n.fdb.root THEN n
      ELSE IF CanAdvanceRoot(n.fdb, b) THEN [n EXCEPT !.fdb = advance_root(n.fdb, b)]
      ELSE Throw(n, "cannot advance root")

\* Everything up to the irreversible block of fork_head is logged.
LogUpTo(n, fork_head) ==
  IF Lib[fork_head] <= LibNum(n) THEN n
  ELSE AdvanceRootToLog(
         FoldLeft(LogBlock, n, Ascending(fetch_branch(n.fdb, fork_head, Lib[fork_head]))))

log_irreversible(n) ==
  IF n.fdb.root # Last(n.blog) THEN Throw(n, "root is not the log head")
  ELSE LogUpTo(n, IF n.mode = "irreversible" THEN pending_head(n.fdb) ELSE n.fdb.head)

-----------------------------------------------------------------------------
(* Fork switching.                                                         *)

\* The new head extends the head; if it does not apply, it is removed.
ExtendHead(n, new_head) ==
  LET Handle(m) == IF OK(m) THEN m ELSE Rethrow(RemoveBlock(Caught(m), new_head), m.exc)
  IN  Handle(ApplyAndMark(n, new_head))

\* Mutant: the old branch is not applied again.
Reversal_NoReapply(n, up, down) ==
  LET failed  == CHOOSE b \in up : Prev[b] = n.head
      applied == {b \in up : Num[b] < Num[failed]}
  IN  Rethrow(Pop(RemoveBlock(Caught(n), failed), applied), n.exc)

\* A block of the new branch (up) threw: drop it with what is built on it, pop
\* the ones applied before it and apply the old branch (down) again.
Reversal(n, up, down) ==
  LET failed  == CHOOSE b \in up : Prev[b] = n.head
      applied == {b \in up : Num[b] < Num[failed]}
      GoBack(m) ==
        IF down = {} THEN Throw(m, "back() of an empty branch")
        ELSE IF Prev[Ascending(down)[1]] # m.head THEN Throw(m, "loss of sync")
        ELSE Rethrow(FoldLeft(Reapply, m, Ascending(down)), n.exc)
  IN  Then(Pop(RemoveBlock(Caught(n), failed), applied), GoBack)

\* Pop the branch down, apply the branch up.
SwitchBranch(n, up, down) ==
  LET Handle(m) == IF OK(m) THEN m ELSE Reversal(m, up, down)
      GoUp(m) ==
        IF down # {} /\ Prev[Ascending(down)[1]] # m.head THEN Throw(m, "loss of sync")
        ELSE Handle(FoldLeft(ApplyAndMark, m, Ascending(up)))
  IN  IF ~(up \cup down \subseteq n.fdb.index) THEN Throw(n, "block not in fork database")
      ELSE Then(Pop(n, down), GoUp)

maybe_switch_forks(n, new_head) ==
  LET branches == fetch_branch_from(new_head, n.head)
  IN  IF new_head = n.head THEN n
      ELSE Then(IF Prev[new_head] = n.head THEN ExtendHead(n, new_head)
                ELSE SwitchBranch(n, branches[1], branches[2]),
                log_irreversible)

-----------------------------------------------------------------------------
(* Blocks from the network and from the local producer.                    *)

push_block(n, b) ==
  LET m == [n EXCEPT !.fdb = add(n.fdb, b)]
  IN  IF m.mode = "irreversible" THEN log_irreversible(m)
      ELSE maybe_switch_forks(m, pending_head(m.fdb))

\* commit_block(true): the block the node has just built on its head.
commit_block(n, b) ==
  LET f == mark_valid(add(n.fdb, b), b)
      m == [n EXCEPT !.fdb = f, !.head = f.head]
  IN  IF f.head # b THEN Throw(m, "committed block is not the head")
      ELSE IF \E r \in n.reversible : Num[r] = Num[b]
      THEN Throw(m, "reversible block exists")
      ELSE log_irreversible([m EXCEPT !.state = b, !.reversible = m.reversible \cup {b}])

-----------------------------------------------------------------------------
(* Starting.                                                               *)

\* The fork database after the irreversible blocks were replayed up to head.
SyncForkDb(n) ==
  LET f == n.fdb
      p == pending_head(f)
      new_root == search_on_branch(f, p, Num[n.head])
      r == CHOOSE b \in new_root : TRUE
  IN  IF Num[p] < Num[n.head] \/ Num[n.head] < Num[f.root]
      THEN [n EXCEPT !.fdb = reset(n.head)]
      ELSE IF Num[n.head] = Num[f.root] THEN n
      ELSE IF new_root = {} THEN Throw(n, "LIB not in fork database")
      ELSE IF CanAdvanceRoot(mark_valid(f, r), r)
      THEN [n EXCEPT !.fdb = advance_root(mark_valid(f, r), r)]
      ELSE Throw(n, "cannot advance root")

\* replay_push_block of a block of the log: no undo session, so no way back.
ReplayLogged(n, b) ==
  Then(Reapply(n, b), LAMBDA m : [m EXCEPT !.committed = Num[b]])

\* replay_push_block of a reversible block; duplicates are ignored by add().
ReplayReversible(n, b) ==
  IF ~OK(n) \/ Num[b] # Num[n.head] + 1 THEN n
  ELSE IF Prev[b] # n.head THEN Throw(n, "unlinkable reversible block")
  ELSE IF ~Linkable(n.fdb, b) THEN Throw(n, "block not in fork database")
  ELSE maybe_switch_forks(
         [n EXCEPT !.fdb = IF b \in n.fdb.index THEN n.fdb ELSE add(n.fdb, b)], b)

replay(n) ==
  LET ahead   == SelectSeq(n.blog, LAMBDA b : Num[b] > Num[n.head])
      Sync(m) == IF ahead = <<>> THEN m ELSE SyncForkDb(m)
      logged  == FoldLeft(ReplayLogged, [n EXCEPT !.replaying = TRUE], ahead)
  IN  [FoldLeft(ReplayReversible, Then(logged, Sync), Ascending(n.reversible))
         EXCEPT !.replaying = FALSE]

\* The read mode may have changed from irreversible: apply the best branch.  A
\* second turn of the loop would find nothing better than the first one's head.
ApplyBestBranch(n) ==
  IF n.mode # "irreversible"
     /\ pending_head(n.fdb) # n.fdb.head /\ n.fdb.head = n.fdb.root
  THEN maybe_switch_forks(n, pending_head(n.fdb)) ELSE n

\* The reversible blocks hold the pending head, or end on its branch.
ReversibleMatch(n, last) ==
  LET p == pending_head(n.fdb)
  IN  n.reversible # {} =>
        /\ LibNum(n) < Num[p] /\ Num[p] <= last => p \in n.reversible
        /\ last < Num[p] =>
             /\ search_on_branch(n.fdb, p, last) # {}
             /\ search_on_branch(n.fdb, p, last) \subseteq n.reversible

\* db.undo() until the revision is the head's number.
UndoTo(n) ==
  LET low == IF Num[n.head] > n.committed THEN Num[n.head] ELSE n.committed
  IN  IF Num[n.state] <= low THEN n
      ELSE [n EXCEPT !.state = CHOOSE b \in Anc[n.state] : Num[b] = low]

\* The reversible blocks init() removes before it looks at the others.
StaleReversible(n) ==
  {r \in n.reversible : n.mode = "irreversible" \/ Num[r] <= LibNum(n)}

\* The checks of init() on the reversible blocks that are left, and the replay.
CheckAndReplay(n) ==
  LET nums == {Num[r] : r \in n.reversible}
      last == Max({LibNum(n)} \cup nums)
  IN  IF nums # {} /\ Min(nums) # LibNum(n) + 1
      THEN Throw(n, "gap in reversible blocks")
      ELSE IF n.mode # "irreversible" /\ Num[n.head] > last
      THEN Throw(n, "head beyond last stored block")
      ELSE IF ~ReversibleMatch(n, last) THEN Throw(n, "reversible blocks mismatch")
      ELSE Then(IF last > Num[n.head] THEN replay(n) ELSE n, ApplyBestBranch)

init(n) ==
  IF Num[n.state] < Num[n.head] THEN Throw(n, "state behind head")
  ELSE CheckAndReplay(
         [UndoTo(n) EXCEPT !.reversible = n.reversible \ StaleReversible(n)])

\* In irreversible mode the head goes back to the root first.
RollbackIfIrreversible(n) ==
  IF n.mode = "irreversible" /\ n.fdb.head # n.fdb.root
  THEN [n EXCEPT !.fdb = rollback_head_to_root(n.fdb)] ELSE n

\* startup() on the state and the fork database of a clean shutdown.
startup(n) ==
  LET m == RollbackIfIrreversible(n)
  IN  IF Num[n.fdb.root] > LibNum(n) THEN Throw(n, "root beyond block log")
      ELSE init([m EXCEPT !.head = m.fdb.head])

\* startup(genesis) on a fresh state, with the fork database of a clean
\* shutdown or, after a crash, with a fork database reset to genesis.
startup_genesis(n, has_fork_db) ==
  LET genesis == n.blog[1]
      m == IF has_fork_db THEN RollbackIfIrreversible(n)
           ELSE [n EXCEPT !.fdb = reset(genesis)]
  IN  init([m EXCEPT !.head = genesis, !.state = genesis, !.committed = Num[genesis]])
=============================================================================
