------------------------------ MODULE ForkOps ------------------------------
(***************************************************************************)
(* The operations of libraries/chain/fork_database.cpp as functions on the *)
(* value of a fork database: a record with                                 *)
(*   root    the last irreversible block known to the fork database,       *)
(*   head    the best validated block,                                     *)
(*   index   the blocks that descend from root,                            *)
(*   valid   the blocks of index whose "validated" flag is set.            *)
(* The controller's handlers compose them; ForkDatabase is the component   *)
(* on its own.                                                             *)
(***************************************************************************)
EXTENDS BlockTree

ForkDbs ==
  [root : Blocks, head : Blocks, index : SUBSET Blocks, valid : SUBSET Blocks]

-----------------------------------------------------------------------------
(* Preference.                                                             *)

first_preferred(a, b) ==
  \/ Lib[a] > Lib[b]
  \/ Lib[a] = Lib[b] /\ Num[a] > Num[b]

\* by_lib_block_num among blocks with the same validated flag: preference,
\* ties broken by id.
Before(a, b) ==
  \/ first_preferred(a, b)
  \/ ~first_preferred(b, a) /\ IdRank[a] < IdRank[b]

IsFirst(a, S) == a \in S /\ \A b \in S \ {a} : Before(a, b)

\* *index.get<by_lib_block_num>().begin(), restricted to S
First(S) == CHOOSE a \in S : IsFirst(a, S)

unvalidated(f) == f.index \ f.valid

pending_head(f) ==
  LET U == unvalidated(f)
  IN  IF U # {} /\ first_preferred(First(U), f.head) THEN First(U) ELSE f.head

-----------------------------------------------------------------------------
(* Queries.                                                                *)

\* get_block_header finds the root as well as the blocks of the index.
get_block_header(f, b) == b = f.root \/ b \in f.index

\* The block b with its ancestors and, below, with its descendants.
Chain(b) == {b} \cup Anc[b]

Subtree(f, b) == {c \in f.index : b \in Chain(c)}

\* fetch_branch and search_on_branch follow header.previous inside the index.
fetch_branch(f, h, trim_after_block_num) ==
  {b \in Chain(h) \cap f.index : Num[b] <= trim_after_block_num}

search_on_branch(f, h, block_num) ==
  {b \in Chain(h) \cap f.index : Num[b] = block_num}

\* fetch_branch_from: each branch down to, and without, the last common block.
fetch_branch_from(first, second) ==
  <<Chain(first) \ Chain(second), Chain(second) \ Chain(first)>>

-----------------------------------------------------------------------------
(* Updates.  The Can... predicates are the EOS_ASSERTs of the operation.   *)

reset(r) == [root |-> r, head |-> r, index |-> {}, valid |-> {}]

rollback_head_to_root(f) == [f EXCEPT !.valid = {}, !.head = f.root]

\* The block must link to the root or to a block of the index.
Linkable(f, b) == get_block_header(f, Prev[b])

\* index.insert fails on a block that is there already.
CanAdd(f, b) == Linkable(f, b) /\ b \notin f.index

\* Insert, then move head to the begin() of the index when that is validated.
add(f, b) ==
  [f EXCEPT !.index = f.index \cup {b},
            !.head  = IF f.valid # {} THEN First(f.valid) ELSE f.head]

\* Mutant: the head is left alone.
mark_valid_KeepHead(f, b) == [f EXCEPT !.valid = f.valid \cup {b}]

\* Mutant: the block just validated becomes the head, preferred or not.
mark_valid_TakeHead(f, b) ==
  [f EXCEPT !.valid = f.valid \cup {b}, !.head = b]

\* mark_valid returns at once on a validated block; otherwise head moves only
\* to a strictly preferred candidate.
mark_valid(f, b) ==
  LET V == f.valid \cup {b}
  IN  IF b \in f.valid THEN f
      ELSE [f EXCEPT !.valid = V,
                     !.head  = IF first_preferred(First(V), f.head)
                               THEN First(V) ELSE f.head]

\* The removal queue is the block with everything built on it; it must not
\* hold the head.
CanRemove(f, b) == f.head \notin Subtree(f, b) \cup {b}

remove(f, b) ==
  LET D == Subtree(f, b) \cup {b}
  IN  [f EXCEPT !.index = f.index \ D, !.valid = f.valid \ D]

\* blocks_to_remove is the path from the new root's parent to the old root;
\* removing each of them with what is built on it leaves what is built on the
\* new root.  The path must end at the root ("orphaned branch") and the head
\* must not be removed.
CanAdvanceRoot(f, b) ==
  /\ b \in f.valid
  /\ f.root \in Anc[b]
  /\ \A a \in Anc[b] : f.root \in Anc[a] => a \in f.index
  /\ f.head \in Subtree(f, b)

advance_root(f, b) ==
  LET keep == Subtree(f, b) \ {b}
  IN  [f EXCEPT !.root = b, !.index = keep, !.valid = f.valid \cap keep]
=============================================================================
