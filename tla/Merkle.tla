------------------------------- MODULE Merkle -------------------------------
(***************************************************************************)
(* The two Merkle trees of the chain.  merkle() (merkle.cpp) reduces a     *)
(* vector of digests level by level: block headers carry its value for the *)
(* receipts and the actions of a block.  incremental_merkle                *)
(* (incremental_merkle.hpp) is the tree over all block ids: every header   *)
(* state copies it from its parent and appends one id, and a light client  *)
(* holds on to its root only.  It keeps a handful of _active_nodes instead *)
(* of the leaves; that it still computes the tree merkle() would compute   *)
(* over every id appended so far is what this module checks.               *)
(*                                                                         *)
(* A digest is a record: the first bit of the hash, which the canonical    *)
(* form overwrites, and the rest of it.  hash() is injective, as a         *)
(* collision-free hash is.                                                 *)
(***************************************************************************)
EXTENDS Naturals, Sequences, SequencesExt

CONSTANTS
  Leaves,     \* the digests that may be appended
  MaxNodes    \* bound on the number of appended digests

MerkleAssumption == MaxNodes \in Nat /\ \A d \in Leaves : DOMAIN d = {"bit", "rest"}

VARIABLES
  _node_count,
  _active_nodes,
  appended        \* every digest appended so far, in order (kept by nobody)

vars == <<_node_count, _active_nodes, appended>>

-----------------------------------------------------------------------------
(* merkle.cpp *)

Digest(bit, rest) == [bit |-> bit, rest |-> rest]

EmptyDigest == Digest(0, <<>>)

make_canonical_left(d) == [d EXCEPT !.bit = 0]

make_canonical_right(d) == [d EXCEPT !.bit = 1]

make_canonical_pair(l, r) == <<make_canonical_left(l), make_canonical_right(r)>>

hash(pair) == Digest(0, pair)

Even(ids) == IF Len(ids) % 2 = 1 THEN Append(ids, Last(ids)) ELSE ids

Level(ids) == [i \in 1..Len(ids) \div 2 |-> hash(make_canonical_pair(ids[2 * i - 1], ids[2 * i]))]

RECURSIVE Reduce(_)
Reduce(ids) == IF Len(ids) = 1 THEN Head(ids) ELSE Reduce(Level(Even(ids)))

merkle(ids) == IF ids = <<>> THEN EmptyDigest ELSE Reduce(ids)

-----------------------------------------------------------------------------
(* incremental_merkle.hpp *)

\* The number of levels of the smallest balanced tree with n leaves.
calcluate_max_depth(n) == IF n = 0 THEN 0 ELSE 1 + (CHOOSE k \in 0..n : n <= 2^k /\ (k = 0 \/ 2^(k - 1) < n))

\* One turn of the loop of append.  The walk holds the collapsed top, the old
\* active nodes still to be read and the new ones written so far.
FromLeft(w) ==
  [w EXCEPT !.updated = IF w.partial THEN @ ELSE Append(@, w.top),
            !.top = hash(make_canonical_pair(w.top, w.top)), !.partial = TRUE]

FromRight_DropsLeft(w) ==
  [w EXCEPT !.top = hash(make_canonical_pair(w.active[1], w.top)), !.active = Tail(@)]

FromRight(w) ==
  [w EXCEPT !.updated = IF w.partial THEN Append(@, w.active[1]) ELSE @,
            !.top = hash(make_canonical_pair(w.active[1], w.top)), !.active = Tail(@)]

RECURSIVE Collapse(_, _, _)
Collapse(w, depth, index) ==
  IF depth = 0 THEN w
  ELSE Collapse(IF index % 2 = 0 THEN FromLeft(w) ELSE FromRight(w), depth - 1, index \div 2)

Walk(digest) ==
  Collapse([top |-> digest, partial |-> FALSE, active |-> _active_nodes, updated |-> <<>>],
           calcluate_max_depth(_node_count + 1) - 1, _node_count)

append(digest) ==
  /\ _node_count < MaxNodes
  /\ _active_nodes' = Append(Walk(digest).updated, Walk(digest).top)
  /\ _node_count' = _node_count + 1
  /\ appended' = Append(appended, digest)

get_root == IF _node_count > 0 THEN Last(_active_nodes) ELSE EmptyDigest

Init ==
  /\ _node_count = 0
  /\ _active_nodes = <<>>
  /\ appended = <<>>

Next == \E d \in Leaves : append(d)

Spec == Init /\ [][Next]_vars

-----------------------------------------------------------------------------
(* What the trees promise *)

\* The root the incremental tree reports is at every moment the one merkle()
\* computes from all the digests appended so far, none of which it kept.
RootIsMerkle == get_root = merkle(appended)

\* The sub-root of 2^k realized digests that starts after the first i.
Realized(i, k) == merkle(SubSeq(appended, i + 1, i + 2^k))

\* The powers of two in the node count, smallest first, and where their
\* complete sub-trees start.
Powers(n) == SetToSortSeq({k \in 0..n : (n \div 2^k) % 2 = 1}, <)
Start(n, k) == (n \div 2^(k + 1)) * 2^(k + 1)

\* append keeps exactly the roots of the maximal complete sub-trees, smallest
\* first, which is the order the next append reads them in, and the root last:
\* the next append neither misses a node nor reads past the end.
ActiveNodesAreRealized ==
  LET k == Powers(_node_count)
      roots == [j \in DOMAIN k |-> Realized(Start(_node_count, k[j]), k[j])]
  IN _active_nodes = IF Len(k) <= 1 THEN roots ELSE Append(roots, merkle(appended))

\* merkle() tells vectors of one length apart: two that have the same root
\* differ at most in the bit the canonical form overwrites.
MerkleBinds ==
  LET root == merkle(appended)
  IN  \A ids \in [1.._node_count -> Leaves] :
        (_node_count > 1 /\ merkle(ids) = root) => \A i \in 1.._node_count : ids[i].rest = appended[i].rest
=============================================================================
