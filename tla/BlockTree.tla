----------------------------- MODULE BlockTree -----------------------------
(***************************************************************************)
(* The blocks a node can ever be given, as far as the fork database and    *)
(* the controller look at them.  A block is a model value; its id, the id  *)
(* of its parent, its number and its dpos_irreversible_blocknum are fixed  *)
(* when it is made (block_header_state::next and _finish_next), so they    *)
(* are constants here.  The value of an id matters only as the last key    *)
(* of the fork database's ordering (sha256_less): IdRank.                  *)
(***************************************************************************)
EXTENDS Integers, FiniteSets

CONSTANTS
  Blocks,        \* every block (id) of the instance, the genesis block included
  NoBlock,       \* the parent id of a block whose parent is not in Blocks
  MaxBlockNum,   \* block numbers are uint32_t: no number exceeds this one
  Prev,          \* header.previous
  Num,           \* block_num
  Lib,           \* dpos_irreversible_blocknum
  IdRank,        \* the order sha256_less gives the ids
  Anc            \* the ids the chain of header.previous leads to

ASSUME BlocksAssumption ==
  /\ MaxBlockNum \in Nat
  /\ NoBlock \notin Blocks
  /\ Prev \in [Blocks -> Blocks \cup {NoBlock}]
  /\ Num \in [Blocks -> 0 .. MaxBlockNum]
  /\ Lib \in [Blocks -> 0 .. MaxBlockNum]
  /\ IdRank \in [Blocks -> Nat]
  /\ Anc \in [Blocks -> SUBSET Blocks]

\* Ids are distinct hashes, a child's number is its parent's plus one
\* (block_header_state.cpp:61), and Anc is what following header.previous
\* reaches.
ASSUME ChainAssumption ==
  /\ \A a, b \in Blocks : IdRank[a] = IdRank[b] => a = b
  /\ \A b \in Blocks : Prev[b] \in Blocks => Num[b] = Num[Prev[b]] + 1
  /\ \A b \in Blocks :
       Anc[b] = IF Prev[b] \in Blocks THEN {Prev[b]} \cup Anc[Prev[b]] ELSE {}

\* A block's dpos_irreversible_blocknum is at least its parent's.  The module
\* BlockHeaderState checks when calc_dpos_last_irreversible guarantees it.
ASSUME LibAssumption ==
  \A b \in Blocks : Prev[b] \in Blocks => Lib[Prev[b]] <= Lib[b]
=============================================================================
