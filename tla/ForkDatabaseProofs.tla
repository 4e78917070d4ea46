------------------------- MODULE ForkDatabaseProofs -------------------------
(***************************************************************************)
(* The invariants of ForkDatabase, for every block tree.                   *)
(*                                                                         *)
(* IInv is the inductive invariant: the type invariant, no orphans and a   *)
(* best head.  The three need each other: add() assigns First(valid) to    *)
(* the head without comparing, which keeps the head best only because a    *)
(* validated head is in the index; advance_root() leaves a linked tree     *)
(* only because every block of the index descends from the old root; and a *)
(* head equal to the root is best only because a validated block would be  *)
(* a preferred descendant of it.                                           *)
(***************************************************************************)
EXTENDS ForkDatabase, WellFoundedInduction, TLAPS

-----------------------------------------------------------------------------
(* The block tree and the ordering of the fork database, for every tree that *)
(* satisfies the assumptions of BlockTree                                    *)

\* Every non-empty set of naturals has a least element: the minimal-counter-
\* example argument behind the lemmas below.
LEMMA LeastNat ==
  ASSUME NEW T, T \subseteq Nat, T # {}
  PROVE  \E x \in T : \A y \in T : x <= y
<1> DEFINE R == OpToRel(<, Nat)
<1>1. R = {ss \in Nat \X Nat : ss[1] < ss[2]}
  BY Zenon DEF OpToRel
<1>2. IsWellFoundedOn(R, Nat)
  BY NatLessThanWellFounded, Zenon
<1> HIDE DEF R
<1>3. PICK x \in T : \A y \in T : <<y, x>> \notin R
  BY <1>2, WFMin, Zenon
<1>4. ASSUME NEW y \in T PROVE x <= y
  <2>1. <<y, x>> \in Nat \X Nat /\ ~(<<y, x>>[1] < <<y, x>>[2])
    BY <1>1, <1>3
  <2> QED BY <2>1
<1> QED BY <1>4

\* An ancestor has a smaller number, an irreversible number no greater, and
\* ancestors of its own among the block's: what following header.previous in
\* fetch_branch, pop_block and advance_root rests on.
LEMMA AncestorFacts ==
  ASSUME NEW b \in Blocks, NEW a \in Anc[b]
  PROVE  Num[a] < Num[b] /\ Lib[a] <= Lib[b] /\ Anc[a] \subseteq Anc[b]
<1> DEFINE OK(c) == \A d \in Anc[c] :
                      Num[d] < Num[c] /\ Lib[d] <= Lib[c] /\ Anc[d] \subseteq Anc[c]
           Bad == {c \in Blocks : ~OK(c)}
           T == {Num[c] : c \in Bad}
<1> SUFFICES ASSUME Bad # {} PROVE FALSE
  OBVIOUS
<1>1. T \subseteq Nat /\ T # {}
  BY BlocksAssumption
<1>2. PICK n \in T : \A m \in T : n <= m
  BY <1>1, LeastNat, Zenon
<1>3. PICK c \in Bad : \A e \in Bad : Num[c] <= Num[e]
  BY <1>2
<1>4. PICK d \in Anc[c] : ~(Num[d] < Num[c] /\ Lib[d] <= Lib[c] /\ Anc[d] \subseteq Anc[c])
  BY <1>3
<1>5. Prev[c] \in Blocks /\ Anc[c] = {Prev[c]} \cup Anc[Prev[c]]
  BY <1>4, ChainAssumption, Zenon
<1>6. Num[Prev[c]] < Num[c] /\ Lib[Prev[c]] <= Lib[c] /\ Num[c] \in Nat /\ Num[Prev[c]] \in Nat
  BY <1>5, ChainAssumption, LibAssumption, BlocksAssumption
<1>7. OK(Prev[c])
  BY <1>3, <1>5, <1>6
<1>8. d \in Blocks
  BY <1>4, BlocksAssumption
<1>9. CASE d = Prev[c]
  BY <1>4, <1>5, <1>6, <1>9
<1>10. CASE d \in Anc[Prev[c]]
  <2>1. Num[d] < Num[Prev[c]] /\ Lib[d] <= Lib[Prev[c]] /\ Anc[d] \subseteq Anc[Prev[c]]
    BY <1>7, <1>10
  <2>2. Num[d] \in Int /\ Lib[d] \in Int /\ Lib[c] \in Int /\ Lib[Prev[c]] \in Int
    BY <1>5, <1>8, BlocksAssumption
  <2> QED BY <1>4, <1>5, <1>6, <2>1, <2>2
<1> QED BY <1>4, <1>5, <1>9, <1>10

\* A block is preferred to each of its ancestors.
LEMMA DescendantPreferred ==
  ASSUME NEW b \in Blocks, NEW a \in Anc[b]
  PROVE  first_preferred(b, a) /\ ~first_preferred(a, b)
<1>1. a \in Blocks
  BY BlocksAssumption
<1>2. Num[a] < Num[b] /\ Lib[a] <= Lib[b]
  BY AncestorFacts
<1>3. Num[a] \in Int /\ Num[b] \in Int /\ Lib[a] \in Int /\ Lib[b] \in Int
  BY <1>1, BlocksAssumption
<1> QED BY <1>2, <1>3 DEF first_preferred

\* by_lib_block_num has a begin(): the ordering of the index is total, so a
\* non-empty set of blocks has a first one.
LEMMA FirstExists ==
  ASSUME NEW S, S \subseteq Blocks, S # {}
  PROVE  First(S) \in S /\ IsFirst(First(S), S)
<1> DEFINE L == {MaxBlockNum - Lib[b] : b \in S}
<1>1. PICK x \in S : \A y \in S : Lib[y] <= Lib[x]
  <2>1. L \subseteq Nat /\ L # {}
    BY BlocksAssumption
  <2>2. PICK n \in L : \A m \in L : n <= m
    BY <2>1, LeastNat, Zenon
  <2>3. PICK x \in S : n = MaxBlockNum - Lib[x]
    BY <2>2
  <2>4. ASSUME NEW y \in S PROVE Lib[y] <= Lib[x]
    <3>1. MaxBlockNum - Lib[x] <= MaxBlockNum - Lib[y]
      BY <2>2, <2>3
    <3> QED BY <3>1, BlocksAssumption
  <2> QED BY <2>4
<1> DEFINE S2 == {b \in S : Lib[b] = Lib[x]}
           N == {MaxBlockNum - Num[b] : b \in S2}
<1>2. PICK y \in S2 : \A z \in S2 : Num[z] <= Num[y]
  <2>1. N \subseteq Nat /\ N # {}
    BY BlocksAssumption
  <2>2. PICK n \in N : \A m \in N : n <= m
    BY <2>1, LeastNat, Zenon
  <2>3. PICK y \in S2 : n = MaxBlockNum - Num[y]
    BY <2>2
  <2>4. ASSUME NEW z \in S2 PROVE Num[z] <= Num[y]
    <3>1. MaxBlockNum - Num[y] <= MaxBlockNum - Num[z]
      BY <2>2, <2>3
    <3> QED BY <3>1, BlocksAssumption
  <2> QED BY <2>4
<1> DEFINE S3 == {b \in S2 : Num[b] = Num[y]}
           I == {IdRank[b] : b \in S3}
<1>3. PICK z \in S3 : \A w \in S3 : IdRank[z] <= IdRank[w]
  <2>1. I \subseteq Nat /\ I # {}
    BY BlocksAssumption
  <2>2. PICK n \in I : \A m \in I : n <= m
    BY <2>1, LeastNat, Zenon
  <2> QED BY <2>2
<1>4. IsFirst(z, S)
  <2> SUFFICES ASSUME NEW b \in S \ {z} PROVE Before(z, b)
    BY DEF IsFirst
  <2>1. Lib[b] <= Lib[z] /\ Lib[z] = Lib[x] /\ Num[z] = Num[y]
    BY <1>1
  <2>2. b \in S2 => Num[b] <= Num[z]
    BY <1>2
  <2>3. b \in S3 => IdRank[z] < IdRank[b]
    BY <1>3, BlocksAssumption, ChainAssumption
  <2> QED BY <2>1, <2>2, <2>3, BlocksAssumption DEF Before, first_preferred
<1> QED BY <1>4 DEF First, IsFirst

\* No block of a set is preferred to the first one.
LEMMA FirstIsBest ==
  ASSUME NEW S, S \subseteq Blocks, S # {}, NEW b \in S
  PROVE  First(S) \in S /\ ~first_preferred(b, First(S))
<1>1. First(S) \in S /\ (b # First(S) => Before(First(S), b))
  BY FirstExists DEF IsFirst
<1>2. Lib[b] \in Int /\ Num[b] \in Int /\ Lib[First(S)] \in Int /\ Num[First(S)] \in Int
  BY <1>1, BlocksAssumption
<1> QED BY <1>1, <1>2 DEF Before, first_preferred

-----------------------------------------------------------------------------
(* The fork database *)

IInv == TypeOK /\ NoOrphans /\ HeadIsBest

\* The fork database starts, empty, at some block.
LEMMA InitIInv == Init => IInv
<1> SUFFICES ASSUME Init PROVE IInv
  OBVIOUS
<1>1. PICK r \in Blocks : fdb = [root |-> r, head |-> r, index |-> {}, valid |-> {}]
  BY DEF Init, reset
<1> QED BY <1>1 DEF Init, IInv, TypeOK, NoOrphans, HeadIsBest, ForkDbs, first_preferred

\* reset() leaves only a root.
LEMMA ResetIInv ==
  ASSUME IInv, NEW r \in Blocks, Reset(r)
  PROVE  IInv'
<1>1. fdb' = [root |-> r, head |-> r, index |-> {}, valid |-> {}] /\ status' = "open"
  BY DEF Reset, reset
<1> QED BY <1>1 DEF IInv, TypeOK, NoOrphans, HeadIsBest, ForkDbs

\* rollback_head_to_root() forgets every validated flag and goes back to the root.
LEMMA RollbackIInv ==
  ASSUME IInv, RollbackHeadToRoot
  PROVE  IInv'
<1>1. fdb' = [fdb EXCEPT !.valid = {}, !.head = fdb.root] /\ status' = status
  BY DEF RollbackHeadToRoot, rollback_head_to_root
<1> QED BY <1>1, Zenon DEF IInv, TypeOK, NoOrphans, HeadIsBest, ForkDbs

\* add() links the new block, and the head it takes, the first validated block,
\* is one that nothing validated is preferred to.
LEMMA AddIInv ==
  ASSUME IInv, NEW b \in Blocks, Add(b)
  PROVE  IInv'
<1> DEFINE h == IF fdb.valid # {} THEN First(fdb.valid) ELSE fdb.head
<1>1. /\ fdb' = [fdb EXCEPT !.index = fdb.index \cup {b}, !.head = h]
      /\ status' = status
      /\ Prev[b] \in fdb.index \cup {fdb.root}
  BY DEF Add, add, CanAdd, Linkable, get_block_header
<1>2. fdb \in ForkDbs /\ fdb.valid \subseteq fdb.index /\ fdb.valid \subseteq Blocks
  BY DEF IInv, TypeOK, ForkDbs
<1>3. /\ h \in Blocks
      /\ h = fdb.root \/ h \in fdb.valid
      /\ \A c \in fdb.valid : ~first_preferred(c, h)
  <2>1. CASE fdb.valid = {}
    BY <2>1, <1>2 DEF IInv, HeadIsBest, ForkDbs
  <2>2. CASE fdb.valid # {}
    BY <2>2, <1>2, FirstIsBest
  <2> QED BY <2>1, <2>2
<1> HIDE DEF h
<1>4. /\ fdb'.root = fdb.root /\ fdb'.head = h /\ fdb'.valid = fdb.valid
      /\ fdb'.index = fdb.index \cup {b} /\ fdb' \in ForkDbs
  BY <1>1, <1>2, <1>3, Zenon DEF ForkDbs
<1>5. TypeOK'
  BY <1>1, <1>2, <1>4 DEF IInv, TypeOK
<1>6. fdb.root \in Anc[b]
  <2>1. Prev[b] \in Blocks /\ (Prev[b] = fdb.root \/ fdb.root \in Anc[Prev[b]])
    BY <1>1, <1>2 DEF IInv, NoOrphans, ForkDbs
  <2> QED BY <2>1, ChainAssumption, Zenon
<1>7. NoOrphans'
  BY <1>1, <1>4, <1>6 DEF IInv, NoOrphans
<1>8. HeadIsBest'
  BY <1>3, <1>4 DEF HeadIsBest
<1> QED BY <1>5, <1>7, <1>8 DEF IInv

\* mark_valid() moves the head only to the best validated block.
LEMMA MarkValidIInv ==
  ASSUME IInv, NEW b \in Blocks, MarkValid(b)
  PROVE  IInv'
<1> DEFINE V == fdb.valid \cup {b}
           h == IF first_preferred(First(V), fdb.head) THEN First(V) ELSE fdb.head
<1>1. CASE b \in fdb.valid
  <2>1. fdb' = fdb /\ status' = status
    BY <1>1 DEF MarkValid, mark_valid
  <2> QED BY <2>1 DEF IInv, TypeOK, NoOrphans, HeadIsBest
<1>2. CASE b \notin fdb.valid
  <2>1. fdb' = [fdb EXCEPT !.valid = V, !.head = h] /\ status' = status /\ b \in fdb.index
    BY <1>2 DEF MarkValid, mark_valid
  <2>2. fdb \in ForkDbs /\ fdb.valid \subseteq fdb.index /\ V \subseteq Blocks /\ V # {}
    BY DEF IInv, TypeOK, ForkDbs
  <2>3. First(V) \in V /\ \A c \in V : ~first_preferred(c, First(V))
    BY <2>2, FirstIsBest
  <2>4. /\ h \in Blocks
        /\ h = fdb.root \/ h \in V
    BY <2>2, <2>3 DEF IInv, HeadIsBest, ForkDbs
  <2>5. ASSUME NEW c \in V PROVE ~first_preferred(c, h)
    <3>1. c \in Blocks /\ First(V) \in Blocks /\ fdb.head \in Blocks
      BY <2>2, <2>3 DEF ForkDbs
    <3>2. ~first_preferred(c, First(V))
      BY <2>3
    <3>3. \A d \in {c, First(V), fdb.head} : Lib[d] \in Int /\ Num[d] \in Int
      BY <3>1, BlocksAssumption
    <3> QED BY <3>2, <3>3 DEF first_preferred
  <2> HIDE DEF h
  <2>6. /\ fdb'.root = fdb.root /\ fdb'.head = h /\ fdb'.valid = V
        /\ fdb'.index = fdb.index /\ fdb' \in ForkDbs
    BY <2>1, <2>2, <2>4, Zenon DEF ForkDbs
  <2>7. TypeOK'
    BY <2>1, <2>2, <2>6 DEF IInv, TypeOK
  <2>8. NoOrphans'
    BY <2>6 DEF IInv, NoOrphans
  <2>9. HeadIsBest'
    BY <2>4, <2>5, <2>6 DEF HeadIsBest
  <2> QED BY <2>7, <2>8, <2>9 DEF IInv
<1> QED BY <1>1, <1>2

\* remove() takes a block with all that is built on it, so nothing is orphaned,
\* and never the head.
LEMMA RemoveIInv ==
  ASSUME IInv, NEW b \in Blocks, Remove(b)
  PROVE  IInv'
<1> DEFINE D == Subtree(fdb, b) \cup {b}
<1>1. /\ fdb' = [fdb EXCEPT !.index = fdb.index \ D, !.valid = fdb.valid \ D]
      /\ status' = status /\ fdb.head \notin D /\ b \in fdb.index
  BY DEF Remove, remove, CanRemove
<1>2. fdb \in ForkDbs /\ fdb.valid \subseteq fdb.index /\ fdb.index \subseteq Blocks
  BY DEF IInv, TypeOK, ForkDbs
<1>3. /\ fdb'.root = fdb.root /\ fdb'.head = fdb.head /\ fdb'.valid = fdb.valid \ D
      /\ fdb'.index = fdb.index \ D /\ fdb' \in ForkDbs
  BY <1>1, <1>2, Zenon DEF ForkDbs
<1>4. TypeOK'
  BY <1>1, <1>2, <1>3 DEF IInv, TypeOK
<1>5. ASSUME NEW c \in fdb.index, c \notin D
      PROVE  Prev[c] \in (fdb.index \ D) \cup {fdb.root}
  <2>1. Prev[c] \in fdb.index \cup {fdb.root}
    BY DEF IInv, NoOrphans
  <2>2. ASSUME Prev[c] \in fdb.index, Prev[c] \in D PROVE FALSE
    <3>1. b \in Chain(Prev[c])
      BY <2>2 DEF Subtree, Chain
    <3>2. b \in Anc[c]
      BY <3>1, <2>2, <1>2, ChainAssumption, Zenon DEF Chain
    <3> QED BY <3>2, <1>5 DEF Subtree, Chain
  <2> QED BY <2>1, <2>2
<1>6. NoOrphans'
  BY <1>3, <1>5 DEF IInv, NoOrphans
<1>7. HeadIsBest'
  BY <1>1, <1>3 DEF IInv, HeadIsBest
<1> QED BY <1>4, <1>6, <1>7 DEF IInv

\* advance_root() keeps what is built on the new root, the head included.
LEMMA AdvanceRootIInv ==
  ASSUME IInv, NEW b \in Blocks, AdvanceRoot(b)
  PROVE  IInv'
<1> DEFINE keep == Subtree(fdb, b) \ {b}
<1>1. /\ fdb' = [fdb EXCEPT !.root = b, !.index = keep, !.valid = fdb.valid \cap keep]
      /\ status' = status /\ b \in fdb.valid /\ fdb.root \in Anc[b]
      /\ fdb.head \in Subtree(fdb, b)
  BY DEF AdvanceRoot, advance_root, CanAdvanceRoot
<1>2. fdb \in ForkDbs /\ fdb.valid \subseteq fdb.index /\ fdb.index \subseteq Blocks
  BY DEF IInv, TypeOK, ForkDbs
<1>3. /\ fdb'.root = b /\ fdb'.head = fdb.head /\ fdb'.valid = fdb.valid \cap keep
      /\ fdb'.index = keep /\ fdb' \in ForkDbs
  BY <1>1, <1>2, Zenon DEF ForkDbs, Subtree
<1>4. TypeOK'
  BY <1>1, <1>2, <1>3 DEF IInv, TypeOK
<1>5. keep \subseteq fdb.index /\ \A c \in keep : b \in Anc[c]
  BY DEF Subtree, Chain
<1>6. ASSUME NEW c \in keep PROVE Prev[c] \in keep \cup {b}
  <2>1. c \in Blocks /\ b \in Anc[c] /\ Prev[c] \in fdb.index \cup {fdb.root}
    BY <1>2, <1>5 DEF IInv, NoOrphans
  <2>2. Prev[c] \in Blocks /\ (b = Prev[c] \/ b \in Anc[Prev[c]])
    BY <2>1, ChainAssumption, Zenon
  <2>3. Prev[c] # fdb.root
    <3>1. fdb.root \in Blocks /\ Num[fdb.root] < Num[b]
      BY <1>1, <1>2, AncestorFacts DEF ForkDbs
    <3>2. b \notin Anc[fdb.root]
      <4> SUFFICES ASSUME b \in Anc[fdb.root] PROVE FALSE
        OBVIOUS
      <4>1. Num[b] < Num[fdb.root]
        BY <3>1, AncestorFacts
      <4> QED BY <3>1, <4>1, BlocksAssumption
    <3>3. b # fdb.root
      BY <3>1, BlocksAssumption
    <3> QED BY <2>2, <3>2, <3>3
  <2> QED BY <2>1, <2>2, <2>3 DEF Subtree, Chain
<1>7. NoOrphans'
  BY <1>3, <1>5, <1>6 DEF NoOrphans
<1>8. HeadIsBest'
  <2>1. fdb.head \in fdb.index
    BY <1>1 DEF Subtree
  <2>2. fdb.head = b \/ fdb.head \in fdb.valid \cap keep
    <3>1. fdb.root \notin fdb.index
      <4> SUFFICES ASSUME fdb.root \in fdb.index PROVE FALSE
        OBVIOUS
      <4>1. Num[fdb.root] < Num[fdb.root] /\ fdb.root \in Blocks
        BY <1>2, AncestorFacts DEF IInv, NoOrphans
      <4> QED BY <4>1, BlocksAssumption
    <3> QED BY <1>1, <2>1, <3>1 DEF IInv, HeadIsBest
  <2> QED BY <1>3, <2>2 DEF IInv, HeadIsBest
<1> QED BY <1>4, <1>7, <1>8 DEF IInv

\* What close() writes, open() accepts.
LEMMA FileAccepted ==
  ASSUME IInv
  PROVE  FileLinks(fdb) /\ FileHeadOK(fdb)
<1>1. fdb \in ForkDbs /\ fdb.valid \subseteq fdb.index /\ fdb.index \subseteq Blocks
  BY DEF IInv, TypeOK, ForkDbs
<1>2. ASSUME NEW b \in fdb.index, Prev[b] # fdb.root
      PROVE  Prev[b] \in fdb.index /\ WrittenBefore(fdb.valid, Prev[b], b)
  <2>1. Prev[b] \in fdb.index /\ Prev[b] \in Anc[b]
    BY <1>1, <1>2, ChainAssumption, Zenon DEF IInv, NoOrphans
  <2>2. first_preferred(b, Prev[b]) /\ ~first_preferred(Prev[b], b)
    BY <1>1, <2>1, DescendantPreferred
  <2> QED BY <2>1, <2>2 DEF WrittenBefore, Before
<1>3. FileHeadOK(fdb)
  <2>1. CASE fdb.valid = {}
    BY <2>1 DEF IInv, HeadIsBest, FileHeadOK, get_block_header
  <2>2. CASE fdb.valid # {}
    <3>1. First(fdb.valid) \in fdb.valid
      BY <1>1, <2>2, FirstExists
    <3> QED BY <1>1, <2>2, <3>1 DEF IInv, HeadIsBest, FileHeadOK, get_block_header
  <2> QED BY <2>1, <2>2
<1> QED BY <1>2, <1>3 DEF FileLinks

\* Every step keeps the inductive invariant.
LEMMA NextIInv ==
  ASSUME IInv, [Next]_vars
  PROVE  IInv'
<1>1. CASE UNCHANGED fdb /\ status' \in {"open", "closed", "crashed", "corrupt"}
  BY <1>1 DEF IInv, TypeOK, NoOrphans, HeadIsBest
<1>2. CASE UNCHANGED vars
  BY <1>1, <1>2 DEF vars, IInv, TypeOK
<1>3. ASSUME NEW b \in Blocks, Add(b) PROVE IInv'
  BY <1>3, AddIInv
<1>4. ASSUME NEW b \in Blocks, MarkValid(b) PROVE IInv'
  BY <1>4, MarkValidIInv
<1>5. ASSUME NEW b \in Blocks, Remove(b) PROVE IInv'
  BY <1>5, RemoveIInv
<1>6. ASSUME NEW b \in Blocks, AdvanceRoot(b) PROVE IInv'
  BY <1>6, AdvanceRootIInv
<1>7. CASE RollbackHeadToRoot
  BY <1>7, RollbackIInv
<1>8. ASSUME NEW r \in Blocks, Reset(r) PROVE IInv'
  BY <1>8, ResetIInv
<1>9. CASE Close
  BY <1>1, <1>9 DEF Close
<1>10. CASE Crash
  BY <1>1, <1>10 DEF Crash
<1>11. CASE Open
  BY <1>1, <1>11 DEF Open
<1> QED BY <1>2, <1>3, <1>4, <1>5, <1>6, <1>7, <1>8, <1>9, <1>10, <1>11 DEF Next

-----------------------------------------------------------------------------
\* For every block tree, the fork database keeps its types, holds no orphaned
\* branch and has a best head, whatever operations are called.
THEOREM Invariant == Spec => []IInv
<1>1. Init => IInv
  BY InitIInv
<1>2. IInv /\ [Next]_vars => IInv'
  BY NextIInv
<1> QED BY <1>1, <1>2, PTL DEF Spec

\* Every variable of the fork database keeps its type.
THEOREM TypeCorrect == Spec => []TypeOK
<1>1. IInv => TypeOK
  BY DEF IInv
<1> QED BY <1>1, Invariant, PTL

\* No operation of the fork database leaves an orphaned branch.
THEOREM NeverOrphans == Spec => []NoOrphans
<1>1. IInv => NoOrphans
  BY DEF IInv
<1> QED BY <1>1, Invariant, PTL

\* The head of the fork database is always the best validated block.
THEOREM HeadAlwaysBest == Spec => []HeadIsBest
<1>1. IInv => HeadIsBest
  BY DEF IInv
<1> QED BY <1>1, Invariant, PTL

\* open() accepts every file close() writes.
THEOREM ReopenAlwaysSucceeds == Spec => []ReopenSucceeds
<1>1. Init => ReopenSucceeds
  BY DEF Init, ReopenSucceeds
<1>2. IInv /\ ReopenSucceeds /\ [Next]_vars => ReopenSucceeds'
  <2> SUFFICES ASSUME IInv, ReopenSucceeds, [Next]_vars PROVE ReopenSucceeds'
    OBVIOUS
  <2>1. CASE Open
    BY <2>1, FileAccepted DEF Open, ReopenSucceeds
  <2>2. CASE ~Open
    BY <2>2 DEF Next, vars, ReopenSucceeds, Add, MarkValid, Remove, AdvanceRoot,
                RollbackHeadToRoot, Reset, Close, Crash
  <2> QED BY <2>1, <2>2
<1> QED BY <1>1, <1>2, Invariant, PTL DEF Spec

\* The blocks form one tree from the root, and a clean restart brings it back.
THEOREM TreeAlwaysSurvives == Spec => []TreeSurvives
<1>1. NoOrphans /\ ReopenSucceeds => TreeSurvives
  BY DEF TreeSurvives
<1> QED BY <1>1, NeverOrphans, ReopenAlwaysSucceeds, PTL

\* The root only advances along one branch, dropping every other one.
THEOREM RootOnlyAdvances == Spec => RootAdvancesOnly
<1> DEFINE A == fdb'.root # fdb.root =>
        \/ fdb'.index = {} /\ fdb'.head = fdb'.root
        \/ /\ fdb'.root \in fdb.valid
           /\ fdb.root \in Anc[fdb'.root]
           /\ fdb'.index = {b \in fdb.index : fdb'.root \in Anc[b]}
           /\ fdb'.head = fdb.head
<1>1. IInv /\ [Next]_vars => [A]_vars
  <2> SUFFICES ASSUME IInv, Next PROVE A
    OBVIOUS
  <2>1. fdb \in ForkDbs
    BY DEF IInv, TypeOK
  <2>2. CASE fdb'.root = fdb.root
    BY <2>2
  <2>3. ASSUME NEW b \in Blocks, Add(b) \/ MarkValid(b) \/ Remove(b) PROVE A
    BY <2>1, <2>2, <2>3, Zenon DEF Add, MarkValid, Remove, add, mark_valid, remove, ForkDbs
  <2>4. ASSUME NEW b \in Blocks, AdvanceRoot(b) PROVE A
    <3>1. fdb' = [fdb EXCEPT !.root = b, !.index = Subtree(fdb, b) \ {b},
                             !.valid = fdb.valid \cap (Subtree(fdb, b) \ {b})]
      BY <2>4 DEF AdvanceRoot, advance_root
    <3>2. b \in fdb.valid /\ fdb.root \in Anc[b]
      BY <2>4 DEF AdvanceRoot, CanAdvanceRoot
    <3>3. b \notin Anc[b]
      <4> SUFFICES ASSUME b \in Anc[b] PROVE FALSE
        OBVIOUS
      <4>1. Num[b] < Num[b]
        BY AncestorFacts
      <4> QED BY <4>1, BlocksAssumption
    <3>4. Subtree(fdb, b) \ {b} = {c \in fdb.index : b \in Anc[c]}
      BY <3>3 DEF Subtree, Chain
    <3>5. fdb'.root = b /\ fdb'.index = Subtree(fdb, b) \ {b} /\ fdb'.head = fdb.head
      BY <3>1, <2>1 DEF ForkDbs
    <3> QED BY <3>2, <3>4, <3>5
  <2>5. CASE RollbackHeadToRoot
    BY <2>1, <2>2, <2>5 DEF RollbackHeadToRoot, rollback_head_to_root, ForkDbs
  <2>6. ASSUME NEW r \in Blocks, Reset(r) PROVE A
    BY <2>6 DEF Reset, reset
  <2>7. CASE Close \/ Crash \/ Open
    BY <2>2, <2>7 DEF Close, Crash, Open
  <2> QED BY <2>3, <2>4, <2>5, <2>6, <2>7 DEF Next
<1> QED BY <1>1, Invariant, PTL DEF Spec, RootAdvancesOnly

\* No operation makes the head worse, except starting over at a root.
THEOREM HeadDoesNotWorsen == Spec => HeadNeverWorsens
<1> DEFINE A == \/ ~first_preferred(fdb.head, fdb'.head)
                \/ fdb'.head = fdb'.root /\ fdb'.valid = {}
<1>1. IInv /\ [Next]_vars => [A]_vars
  <2> SUFFICES ASSUME IInv, Next PROVE A
    OBVIOUS
  <2>1. /\ fdb \in ForkDbs /\ fdb.head \in Blocks /\ fdb.valid \subseteq Blocks
        /\ Lib[fdb.head] \in Int /\ Num[fdb.head] \in Int
    BY BlocksAssumption DEF IInv, TypeOK, ForkDbs
  <2>2. CASE fdb'.head = fdb.head
    BY <2>1, <2>2 DEF first_preferred
  <2>3. ASSUME NEW b \in Blocks, Add(b) PROVE A
    <3>1. fdb'.head = IF fdb.valid # {} THEN First(fdb.valid) ELSE fdb.head
      BY <2>1, <2>3 DEF Add, add, ForkDbs
    <3>2. CASE fdb.valid = {}
      BY <2>2, <3>1, <3>2
    <3>3. CASE fdb.valid # {}
      <4>1. fdb.head \in fdb.valid
        <5>1. ASSUME fdb.head = fdb.root PROVE FALSE
          <6>1. PICK v \in fdb.valid : TRUE
            BY <3>3
          <6>2. v \in Blocks /\ fdb.root \in Anc[v]
            BY <2>1 DEF IInv, TypeOK, NoOrphans
          <6>3. first_preferred(v, fdb.root)
            BY <6>2, DescendantPreferred
          <6> QED BY <5>1, <6>3 DEF IInv, HeadIsBest
        <5> QED BY <5>1 DEF IInv, HeadIsBest
      <4> QED BY <2>1, <3>1, <3>3, <4>1, FirstIsBest
    <3> QED BY <3>2, <3>3
  <2>4. ASSUME NEW b \in Blocks, MarkValid(b) PROVE A
    <3> DEFINE V == fdb.valid \cup {b}
    <3>1. CASE b \in fdb.valid
      BY <2>2, <2>4, <3>1 DEF MarkValid, mark_valid
    <3>2. CASE b \notin fdb.valid
      <4>1. fdb'.head = IF first_preferred(First(V), fdb.head) THEN First(V) ELSE fdb.head
        BY <2>1, <2>4, <3>2 DEF MarkValid, mark_valid, ForkDbs
      <4>2. First(V) \in Blocks
        BY <2>1, FirstExists
      <4>3. Lib[First(V)] \in Int /\ Num[First(V)] \in Int
        BY <4>2, BlocksAssumption
      <4> QED BY <2>1, <4>1, <4>3 DEF first_preferred
    <3> QED BY <3>1, <3>2
  <2>5. ASSUME NEW b \in Blocks, Remove(b) \/ AdvanceRoot(b) PROVE A
    BY <2>1, <2>2, <2>5, Zenon DEF Remove, AdvanceRoot, remove, advance_root, ForkDbs
  <2>6. CASE RollbackHeadToRoot
    BY <2>1, <2>6 DEF RollbackHeadToRoot, rollback_head_to_root, ForkDbs
  <2>7. ASSUME NEW r \in Blocks, Reset(r) PROVE A
    BY <2>7 DEF Reset, reset
  <2>8. CASE Close \/ Crash \/ Open
    BY <2>2, <2>8 DEF Close, Crash, Open
  <2> QED BY <2>3, <2>4, <2>5, <2>6, <2>7, <2>8 DEF Next
<1> QED BY <1>1, Invariant, PTL DEF Spec, HeadNeverWorsens
=============================================================================
