---------------------------- MODULE RelayProofs ----------------------------
(***************************************************************************)
(* net_plugin's relay of transactions and blocks, for any nodes, links,    *)
(* transactions and number of blocks.                                      *)
(*                                                                         *)
(* RelayInv is the inductive invariant.  Its types follow the chain: what  *)
(* waits in a queue names a block that was produced.  CountOk is           *)
(* ProgressIsPosted, and GotOk is what NeverEchoed needs before a step:    *)
(* what a connection brought is in local_txns or settled.  An entry that   *)
(* is forgotten must be settled, hence Entries: an entry gets a block's    *)
(* number only when the block has its transaction, or when the transaction *)
(* was refused or has expired.                                             *)
(***************************************************************************)
EXTENDS Relay, FiniteSetTheorems, SequenceTheorems, TLAPS

\* The blocks produced so far, and what a queue may hold.
Made == 1 .. chain[Producer].head
OnWire == [kind : {"trx"}, id : Trxs] \cup [kind : {"block"}, id : Made]
OnStrand == OnWire \cup [kind : {"seen"}, id : Made]
Handled == [kind : {"trx"}, id : Trxs, have : BOOLEAN] \cup {None}
Tasks(n) == [kind : {"trx"}, id : Trxs, from : Peers(n)] \cup [kind : {"block"}, id : Made, from : Peers(n)]
Posted(n) == [kind : {"ack"}, id : Trxs, todo : SUBSET Peers(n)]
             \cup [kind : {"nack"}, id : chain[n].refused] \cup [kind : {"block"}, id : Made]
Imported(n) == [from : Peers(n), id : Made]

\* An entry of local_txns that has the number of a block: its transaction is in
\* the block, or was refused or has expired.
Entries(n) ==
  {e \in [id : Trxs, con : Peers(n), block_num : {0} \cup Made] :
     e.block_num # 0 => e.id \in expired \cup chain[n].refused \cup contents[e.block_num]}

\* The tasks of a queue for the main thread that came over the connection with p.
Waiting(s, p) == {i \in 1 .. Len(s) : s[i].kind = "trx" /\ s[i].from = p}

ChainOk ==
  /\ chain \in [Nodes -> [head : Nat, trxs : SUBSET Trxs, refused : SUBSET Trxs]]
  /\ \A n \in Nodes : chain[n].head <= chain[Producer].head
  /\ chain[Producer].head <= MaxBlock
  /\ contents \in [1 .. MaxBlock -> SUBSET Trxs]
TxnsOk == local_txns = [n \in Nodes |-> local_txns[n]] /\ \A n \in Nodes : local_txns[n] \subseteq Entries(n)
StrandOk == strand \in [Links -> Seq(OnStrand)]
WireOk == wire \in [Links -> Seq(OnWire)]
RecvOk == recv \in [Links -> Handled]
AppOk == app = [n \in Nodes |-> app[n]] /\ \A n \in Nodes : app[n] \in Seq(Tasks(n))
DispOk == disp = [n \in Nodes |-> disp[n]] /\ \A n \in Nodes : disp[n] \in Seq(Posted(n))
PoolOk == pool = [n \in Nodes |-> pool[n]] /\ \A n \in Nodes : pool[n] \subseteq Imported(n)
CountOk ==
  /\ progress = [c \in Links |-> progress[c]]
  /\ \A c \in Links : progress[c] = Cardinality(Waiting(app[c[1]], c[2]))
GotOk ==
  \A g \in got : g[1] \in Links /\ (peer_has_txn(g[1][1], g[2], g[1][2]) \/ Settled(g[1][1], g[2]))

RelayInv ==
  /\ ChainOk /\ TxnsOk /\ StrandOk /\ WireOk /\ RecvOk /\ AppOk /\ DispOk /\ PoolOk /\ CountOk /\ GotOk

\* Chains get longer, what was refused or has expired stays so, and a block
\* that was made does not change.
Grows ==
  /\ Made \subseteq Made'
  /\ \A n \in Nodes : chain[n].head <= chain'[n].head /\ chain[n].refused \subseteq chain'[n].refused
  /\ expired \subseteq expired'
  /\ \A b \in Made : contents'[b] = contents[b]

LEMMA LinkEnds ==
  ASSUME NEW c \in Links
  PROVE  /\ c = <<c[1], c[2]>> /\ c[1] \in Nodes /\ c[2] \in Peers(c[1])
         /\ Inbound(c) \in Links
BY RelayAssumption DEF Peers, Inbound

LEMMA PeerLink ==
  ASSUME NEW n \in Nodes, NEW p \in Peers(n)
  PROVE  <<n, p>> \in Links
BY DEF Peers

\* As the chains grow, everything that waits keeps its type ...
LEMMA TypesGrow ==
  ASSUME ChainOk, ChainOk', Grows
  PROVE  /\ OnWire \subseteq OnWire' /\ OnStrand \subseteq OnStrand'
         /\ \A n \in Nodes : /\ Tasks(n) \subseteq Tasks(n)' /\ Posted(n) \subseteq Posted(n)'
                             /\ Imported(n) \subseteq Imported(n)' /\ Entries(n) \subseteq Entries(n)'
<1>1. OnWire \subseteq OnWire' /\ OnStrand \subseteq OnStrand'
  BY DEF OnWire, OnStrand, Grows
<1>2. ASSUME NEW n \in Nodes PROVE Tasks(n) \subseteq Tasks(n)'
  BY DEF Tasks, Grows, Peers
<1>3. ASSUME NEW n \in Nodes PROVE Posted(n) \subseteq Posted(n)'
  BY DEF Posted, Grows, Peers
<1>4. ASSUME NEW n \in Nodes PROVE Imported(n) \subseteq Imported(n)'
  BY DEF Imported, Grows, Peers
<1>5. ASSUME NEW n \in Nodes, NEW e \in Entries(n) PROVE e \in Entries(n)'
  BY DEF Entries, Grows, Peers
<1> QED BY <1>1, <1>2, <1>3, <1>4, <1>5

\* ... and what is settled stays settled.
LEMMA SettledStays ==
  ASSUME ChainOk, ChainOk', Grows, NEW n \in Nodes, NEW t, Settled(n, t)
  PROVE  Settled(n, t)'
<1>1. lib(n) \in Nat /\ lib(n)' \in Nat /\ lib(n) <= lib(n)' /\ lib(n) <= chain[n].head
  BY RelayAssumption DEF lib, ChainOk, Grows
<1>2. CASE t \in expired \cup chain[n].refused
  BY <1>2 DEF Settled, Grows
<1>3. ASSUME NEW b \in 1 .. lib(n), t \in contents[b] PROVE Settled(n, t)'
  <2>1. b \in Made /\ b \in (1 .. lib(n))'
    BY <1>1, RelayAssumption, SMTT(30) DEF ChainOk, Made
  <2> QED BY <1>3, <2>1 DEF Settled, Grows
<1> QED BY <1>2, <1>3 DEF Settled

\* What holds of the variables that a step leaves alone, and what can be said
\* of the queue that it takes from or adds to.
LEMMA QueuesKept ==
  ASSUME RelayInv, ChainOk', Grows
  PROVE  /\ strand \in [Links -> Seq(OnStrand')] /\ wire \in [Links -> Seq(OnWire')]
         /\ \A n \in Nodes : /\ app[n] \in Seq(Tasks(n)') /\ disp[n] \in Seq(Posted(n)')
                             /\ pool[n] \subseteq Imported(n)' /\ local_txns[n] \subseteq Entries(n)'
<1> USE TypesGrow DEF RelayInv
<1>1. \A c \in Links : strand[c] \in Seq(OnStrand') /\ wire[c] \in Seq(OnWire')
  <2> TAKE c \in Links
  <2>1. strand[c] \in Seq(OnStrand) /\ wire[c] \in Seq(OnWire)
    BY DEF StrandOk, WireOk
  <2> QED BY <2>1, SeqMonotonic, Zenon
<1>2. strand \in [Links -> Seq(OnStrand')] /\ wire \in [Links -> Seq(OnWire')]
  BY <1>1 DEF StrandOk, WireOk
<1>3. ASSUME NEW n \in Nodes PROVE app[n] \in Seq(Tasks(n)') /\ disp[n] \in Seq(Posted(n)')
  BY SeqMonotonic, Zenon DEF AppOk, DispOk
<1>4. ASSUME NEW n \in Nodes PROVE pool[n] \subseteq Imported(n)' /\ local_txns[n] \subseteq Entries(n)'
  BY DEF PoolOk, TxnsOk
<1> QED BY <1>2, <1>3, <1>4

LEMMA Frame ==
  ASSUME RelayInv, ChainOk', Grows
  PROVE  /\ strand' = strand => StrandOk'
         /\ wire' = wire => WireOk'
         /\ recv' = recv => RecvOk'
         /\ app' = app => AppOk'
         /\ disp' = disp => DispOk'
         /\ pool' = pool => PoolOk'
         /\ local_txns' = local_txns => TxnsOk'
         /\ progress' = progress /\ app' = app => CountOk'
         /\ got' = got /\ local_txns' = local_txns => GotOk'
<1> USE QueuesKept
<1>1. strand' = strand => StrandOk'
  BY DEF StrandOk
<1>2. wire' = wire => WireOk'
  BY DEF WireOk
<1>3. recv' = recv => RecvOk'
  BY DEF RelayInv, RecvOk, Handled, None
<1>4. app' = app => AppOk'
  BY DEF RelayInv, AppOk
<1>5. disp' = disp => DispOk'
  BY DEF RelayInv, DispOk
<1>6. pool' = pool => PoolOk'
  BY DEF RelayInv, PoolOk
<1>7. local_txns' = local_txns => TxnsOk'
  BY DEF RelayInv, TxnsOk
<1>8. progress' = progress /\ app' = app => CountOk'
  BY DEF RelayInv, CountOk, Waiting
<1>9. ASSUME got' = got, local_txns' = local_txns PROVE GotOk'
  BY <1>9, SettledStays, LinkEnds DEF RelayInv, GotOk, peer_has_txn
<1> QED BY <1>1, <1>2, <1>3, <1>4, <1>5, <1>6, <1>7, <1>8, <1>9, SMTT(30)

\* A step that leaves the chains and the clock alone.
LEMMA SameChain ==
  ASSUME RelayInv, UNCHANGED <<chain, contents, expired>>
  PROVE  ChainOk' /\ Grows
<1>1. ChainOk'
  BY DEF RelayInv, ChainOk
<1>2. Made' = Made
  BY DEF Made
<1>3. \A n \in Nodes : chain[n].head <= chain[n].head
  BY DEF RelayInv, ChainOk
<1> QED BY <1>1, <1>2, <1>3 DEF Grows

-----------------------------------------------------------------------------
(* Relay: counting what waits for the main thread *)

LEMMA WaitingFinite ==
  ASSUME NEW S, NEW s \in Seq(S), NEW p
  PROVE  IsFiniteSet(Waiting(s, p)) /\ Cardinality(Waiting(s, p)) \in Nat
<1>1. Len(s) \in Nat /\ Waiting(s, p) \in SUBSET (1 .. Len(s))
  BY LenProperties DEF Waiting
<1>2. IsFiniteSet(1 .. Len(s))
  BY <1>1, FS_Interval
<1>3. IsFiniteSet(Waiting(s, p))
  BY <1>1, <1>2, FS_Subset
<1> QED BY <1>3, FS_CardinalityType

LEMMA WaitingAppend ==
  ASSUME NEW S, NEW s \in Seq(S), NEW x \in S, NEW p
  PROVE  Cardinality(Waiting(Append(s, x), p)) =
           IF x.kind = "trx" /\ x.from = p THEN Cardinality(Waiting(s, p)) + 1 ELSE Cardinality(Waiting(s, p))
<1>1. /\ Len(s) \in Nat /\ Len(Append(s, x)) = Len(s) + 1
      /\ \A i \in 1 .. Len(s) : Append(s, x)[i] = s[i]
      /\ Append(s, x)[Len(s) + 1] = x
  BY LenProperties, AppendProperties
<1>2. Waiting(Append(s, x), p) =
        IF x.kind = "trx" /\ x.from = p THEN Waiting(s, p) \cup {Len(s) + 1} ELSE Waiting(s, p)
  BY <1>1 DEF Waiting
<1>3. Len(s) + 1 \notin Waiting(s, p)
  BY <1>1 DEF Waiting
<1> QED BY <1>2, <1>3, WaitingFinite, FS_AddElement, Zenon

\* r is s without its k-th element.
Without(s, k, r) ==
  /\ Len(r) = Len(s) - 1
  /\ \A i \in 1 .. Len(r) : r[i] = IF i < k THEN s[i] ELSE s[i + 1]

LEMMA DequeueIs ==
  ASSUME NEW S, NEW s \in Seq(S), NEW k \in 1 .. Len(s)
  PROVE  Dequeue(s, k) \in Seq(S) /\ Without(s, k, Dequeue(s, k))
<1> DEFINE a == SubSeq(s, 1, k - 1)
           b == SubSeq(s, k + 1, Len(s))
<1>1. Len(s) \in Nat /\ \A i \in 1 .. Len(s) : s[i] \in S
  BY LenProperties, ElementOfSeq
<1>2. /\ a \in Seq(S) /\ Len(a) = k - 1
      /\ \A i \in 1 .. k - 1 : a[i] = s[i]
  <2>1. \A i \in 1 .. k - 1 : s[i] \in S
    BY <1>1
  <2>2. 1 \in Int /\ k - 1 \in Int
    BY <1>1
  <2>3. /\ a \in Seq(S)
        /\ Len(a) = IF 1 <= k - 1 THEN k - 1 - 1 + 1 ELSE 0
        /\ \A i \in 1 .. k - 1 - 1 + 1 : a[i] = s[1 + i - 1]
    BY <2>1, <2>2, SubSeqProperties
  <2> QED BY <1>1, <2>3
<1>3. /\ b \in Seq(S) /\ Len(b) = Len(s) - k
      /\ \A i \in 1 .. Len(s) - k : b[i] = s[k + i]
  <2>1. \A i \in k + 1 .. Len(s) : s[i] \in S
    BY <1>1
  <2>2. k + 1 \in Int /\ Len(s) \in Int
    BY <1>1
  <2>3. /\ b \in Seq(S)
        /\ Len(b) = IF k + 1 <= Len(s) THEN Len(s) - (k + 1) + 1 ELSE 0
        /\ \A i \in 1 .. Len(s) - (k + 1) + 1 : b[i] = s[k + 1 + i - 1]
    BY <2>1, <2>2, SubSeqProperties
  <2> QED BY <1>1, <2>3
<1> HIDE DEF a, b
<1>4. /\ a \o b \in Seq(S) /\ Len(a \o b) = Len(a) + Len(b)
      /\ \A i \in 1 .. Len(a) + Len(b) : (a \o b)[i] = IF i <= Len(a) THEN a[i] ELSE b[i - Len(a)]
  BY <1>2, <1>3, ConcatProperties, Zenon
<1>5. Without(s, k, a \o b)
  <2>1. Len(a \o b) = Len(s) - 1
    BY <1>1, <1>2, <1>3, <1>4
  <2>2. ASSUME NEW i \in 1 .. Len(s) - 1 PROVE (a \o b)[i] = IF i < k THEN s[i] ELSE s[i + 1]
    <3>1. CASE i < k
      BY <1>1, <1>2, <1>3, <1>4, <3>1
    <3>2. CASE ~(i < k)
      <4>1. i - Len(a) \in 1 .. Len(s) - k /\ k + (i - Len(a)) = i + 1 /\ ~(i <= Len(a))
        BY <1>1, <1>2, <3>2
      <4>2. i \in 1 .. Len(a) + Len(b) /\ ~(i <= Len(a))
        BY <1>1, <1>2, <1>3, <3>2
      <4>3. (a \o b)[i] = b[i - Len(a)]
        BY <1>4, <4>2
      <4>4. b[i - Len(a)] = s[k + (i - Len(a))]
        BY <1>3, <4>1, SMTT(30)
      <4> QED BY <3>2, <4>1, <4>3, <4>4
    <3> QED BY <3>1, <3>2, Zenon
  <2> QED BY <2>1, <2>2 DEF Without
<1> QED BY <1>4, <1>5 DEF Dequeue, a, b

LEMMA TailIs ==
  ASSUME NEW S, NEW s \in Seq(S), s # <<>>
  PROVE  /\ Tail(s) \in Seq(S) /\ Without(s, 1, Tail(s))
         /\ 1 \in 1 .. Len(s) /\ Head(s) = s[1] /\ s[1] \in S
<1>1. Len(s) \in Nat \ {0}
  BY EmptySeq
<1>2. /\ Head(s) \in S /\ Tail(s) \in Seq(S) /\ Len(Tail(s)) = Len(s) - 1
      /\ \A i \in 1 .. Len(Tail(s)) : Tail(s)[i] = s[i + 1]
  BY HeadTailProperties
<1>3. Head(s) = s[1]
  BY DEF Head
<1> QED BY <1>1, <1>2, <1>3 DEF Without

LEMMA WaitingWithout ==
  ASSUME NEW S, NEW s \in Seq(S), NEW k \in 1 .. Len(s), NEW r \in Seq(S), Without(s, k, r), NEW p
  PROVE  Cardinality(Waiting(r, p)) =
           IF s[k].kind = "trx" /\ s[k].from = p THEN Cardinality(Waiting(s, p)) - 1 ELSE Cardinality(Waiting(s, p))
<1> DEFINE W == Waiting(s, p) \ {k}
           f == [i \in Waiting(r, p) |-> IF i < k THEN i ELSE i + 1]
<1>1. Len(s) \in Nat /\ Len(r) \in Nat
  BY LenProperties
<1>2. \A i \in Waiting(r, p) : f[i] \in W
  BY <1>1 DEF Waiting, Without
<1>3. \A i, j \in Waiting(r, p) : f[i] = f[j] => i = j
  BY <1>1 DEF Waiting
<1>4. ASSUME NEW j \in W PROVE \E i \in Waiting(r, p) : f[i] = j
  <2>1. CASE j < k
    <3>1. j \in Waiting(r, p)
      BY <1>1, <2>1 DEF Waiting, Without
    <3> QED BY <2>1, <3>1
  <2>2. CASE ~(j < k)
    <3>1. j - 1 \in Waiting(r, p) /\ ~(j - 1 < k) /\ j - 1 + 1 = j
      BY <1>1, <2>2 DEF Waiting, Without
    <3> QED BY <3>1
  <2> QED BY <2>1, <2>2
<1>5. f \in [Waiting(r, p) -> W]
  BY <1>2
<1> HIDE DEF f, W
<1>6. f \in Bijection(Waiting(r, p), W)
  BY <1>3, <1>4, <1>5 DEF Bijection, Injection, IsInjective, Surjection
<1>7. ExistsBijection(Waiting(r, p), W)
  BY <1>6 DEF ExistsBijection
<1>8. Cardinality(W) = Cardinality(Waiting(r, p))
  BY <1>7, WaitingFinite, FS_Bijection
<1>9. Cardinality(W) = IF k \in Waiting(s, p) THEN Cardinality(Waiting(s, p)) - 1 ELSE Cardinality(Waiting(s, p))
  BY WaitingFinite, FS_RemoveElement, Zenon DEF W
<1>10. k \in Waiting(s, p) <=> s[k].kind = "trx" /\ s[k].from = p
  BY DEF Waiting
<1> QED BY <1>8, <1>9, <1>10

\* Every non-empty set of naturals has a least element.
LEMMA LeastIndex ==
  ASSUME NEW T, T \subseteq Nat, T # {}
  PROVE  Min(T) \in T
<1> DEFINE R == OpToRel(<, Nat)
<1>1. R = {ss \in Nat \X Nat : ss[1] < ss[2]}
  BY Zenon DEF OpToRel
<1>2. IsWellFoundedOn(R, Nat)
  BY NatLessThanWellFounded, Zenon
<1> HIDE DEF R
<1>3. PICK x \in T : \A y \in T : <<y, x>> \notin R
  BY <1>2, WFMin, Zenon
<1>4. ASSUME NEW y \in T PROVE x <= y
  <2>1. <<y, x>> \in Nat \X Nat /\ ~(<<y, x>>[1] < <<y, x>>[2])
    BY <1>1, <1>3
  <2> QED BY <2>1
<1> QED BY <1>4, Zenon DEF Min

\* The main thread takes the first block.
LEMMA NextBlockIs ==
  ASSUME AppOk, NEW n \in Nodes, \E i \in 1 .. Len(app[n]) : app[n][i].kind = "block"
  PROVE  NextBlock(n) \in 1 .. Len(app[n]) /\ app[n][NextBlock(n)].kind = "block"
<1> DEFINE B == {i \in 1 .. Len(app[n]) : app[n][i].kind = "block"}
<1>1. Len(app[n]) \in Nat
  BY LenProperties DEF AppOk
<1>2. B \subseteq Nat /\ B # {}
  BY <1>1
<1>3. Min(B) \in B
  BY <1>2, LeastIndex, ZenonT(40)
<1>4. NextBlock(n) = Min(B)
  BY DEF NextBlock
<1> QED BY <1>3, <1>4

-----------------------------------------------------------------------------
(* Relay: what a step does to one variable *)

LEMMA DispGets ==
  ASSUME RelayInv, ChainOk', Grows, NEW n \in Nodes, NEW x \in Posted(n)',
         disp' = [disp EXCEPT ![n] = Append(@, x)]
  PROVE  DispOk'
<1>1. \A m \in Nodes : disp[m] \in Seq(Posted(m)')
  BY QueuesKept
<1>2. Append(disp[n], x) \in Seq(Posted(n)')
  BY <1>1, AppendProperties
<1> QED BY <1>1, <1>2, Zenon DEF DispOk, RelayInv

LEMMA DispTail ==
  ASSUME RelayInv, ChainOk', Grows, NEW n \in Nodes, disp[n] # <<>>,
         disp' = [disp EXCEPT ![n] = Tail(@)]
  PROVE  DispOk'
<1>1. \A m \in Nodes : disp[m] \in Seq(Posted(m)')
  BY QueuesKept
<1>2. Tail(disp[n]) \in Seq(Posted(n)')
  BY <1>1, HeadTailProperties
<1> QED BY <1>1, <1>2, Zenon DEF DispOk, RelayInv

LEMMA StrandGets ==
  ASSUME RelayInv, ChainOk', Grows, NEW c \in Links, NEW x \in OnStrand',
         strand' = [strand EXCEPT ![c] = Append(@, x)]
  PROVE  StrandOk'
<1>1. strand \in [Links -> Seq(OnStrand')]
  BY QueuesKept
<1>2. Append(strand[c], x) \in Seq(OnStrand')
  BY <1>1, AppendProperties
<1> QED BY <1>1, <1>2 DEF StrandOk

LEMMA StrandTail ==
  ASSUME RelayInv, ChainOk', Grows, NEW c \in Links, strand[c] # <<>>,
         strand' = [strand EXCEPT ![c] = Tail(@)]
  PROVE  StrandOk'
<1>1. strand \in [Links -> Seq(OnStrand')]
  BY QueuesKept
<1>2. Tail(strand[c]) \in Seq(OnStrand')
  BY <1>1, HeadTailProperties
<1> QED BY <1>1, <1>2 DEF StrandOk

LEMMA WireGets ==
  ASSUME RelayInv, ChainOk', Grows, NEW c \in Links, NEW x \in OnWire',
         wire' = [wire EXCEPT ![c] = Append(@, x)]
  PROVE  WireOk'
<1>1. wire \in [Links -> Seq(OnWire')]
  BY QueuesKept
<1>2. Append(wire[c], x) \in Seq(OnWire')
  BY <1>1, AppendProperties
<1> QED BY <1>1, <1>2 DEF WireOk

LEMMA WireTail ==
  ASSUME RelayInv, ChainOk', Grows, NEW c \in Links, wire[c] # <<>>,
         wire' = [wire EXCEPT ![c] = Tail(@)]
  PROVE  WireOk'
<1>1. wire \in [Links -> Seq(OnWire')]
  BY QueuesKept
<1>2. Tail(wire[c]) \in Seq(OnWire')
  BY <1>1, HeadTailProperties
<1> QED BY <1>1, <1>2 DEF WireOk

LEMMA AppGets ==
  ASSUME RelayInv, ChainOk', Grows, NEW n \in Nodes, NEW x \in Tasks(n)',
         app' = [app EXCEPT ![n] = Append(@, x)]
  PROVE  /\ AppOk'
         /\ \A c \in Links : Cardinality(Waiting(app'[c[1]], c[2])) =
              IF c[1] = n /\ x.kind = "trx" /\ x.from = c[2] THEN progress[c] + 1 ELSE progress[c]
<1>1. \A m \in Nodes : app[m] \in Seq(Tasks(m)')
  BY QueuesKept
<1>2. Append(app[n], x) \in Seq(Tasks(n)')
  BY <1>1, AppendProperties
<1>3. AppOk'
  BY <1>1, <1>2, Zenon DEF AppOk, RelayInv
<1>4. /\ app'[n] = Append(app[n], x)
      /\ \A m \in Nodes \ {n} : app'[m] = app[m]
  BY DEF AppOk, RelayInv
<1>5. ASSUME NEW c \in Links
      PROVE  Cardinality(Waiting(app'[c[1]], c[2])) =
               IF c[1] = n /\ x.kind = "trx" /\ x.from = c[2] THEN progress[c] + 1 ELSE progress[c]
  <2>1. c[1] \in Nodes /\ progress[c] = Cardinality(Waiting(app[c[1]], c[2]))
    BY LinkEnds DEF CountOk, RelayInv
  <2>2. CASE c[1] = n
    BY <1>1, <1>4, <2>1, <2>2, WaitingAppend, SMTT(30)
  <2>3. CASE c[1] # n
    BY <1>4, <2>1, <2>3
  <2> QED BY <2>2, <2>3
<1> QED BY <1>3, <1>5

LEMMA AppLoses ==
  ASSUME RelayInv, ChainOk', Grows, NEW n \in Nodes, NEW k \in 1 .. Len(app[n]),
         NEW r, r \in Seq(Tasks(n)'), Without(app[n], k, r), app' = [app EXCEPT ![n] = r]
  PROVE  /\ AppOk'
         /\ \A c \in Links : Cardinality(Waiting(app'[c[1]], c[2])) =
              IF c[1] = n /\ app[n][k].kind = "trx" /\ app[n][k].from = c[2] THEN progress[c] - 1 ELSE progress[c]
<1>1. \A m \in Nodes : app[m] \in Seq(Tasks(m)')
  BY QueuesKept
<1>2. AppOk'
  BY <1>1, Zenon DEF AppOk, RelayInv
<1>3. /\ app'[n] = r
      /\ \A m \in Nodes \ {n} : app'[m] = app[m]
  BY DEF AppOk, RelayInv
<1>4. ASSUME NEW c \in Links
      PROVE  Cardinality(Waiting(app'[c[1]], c[2])) =
               IF c[1] = n /\ app[n][k].kind = "trx" /\ app[n][k].from = c[2] THEN progress[c] - 1 ELSE progress[c]
  <2>1. c[1] \in Nodes /\ progress[c] = Cardinality(Waiting(app[c[1]], c[2]))
    BY LinkEnds, SMTT(30) DEF CountOk, RelayInv
  <2>2. CASE c[1] = n
    BY <1>1, <1>3, <2>1, <2>2, WaitingWithout, SMTT(30)
  <2>3. CASE c[1] # n
    BY <1>3, <2>1, <2>3, SMTT(30)
  <2> QED BY <2>2, <2>3
<1> QED BY <1>2, <1>4

\* An entry of local_txns goes only when its transaction is settled.
LEMMA GotKept ==
  ASSUME RelayInv, ChainOk', Grows, got' = got,
         \A n \in Nodes : \A e \in local_txns[n] :
            (\E d \in local_txns'[n] : d.id = e.id /\ d.con = e.con) \/ Settled(n, e.id)'
  PROVE  GotOk'
<1> SUFFICES ASSUME NEW g \in got
             PROVE  (peer_has_txn(g[1][1], g[2], g[1][2]) \/ Settled(g[1][1], g[2]))' /\ g[1] \in Links
  BY DEF GotOk
<1>1. g[1] \in Links /\ g[1][1] \in Nodes /\ (peer_has_txn(g[1][1], g[2], g[1][2]) \/ Settled(g[1][1], g[2]))
  BY LinkEnds DEF GotOk, RelayInv
<1>2. CASE Settled(g[1][1], g[2])
  BY <1>1, <1>2, SettledStays, SMTT(30) DEF RelayInv
<1>3. CASE peer_has_txn(g[1][1], g[2], g[1][2])
  BY <1>1, <1>3 DEF peer_has_txn
<1> QED BY <1>1, <1>2, <1>3, SMTT(30)

\* A new entry for connection p of node n.
LEMMA TxnAdded ==
  ASSUME RelayInv, ChainOk', Grows, NEW n \in Nodes, NEW t \in Trxs, NEW p \in Peers(n),
         local_txns' = [local_txns EXCEPT ![n] = add_peer_txn(n, t, p)]
  PROVE  /\ TxnsOk' /\ peer_has_txn(n, t, p)'
         /\ \A m \in Nodes : local_txns[m] \subseteq local_txns'[m]
<1> DEFINE e == [id |-> t, con |-> p, block_num |-> 0]
<1>1. /\ local_txns'[n] = add_peer_txn(n, t, p)
      /\ \A m \in Nodes \ {n} : local_txns'[m] = local_txns[m]
      /\ local_txns' = [m \in Nodes |-> local_txns'[m]]
  BY DEF RelayInv, TxnsOk
<1>2. e \in Entries(n)'
  BY DEF Entries, Peers
<1>3. \A m \in Nodes : local_txns[m] \subseteq Entries(m)'
  BY QueuesKept
<1>4. local_txns'[n] \subseteq Entries(n)' /\ local_txns[n] \subseteq local_txns'[n]
  BY <1>1, <1>2, <1>3 DEF add_peer_txn
<1>5. peer_has_txn(n, t, p)'
  <2>1. CASE peer_has_txn(n, t, p)
    BY <1>1, <2>1 DEF add_peer_txn, peer_has_txn
  <2>2. CASE ~peer_has_txn(n, t, p)
    <3>1. e \in local_txns'[n] /\ e.id = t /\ e.con = p
      BY <1>1, <2>2 DEF add_peer_txn
    <3> QED BY <3>1 DEF peer_has_txn
  <2> QED BY <2>1, <2>2
<1> QED BY <1>1, <1>3, <1>4, <1>5, SMTT(30) DEF TxnsOk

\* The entries of the transactions ts of node n get a block number.
LEMMA TxnsNumbered ==
  ASSUME RelayInv, ChainOk', Grows, got' = got, NEW n \in Nodes, NEW ts, NEW b \in {0} \cup Made',
         \A t \in ts : b # 0 => t \in expired' \cup chain'[n].refused \cup contents'[b],
         local_txns' = [local_txns EXCEPT ![n] = update_txns_block_num(n, ts, b)]
  PROVE  TxnsOk' /\ GotOk'
<1>1. /\ local_txns'[n] = update_txns_block_num(n, ts, b)
      /\ \A m \in Nodes \ {n} : local_txns'[m] = local_txns[m]
      /\ local_txns' = [m \in Nodes |-> local_txns'[m]]
  BY SMTT(30) DEF RelayInv, TxnsOk
<1>2. \A m \in Nodes : local_txns[m] \subseteq Entries(m)'
  BY QueuesKept
<1>3. ASSUME NEW e \in local_txns[n]
      PROVE  LET d == IF e.id \in ts THEN [e EXCEPT !.block_num = b] ELSE e
             IN d \in Entries(n)' /\ d.id = e.id /\ d.con = e.con
  <2>1. e \in Entries(n)'
    BY <1>2
  <2> QED BY <2>1 DEF Entries
<1>4. local_txns'[n] \subseteq Entries(n)'
  BY <1>1, <1>3, ZenonT(40) DEF update_txns_block_num
<1>5. TxnsOk'
  BY <1>1, <1>2, <1>4 DEF TxnsOk
<1>6. ASSUME NEW m \in Nodes, NEW e \in local_txns[m]
      PROVE  \E d \in local_txns'[m] : d.id = e.id /\ d.con = e.con
  <2>1. CASE m # n
    BY <1>1, <2>1
  <2>2. CASE m = n
    <3> DEFINE d == IF e.id \in ts THEN [e EXCEPT !.block_num = b] ELSE e
    <3>1. d \in local_txns'[n]
      BY <1>1, <2>2 DEF update_txns_block_num
    <3>2. d.id = e.id /\ d.con = e.con
      BY <1>3, <2>2
    <3> QED BY <2>2, <3>1, <3>2, ZenonT(40)
  <2> QED BY <2>1, <2>2
<1>7. GotOk'
  BY <1>6, GotKept
<1> QED BY <1>5, <1>7

LEMMA AcceptsKeeps ==
  ASSUME RelayInv, NEW n \in Nodes, NEW t \in Trxs, Accepts(n, t), UNCHANGED <<contents, expired>>
  PROVE  ChainOk' /\ Grows /\ DispOk'
<1>1. ASSUME chain' = [chain EXCEPT ![n].trxs = @ \cup {t}] PROVE ChainOk' /\ Grows
  BY <1>1, RelayAssumption DEF RelayInv, ChainOk, Grows, Made
<1>2. ASSUME chain' = [chain EXCEPT ![n].refused = @ \cup {t}] PROVE ChainOk' /\ Grows /\ t \in chain'[n].refused
  BY <1>2, RelayAssumption, SMTT(30) DEF RelayInv, ChainOk, Grows, Made
<1>3. [kind |-> "ack", id |-> t, todo |-> Peers(n)] \in Posted(n)'
  BY DEF Posted, Peers
<1>4. CASE chain' = [chain EXCEPT ![n].trxs = @ \cup {t}]
           /\ disp' = [disp EXCEPT ![n] = Append(@, [kind |-> "ack", id |-> t, todo |-> Peers(n)])]
  BY <1>1, <1>3, <1>4, DispGets, Zenon
<1>5. CASE chain' = [chain EXCEPT ![n].refused = @ \cup {t}]
           /\ disp' = [disp EXCEPT ![n] = Append(@, [kind |-> "nack", id |-> t])]
  <2>1. [kind |-> "nack", id |-> t] \in Posted(n)'
    BY <1>2, <1>5 DEF Posted
  <2> QED BY <1>2, <1>5, <2>1, DispGets, ZenonT(40)
<1> QED BY <1>4, <1>5 DEF Accepts

-----------------------------------------------------------------------------
(* Relay: the steps *)

LEMMA RelayInitInv == Init => RelayInv
<1> SUFFICES ASSUME Init PROVE RelayInv
  OBVIOUS
<1>1. \A S : <<>> \in Seq(S) /\ Len(<<>>) = 0
  BY EmptySeq
<1>2. ChainOk
  BY RelayAssumption DEF Init, ChainOk
<1>3. TxnsOk /\ StrandOk /\ WireOk /\ RecvOk /\ AppOk /\ DispOk /\ PoolOk
  BY <1>1 DEF Init, TxnsOk, StrandOk, WireOk, RecvOk, AppOk, DispOk, PoolOk, Handled
<1>4. CountOk
  <2>1. ASSUME NEW c \in Links PROVE progress[c] = Cardinality(Waiting(app[c[1]], c[2]))
    <3>1. app[c[1]] = <<>> /\ progress[c] = 0
      BY LinkEnds DEF Init
    <3>2. Waiting(<<>>, c[2]) = {}
      BY <1>1 DEF Waiting
    <3> QED BY <3>1, <3>2, FS_EmptySet, Zenon
  <2> QED BY <2>1 DEF CountOk, Init
<1>5. GotOk
  BY DEF Init, GotOk
<1> QED BY <1>2, <1>3, <1>4, <1>5 DEF RelayInv

LEMMA PushKeeps == ASSUME RelayInv, NEW t \in Trxs, PushTransaction(t) PROVE RelayInv'
<1>1. Origin[t] \in Nodes /\ Accepts(Origin[t], t) /\ UNCHANGED <<contents, expired>>
  BY RelayAssumption DEF PushTransaction
<1>2. ChainOk' /\ Grows /\ DispOk'
  BY <1>1, AcceptsKeeps
<1>3. UNCHANGED <<local_txns, strand, recv, progress, app, pool, wire, got>>
  BY SMTT(30) DEF PushTransaction, dispatcher
<1> QED BY <1>2, <1>3, Frame DEF RelayInv

LEMMA AcceptKeeps == ASSUME RelayInv, NEW n \in Nodes, accept_transaction(n) PROVE RelayInv'
<1>0. PICK i \in 1 .. Len(app[n]) :
        /\ app[n][i].kind = "trx" /\ Accepts(n, app[n][i].id)
        /\ progress' = [progress EXCEPT ![<<n, app[n][i].from>>] = @ - 1]
        /\ app' = [app EXCEPT ![n] = Dequeue(@, i)]
  BY ZenonT(40) DEF accept_transaction
<1> DEFINE x == app[n][i]
<1>1. UNCHANGED <<contents, expired, local_txns, strand, recv, pool, wire, got>>
  BY DEF accept_transaction, dispatcher
<1>2. AppOk /\ app[n] \in Seq(Tasks(n)) /\ x.kind = "trx"
  BY <1>0 DEF RelayInv, AppOk
<1>3. x \in Tasks(n)
  BY <1>2, ElementOfSeq, SMTT(30)
<1>4. x.id \in Trxs /\ x.from \in Peers(n)
  BY <1>2, <1>3, SMTT(30) DEF Tasks
<1>5. ChainOk' /\ Grows /\ DispOk'
  BY <1>0, <1>1, <1>4, AcceptsKeeps
<1>6. app[n] \in Seq(Tasks(n)')
  BY <1>5, QueuesKept, SMTT(30)
<1>7. Dequeue(app[n], i) \in Seq(Tasks(n)') /\ Without(app[n], i, Dequeue(app[n], i))
  BY <1>6, DequeueIs, SMTT(30)
<1>8. /\ AppOk'
      /\ \A c \in Links : Cardinality(Waiting(app'[c[1]], c[2])) =
           IF c[1] = n /\ x.kind = "trx" /\ x.from = c[2] THEN progress[c] - 1 ELSE progress[c]
  BY <1>0, <1>5, <1>7, AppLoses, ZenonT(40)
<1>9. CountOk'
  <2>1. progress' = [c \in Links |-> progress'[c]]
    BY <1>0, Zenon DEF RelayInv, CountOk
  <2>2. ASSUME NEW c \in Links PROVE progress'[c] = Cardinality(Waiting(app'[c[1]], c[2]))
    <3>1. c = <<c[1], c[2]>>
      BY LinkEnds
    <3>2. progress'[c] = IF c = <<n, x.from>> THEN progress[c] - 1 ELSE progress[c]
      BY <1>0 DEF RelayInv, CountOk
    <3>3. c = <<n, x.from>> <=> c[1] = n /\ x.from = c[2]
      BY <3>1
    <3> QED BY <1>2, <1>8, <3>2, <3>3, ZenonT(40)
  <2> QED BY <2>1, <2>2, SMTT(30) DEF CountOk
<1> QED BY <1>1, <1>5, <1>8, <1>9, Frame, SMTT(30) DEF RelayInv

LEMMA ProcessBlockKeeps == ASSUME RelayInv, NEW n \in Nodes, process_signed_block(n) PROVE RelayInv'
<1> DEFINE x == app[n][NextBlock(n)]
           c == <<n, x.from>>
<1>0. AppOk /\ app[n] \in Seq(Tasks(n)) /\ \E i \in 1 .. Len(app[n]) : app[n][i].kind = "block"
  BY ZenonT(40) DEF process_signed_block, RelayInv, AppOk
<1>1. /\ app' = [app EXCEPT ![n] = Dequeue(@, NextBlock(n))]
      /\ UNCHANGED <<contents, expired, local_txns, recv, progress, wire, got>>
  BY Zenon DEF process_signed_block, dispatcher
<1>2. app[n] \in Seq(Tasks(n)) /\ NextBlock(n) \in 1 .. Len(app[n]) /\ x.kind = "block"
  BY <1>0, NextBlockIs
<1>3. x \in Tasks(n)
  BY <1>2, ElementOfSeq, SMTT(30)
<1>4. x.id \in Made /\ x.from \in Peers(n) /\ c \in Links
  BY <1>2, <1>3, PeerLink, SMTT(30) DEF Tasks
<1>5. ASSUME ChainOk', Grows PROVE AppOk' /\ CountOk'
  <2>1. app[n] \in Seq(Tasks(n)')
    BY <1>5, QueuesKept
  <2>2. Dequeue(app[n], NextBlock(n)) \in Seq(Tasks(n)') /\ Without(app[n], NextBlock(n), Dequeue(app[n], NextBlock(n)))
    BY <1>2, <2>1, DequeueIs, SMTT(30)
  <2>3. AppOk' /\ \A d \in Links : Cardinality(Waiting(app'[d[1]], d[2])) = progress[d]
    BY <1>1, <1>2, <1>5, <2>2, AppLoses, ZenonT(40)
  <2> QED BY <1>1, <2>3, SMTT(30) DEF CountOk, RelayInv
<1>6. CASE /\ strand' = [strand EXCEPT ![c] = Append(@, [kind |-> "seen", id |-> x.id])]
           /\ UNCHANGED <<chain, disp, pool>>
  <2>1. ChainOk' /\ Grows
    BY <1>1, <1>6, SameChain, SMTT(30)
  <2>2. [kind |-> "seen", id |-> x.id] \in OnStrand'
    BY <1>4, <2>1 DEF OnStrand, Grows
  <2>3. StrandOk'
    BY <1>4, <1>6, <2>1, <2>2, StrandGets, ZenonT(40)
  <2> QED BY <1>1, <1>5, <1>6, <2>1, <2>3, Frame, Zenon DEF RelayInv
<1>7. CASE /\ x.id = chain[n].head + 1
           /\ chain' = [chain EXCEPT ![n].head = x.id, ![n].trxs = @ \cup contents[x.id]]
           /\ disp' = [disp EXCEPT ![n] = Append(@, [kind |-> "block", id |-> x.id])]
           /\ pool' = [pool EXCEPT ![n] = @ \cup {[from |-> x.from, id |-> x.id]}]
           /\ UNCHANGED strand
  <2>0. /\ chain \in [Nodes -> [head : Nat, trxs : SUBSET Trxs, refused : SUBSET Trxs]]
        /\ contents[x.id] \subseteq Trxs /\ Producer \in Nodes
        /\ chain[n].head + 1 <= chain[Producer].head /\ n # Producer /\ x.id \in Nat
    BY <1>4, <1>7, RelayAssumption DEF RelayInv, ChainOk, Made
  <2> HIDE DEF x
  <2>a. /\ chain' \in [Nodes -> [head : Nat, trxs : SUBSET Trxs, refused : SUBSET Trxs]]
        /\ chain'[Producer] = chain[Producer]
        /\ \A m \in Nodes : /\ chain'[m].head = IF m = n THEN chain[n].head + 1 ELSE chain[m].head
                            /\ chain'[m].refused = chain[m].refused
    BY <1>7, <2>0, ZenonT(40)
  <2>1. ChainOk'
    BY <1>1, <2>0, <2>a, Zenon DEF RelayInv, ChainOk
  <2>2. Grows
    <3>1. Made' = Made
      BY <2>a DEF Made
    <3>2. \A m \in Nodes : chain[m].head <= chain'[m].head
      BY <2>0, <2>a
    <3> QED BY <1>1, <2>a, <3>1, <3>2, SMTT(30) DEF Grows
  <2>3. [kind |-> "block", id |-> x.id] \in Posted(n)'
    BY <1>4, <2>2, Zenon DEF Posted, Grows
  <2>4. DispOk'
    BY <1>7, <2>1, <2>2, <2>3, DispGets, ZenonT(40)
  <2>5. [from |-> x.from, id |-> x.id] \in Imported(n)'
    BY <1>4, <2>2, Zenon DEF Imported, Grows, Peers
  <2>6. PoolOk'
    BY <1>7, <2>1, <2>2, <2>5, QueuesKept, ZenonT(40) DEF PoolOk, RelayInv
  <2> QED BY <1>1, <1>5, <1>7, <2>1, <2>2, <2>4, <2>6, Frame, SMTT(30) DEF RelayInv
<1>8. CASE UNCHANGED <<chain, disp, pool, strand>>
  <2>1. ChainOk' /\ Grows
    BY <1>1, <1>8, SameChain
  <2> QED BY <1>1, <1>5, <1>8, <2>1, Frame, SMTT(30) DEF RelayInv
<1> QED BY <1>6, <1>7, <1>8, Zenon DEF process_signed_block

LEMMA ProduceKeeps == ASSUME RelayInv, Produce PROVE RelayInv'
<1> DEFINE b == chain[Producer].head + 1
           ts == chain[Producer].trxs \ UNION {contents[i] : i \in 1 .. b - 1}
<1>1. /\ b <= MaxBlock /\ contents' = [contents EXCEPT ![b] = ts]
      /\ chain' = [chain EXCEPT ![Producer].head = b]
      /\ disp' = [disp EXCEPT ![Producer] = Append(@, [kind |-> "block", id |-> b])]
      /\ UNCHANGED <<expired, local_txns, strand, recv, progress, app, pool, wire, got>>
  BY DEF Produce, dispatcher
<1>2. /\ Producer \in Nodes /\ MaxBlock \in Nat
      /\ chain \in [Nodes -> [head : Nat, trxs : SUBSET Trxs, refused : SUBSET Trxs]]
      /\ contents \in [1 .. MaxBlock -> SUBSET Trxs]
      /\ \A n \in Nodes : chain[n].head <= chain[Producer].head
  BY RelayAssumption DEF RelayInv, ChainOk
<1>3. b \in Nat /\ b \in 1 .. MaxBlock /\ ts \subseteq Trxs
  BY <1>1, <1>2
<1> HIDE DEF ts
<1>4. /\ chain' \in [Nodes -> [head : Nat, trxs : SUBSET Trxs, refused : SUBSET Trxs]]
      /\ \A m \in Nodes : /\ chain'[m].head = IF m = Producer THEN b ELSE chain[m].head
                          /\ chain'[m].refused = chain[m].refused
  BY <1>1, <1>2, <1>3, ZenonT(40)
<1>5. ChainOk'
  BY <1>1, <1>2, <1>3, <1>4, SMTT(30) DEF ChainOk
<1>6. Grows
  <2>1. Made = 1 .. b - 1 /\ Made' = 1 .. b
    BY <1>2, <1>4 DEF Made
  <2>2. \A i \in Made : contents'[i] = contents[i]
    BY <1>1, <1>2, <1>3, <2>1, SMTT(30)
  <2> QED BY <1>1, <1>2, <1>3, <1>4, <2>1, <2>2, SMTT(30) DEF Grows
<1>7. [kind |-> "block", id |-> b] \in Posted(Producer)'
  BY <1>2, <1>3, <1>4 DEF Posted, Made
<1>8. DispOk'
  BY <1>1, <1>2, <1>5, <1>6, <1>7, DispGets, ZenonT(40)
<1> QED BY <1>1, <1>5, <1>6, <1>8, Frame DEF RelayInv

LEMMA BcastKeeps == ASSUME RelayInv, NEW n \in Nodes, bcast_transaction(n) PROVE RelayInv'
<1> DEFINE h == Head(disp[n])
<1>1. /\ disp[n] # <<>> /\ h.kind = "ack"
      /\ UNCHANGED <<chain, contents, expired, recv, progress, app, pool, wire, got>>
  BY Zenon DEF bcast_transaction
<1>2. PICK p \in h.todo :
        /\ local_txns' = [local_txns EXCEPT ![n] = add_peer_txn(n, h.id, p)]
        /\ strand' = IF peer_has_txn(n, h.id, p) THEN strand
                     ELSE [strand EXCEPT ![<<n, p>>] = Append(@, Trx(h.id))]
        /\ disp' = [disp EXCEPT ![n] = NextPeer(@, p)]
  BY Zenon DEF bcast_transaction
<1>3. ChainOk' /\ Grows
  BY <1>1, SameChain
<1>4. disp[n] \in Seq(Posted(n)) /\ h \in Posted(n) /\ h = disp[n][1] /\ Tail(disp[n]) \in Seq(Posted(n))
  BY <1>1, TailIs, SMTT(30) DEF RelayInv, DispOk
<1>5. h \in [kind : {"ack"}, id : Trxs, todo : SUBSET Peers(n)] /\ p \in Peers(n) /\ h.id \in Trxs
  BY <1>1, <1>4 DEF Posted
<1>6. TxnsOk' /\ \A m \in Nodes : local_txns[m] \subseteq local_txns'[m]
  BY <1>2, <1>3, <1>5, TxnAdded, ZenonT(40)
<1>7. GotOk'
  BY <1>1, <1>3, <1>6, GotKept
<1>8. StrandOk'
  <2>1. Trx(h.id) \in OnStrand' /\ <<n, p>> \in Links
    BY <1>5, PeerLink DEF Trx, OnStrand, OnWire
  <2> QED BY <1>2, <1>3, <2>1, StrandGets, Frame, ZenonT(40)
<1>9. DispOk'
  <2>1. Posted(n)' = Posted(n) /\ \A m \in Nodes : Posted(m)' = Posted(m)
    BY <1>1 DEF Posted, Made, Peers
  <2> DEFINE s == [disp[n] EXCEPT ![1].todo = @ \ {p}]
  <2>2. s \in Seq(Posted(n))
    <3>1. [h EXCEPT !.todo = @ \ {p}] \in Posted(n)
      BY <1>5 DEF Posted
    <3>2. /\ disp[n] \in [1 .. Len(disp[n]) -> Posted(n)] /\ Len(disp[n]) \in Nat
      BY <1>4, LenProperties
    <3>3. s \in [1 .. Len(disp[n]) -> Posted(n)]
      BY <1>4, <3>1, <3>2, SMTT(30)
    <3> QED BY <3>2, <3>3, SeqDef
  <2>3. disp'[n] \in Seq(Posted(n))
    <3>1. disp'[n] = NextPeer(disp[n], p)
      BY <1>2 DEF RelayInv, DispOk
    <3>2. NextPeer(disp[n], p) = IF h.todo = {p} THEN Tail(disp[n]) ELSE s
      BY DEF NextPeer
    <3> HIDE DEF s
    <3> QED BY <1>4, <2>2, <3>1, <3>2, SMTT(30)
  <2> QED BY <1>2, <2>1, <2>3, SMTT(30) DEF RelayInv, DispOk
<1> QED BY <1>1, <1>3, <1>6, <1>7, <1>8, <1>9, Frame, SMTT(30) DEF RelayInv

LEMMA RejectedKeeps == ASSUME RelayInv, NEW n \in Nodes, rejected_transaction(n) PROVE RelayInv'
<1> DEFINE h == Head(disp[n])
<1>1. /\ disp[n] # <<>> /\ h.kind = "nack" /\ disp' = [disp EXCEPT ![n] = Tail(@)]
      /\ local_txns' = IF h.id \in expired THEN local_txns
                       ELSE [local_txns EXCEPT ![n] = update_txns_block_num(n, {h.id}, chain[n].head)]
      /\ UNCHANGED <<chain, contents, expired, strand, recv, progress, app, pool, wire, got>>
  BY Zenon DEF rejected_transaction
<1>2. ChainOk' /\ Grows
  BY <1>1, SameChain
<1>3. h \in Posted(n)
  BY <1>1, TailIs DEF RelayInv, DispOk
<1>4. h.id \in chain[n].refused
  BY <1>1, <1>3, ZenonT(40) DEF Posted
<1>5. chain[n].head \in {0} \cup Made'
  BY <1>1, RelayAssumption DEF RelayInv, ChainOk, Made
<1>6. TxnsOk' /\ GotOk'
  <2>1. CASE h.id \in expired
    BY <1>1, <1>2, <2>1, Frame, Zenon
  <2>2. CASE h.id \notin expired
    <3> DEFINE ts == {h.id}
               b == chain[n].head
    <3>1. \A t \in ts : b # 0 => t \in expired' \cup chain'[n].refused \cup contents'[b]
      BY <1>1, <1>4, SMTT(30)
    <3>2. local_txns' = [local_txns EXCEPT ![n] = update_txns_block_num(n, ts, b)] /\ b \in {0} \cup Made'
      BY <1>1, <1>5, <2>2, SMTT(30)
    <3>3. got' = got
      BY <1>1
    <3> HIDE DEF ts, b
    <3> QED BY <1>2, <3>1, <3>2, <3>3, TxnsNumbered, ZenonT(40)
  <2> QED BY <2>1, <2>2
<1>7. DispOk'
  BY <1>1, <1>2, DispTail, ZenonT(40)
<1> QED BY <1>1, <1>2, <1>6, <1>7, Frame, SMTT(30) DEF RelayInv

LEMMA BcastBlockKeeps == ASSUME RelayInv, NEW n \in Nodes, bcast_block(n) PROVE RelayInv'
<1> DEFINE h == Head(disp[n])
<1>1. /\ disp[n] # <<>> /\ h.kind = "block" /\ disp' = [disp EXCEPT ![n] = Tail(@)]
      /\ strand' = [c \in Links |-> IF c[1] = n THEN Append(strand[c], h) ELSE strand[c]]
      /\ UNCHANGED <<chain, contents, expired, local_txns, recv, progress, app, pool, wire, got>>
  BY DEF bcast_block, dispatcher
<1>2. ChainOk' /\ Grows
  BY <1>1, SameChain
<1>3. h \in Posted(n)
  BY <1>1, TailIs, SMTT(30) DEF RelayInv, DispOk
<1>4. h \in OnStrand'
  BY <1>1, <1>2, <1>3, SMTT(30) DEF Posted, OnStrand, OnWire, Grows
<1>5. StrandOk'
  <2>1. strand \in [Links -> Seq(OnStrand')]
    BY <1>2, QueuesKept, SMTT(30)
  <2>2. \A c \in Links : Append(strand[c], h) \in Seq(OnStrand')
    BY <1>4, <2>1, AppendProperties
  <2> QED BY <1>1, <2>1, <2>2, SMTT(30) DEF StrandOk
<1>6. DispOk'
  BY <1>1, <1>2, DispTail, ZenonT(40)
<1> QED BY <1>1, <1>2, <1>5, <1>6, Frame, SMTT(30) DEF RelayInv

LEMMA SendKeeps ==
  ASSUME RelayInv, NEW c \in Links, SendTransaction(c) \/ SendBlock(c) \/ NoteBlock(c)
  PROVE  RelayInv'
<1>1. /\ strand[c] # <<>> /\ strand' = [strand EXCEPT ![c] = Tail(@)]
      /\ \/ wire' = wire
         \/ Head(strand[c]).kind \in {"trx", "block"} /\ wire' = [wire EXCEPT ![c] = Append(@, Head(strand[c]))]
      /\ UNCHANGED <<chain, contents, expired, local_txns, recv, progress, app, disp, pool, got>>
  BY Zenon DEF SendTransaction, SendBlock, NoteBlock, dispatcher
<1>2. ChainOk' /\ Grows
  BY <1>1, SameChain
<1>3. Head(strand[c]) \in OnStrand
  BY <1>1, TailIs, SMTT(30) DEF RelayInv, StrandOk
<1>4. Head(strand[c]).kind \in {"trx", "block"} => Head(strand[c]) \in OnWire'
  BY <1>2, <1>3 DEF OnStrand, OnWire, Grows
<1>5. StrandOk' /\ WireOk'
  BY <1>1, <1>2, <1>4, StrandTail, WireGets, Frame, ZenonT(40)
<1> QED BY <1>1, <1>2, <1>5, Frame DEF RelayInv

LEMMA AddPeerKeeps == ASSUME RelayInv, NEW c \in Links, AddPeerTxn(c) PROVE RelayInv'
<1>0. recv[c] # None /\ recv[c].id \in Trxs
  BY DEF AddPeerTxn, RelayInv, RecvOk, Handled
<1>t. PICK t \in Trxs : t = recv[c].id
  BY <1>0, SMTT(30)
<1> DEFINE x == [kind |-> "trx", id |-> t, from |-> c[2]]
<1>1. /\ recv' = [recv EXCEPT ![c] = None] /\ got' = got \cup {<<c, t>>}
      /\ local_txns' = [local_txns EXCEPT ![c[1]] = add_peer_txn(c[1], t, c[2])]
      /\ \/ UNCHANGED <<progress, app>>
         \/ /\ progress' = [progress EXCEPT ![c] = @ + 1]
            /\ app' = [app EXCEPT ![c[1]] = Append(@, x)]
      /\ UNCHANGED <<chain, contents, expired, strand, disp, pool, wire>>
  BY <1>t, SMTT(30) DEF AddPeerTxn
<1>2. ChainOk' /\ Grows
  BY <1>1, SameChain
<1>3. t \in Trxs /\ c[1] \in Nodes /\ c[2] \in Peers(c[1])
  BY LinkEnds, SMTT(30)
<1>4. RecvOk'
  BY <1>1 DEF RelayInv, RecvOk, Handled
<1>5. /\ TxnsOk' /\ peer_has_txn(c[1], t, c[2])'
      /\ \A m \in Nodes : local_txns[m] \subseteq local_txns'[m]
  <2> DEFINE n == c[1]
             p == c[2]
  <2>1. n \in Nodes /\ p \in Peers(n) /\ local_txns' = [local_txns EXCEPT ![n] = add_peer_txn(n, t, p)]
    BY <1>1, <1>3
  <2> HIDE DEF n, p
  <2>2. TxnsOk' /\ peer_has_txn(n, t, p)' /\ \A m \in Nodes : local_txns[m] \subseteq local_txns'[m]
    BY <1>2, <1>3, <2>1, TxnAdded, ZenonT(40)
  <2> QED BY <2>2, SMTT(30) DEF n, p
<1>6. GotOk'
  <2> SUFFICES ASSUME NEW g \in got'
               PROVE  g[1] \in Links /\ (peer_has_txn(g[1][1], g[2], g[1][2]) \/ Settled(g[1][1], g[2]))'
    BY DEF GotOk
  <2>1. CASE g = <<c, t>>
    BY <1>5, <2>1, SMTT(30) DEF peer_has_txn
  <2>2. CASE g \in got
    <3>1. g[1] \in Links /\ g[1][1] \in Nodes /\ (peer_has_txn(g[1][1], g[2], g[1][2]) \/ Settled(g[1][1], g[2]))
      BY <2>2, LinkEnds, SMTT(30) DEF RelayInv, GotOk
    <3>2. Settled(g[1][1], g[2]) => Settled(g[1][1], g[2])'
      BY <1>2, <3>1, SettledStays, SMTT(30) DEF RelayInv
    <3>3. peer_has_txn(g[1][1], g[2], g[1][2]) => peer_has_txn(g[1][1], g[2], g[1][2])'
      BY <1>5, <3>1, SMTT(30) DEF peer_has_txn
    <3> QED BY <3>1, <3>2, <3>3, SMTT(30)
  <2> QED BY <1>1, <2>1, <2>2, SMTT(30)
<1>7. CASE UNCHANGED <<progress, app>>
  BY <1>1, <1>2, <1>4, <1>5, <1>6, <1>7, Frame, SMTT(30) DEF RelayInv
<1>8. CASE progress' = [progress EXCEPT ![c] = @ + 1] /\ app' = [app EXCEPT ![c[1]] = Append(@, x)]
  <2>1. x \in Tasks(c[1])'
    BY <1>3 DEF Tasks, Peers
  <2>2. /\ AppOk'
        /\ \A d \in Links : Cardinality(Waiting(app'[d[1]], d[2])) =
             IF d[1] = c[1] /\ x.kind = "trx" /\ x.from = d[2] THEN progress[d] + 1 ELSE progress[d]
    BY <1>2, <1>3, <1>8, <2>1, AppGets, ZenonT(40)
  <2>3. ASSUME NEW d \in Links PROVE progress'[d] = Cardinality(Waiting(app'[d[1]], d[2]))
    <3>1. c = <<c[1], c[2]>> /\ d = <<d[1], d[2]>>
      BY LinkEnds
    <3>2. progress'[d] = IF d = c THEN progress[d] + 1 ELSE progress[d]
      BY <1>8 DEF RelayInv, CountOk
    <3>3. d = c <=> d[1] = c[1] /\ x.from = d[2]
      BY <3>1, SMTT(30)
    <3> QED BY <2>2, <3>2, <3>3, SMTT(30)
  <2>4. progress' = [d \in Links |-> progress'[d]]
    BY <1>8 DEF RelayInv, CountOk
  <2>5. CountOk'
    BY <2>3, <2>4 DEF CountOk
  <2> QED BY <1>1, <1>2, <1>4, <1>5, <1>6, <2>2, <2>5, Frame, SMTT(30) DEF RelayInv
<1> QED BY <1>1, <1>7, <1>8, SMTT(30)

LEMMA RecvTrxKeeps == ASSUME RelayInv, NEW c \in Links, RecvTransaction(c) PROVE RelayInv'
<1> DEFINE h == Head(wire[Inbound(c)])
<1>1. /\ wire[Inbound(c)] # <<>> /\ h.kind = "trx" /\ wire' = [wire EXCEPT ![Inbound(c)] = Tail(@)]
      /\ recv' = IF progress[c] > MaxInProgress THEN recv
                 ELSE [recv EXCEPT ![c] = [kind |-> "trx", id |-> h.id, have |-> have_txn(c[1], h.id)]]
      /\ UNCHANGED <<chain, contents, expired, local_txns, strand, progress, app, disp, pool, got>>
  BY ZenonT(40) DEF RecvTransaction, Incoming, dispatcher
<1>2. ChainOk' /\ Grows /\ Inbound(c) \in Links
  BY <1>1, SameChain, LinkEnds, SMTT(30)
<1>3. h \in OnWire
  BY <1>1, <1>2, TailIs, SMTT(30) DEF RelayInv, WireOk
<1>4. h.id \in Trxs /\ have_txn(c[1], h.id) \in BOOLEAN
  BY <1>1, <1>3, SMTT(30) DEF OnWire, have_txn
<1>5. RecvOk'
  BY <1>1, <1>4 DEF RelayInv, RecvOk, Handled
<1>6. WireOk'
  BY <1>1, <1>2, WireTail, Zenon
<1> QED BY <1>1, <1>2, <1>5, <1>6, Frame, ZenonT(40) DEF RelayInv

LEMMA RecvBlockKeeps == ASSUME RelayInv, NEW c \in Links, RecvBlock(c) PROVE RelayInv'
<1> DEFINE h == Head(wire[Inbound(c)])
           x == [kind |-> "block", id |-> h.id, from |-> c[2]]
<1>1. /\ wire[Inbound(c)] # <<>> /\ h.kind = "block" /\ wire' = [wire EXCEPT ![Inbound(c)] = Tail(@)]
      /\ app' = app \/ app' = [app EXCEPT ![c[1]] = Append(@, x)]
      /\ UNCHANGED <<chain, contents, expired, local_txns, strand, recv, progress, disp, pool, got>>
  BY ZenonT(40) DEF RecvBlock, Incoming, dispatcher
<1>2. ChainOk' /\ Grows /\ Inbound(c) \in Links /\ c[1] \in Nodes /\ c[2] \in Peers(c[1])
  BY <1>1, SameChain, LinkEnds, SMTT(30)
<1>3. h \in OnWire
  BY <1>1, <1>2, TailIs, SMTT(30) DEF RelayInv, WireOk
<1>4. x \in Tasks(c[1])'
  <2>1. h.id \in Made
    BY <1>1, <1>3 DEF OnWire
  <2> QED BY <1>2, <2>1, SMTT(30) DEF Tasks, Grows, Peers
<1>5. WireOk'
  BY <1>1, <1>2, WireTail, ZenonT(40)
<1>6. AppOk' /\ CountOk'
  <2>1. CASE app' = app
    BY <1>1, <1>2, <2>1, Frame, SMTT(30)
  <2>2. CASE app' = [app EXCEPT ![c[1]] = Append(@, x)]
    <3>1. AppOk' /\ \A d \in Links : Cardinality(Waiting(app'[d[1]], d[2])) = progress[d]
      <4> HIDE DEF h
      <4>1. /\ AppOk'
            /\ \A d \in Links : Cardinality(Waiting(app'[d[1]], d[2])) =
                 IF d[1] = c[1] /\ x.kind = "trx" /\ x.from = d[2] THEN progress[d] + 1 ELSE progress[d]
        BY <1>2, <1>4, <2>2, AppGets, ZenonT(40)
      <4>2. x.kind # "trx"
        OBVIOUS
      <4> QED BY <4>1, <4>2
    <3> QED BY <1>1, <3>1, SMTT(30) DEF CountOk, RelayInv
  <2> QED BY <1>1, <2>1, <2>2, SMTT(30)
<1> QED BY <1>1, <1>2, <1>5, <1>6, Frame, ZenonT(40) DEF RelayInv

LEMMA PoolKeeps == ASSUME RelayInv, NEW n \in Nodes, PoolTask(n) PROVE RelayInv'
<1>1. PICK x \in pool[n] :
        /\ pool' = [pool EXCEPT ![n] = @ \ {x}]
        /\ local_txns' = [local_txns EXCEPT ![n] = update_txns_block_num(n, contents[x.id], x.id)]
        /\ UNCHANGED <<chain, contents, expired, strand, recv, progress, app, disp, wire, got>>
  BY Zenon DEF PoolTask
<1>2. ChainOk' /\ Grows
  BY <1>1, SameChain, ZenonT(40)
<1>3. x.id \in Made'
  BY <1>2 DEF RelayInv, PoolOk, Imported, Grows
<1>4. TxnsOk' /\ GotOk'
  <2> DEFINE ts == contents[x.id]
             b == x.id
  <2>1. \A t \in ts : b # 0 => t \in expired' \cup chain'[n].refused \cup contents'[b]
    BY <1>1
  <2>2. local_txns' = [local_txns EXCEPT ![n] = update_txns_block_num(n, ts, b)] /\ b \in {0} \cup Made' /\ got' = got
    BY <1>1, <1>3
  <2> HIDE DEF ts, b
  <2> QED BY <1>2, <2>1, <2>2, TxnsNumbered, ZenonT(40)
<1>5. PoolOk'
  BY <1>1, <1>2, QueuesKept, ZenonT(40) DEF RelayInv, PoolOk
<1> QED BY <1>1, <1>2, <1>4, <1>5, Frame, ZenonT(40) DEF RelayInv

LEMMA ExpireKeeps == ASSUME RelayInv, NEW n \in Nodes, expire(n) PROVE RelayInv'
<1>1. /\ local_txns' = [local_txns EXCEPT ![n] = @ \ Forgotten(n)]
      /\ UNCHANGED <<chain, contents, expired, strand, recv, progress, app, disp, pool, wire, got>>
  BY DEF expire, queues
<1>2. ChainOk' /\ Grows
  BY <1>1, SameChain
<1>3. TxnsOk'
  BY <1>1, <1>2, QueuesKept, ZenonT(40) DEF RelayInv, TxnsOk
<1>4. ASSUME NEW e \in Forgotten(n) PROVE Settled(n, e.id)'
  <2>1. e \in Entries(n) /\ (e.id \in expired \/ e.block_num \in 1 .. lib(n))
    BY DEF Forgotten, RelayInv, TxnsOk
  <2>2. Settled(n, e.id)
    BY <2>1 DEF Entries, Settled
  <2> QED BY <1>2, <2>2, SettledStays, SMTT(30) DEF RelayInv
<1>5. ASSUME NEW m \in Nodes, NEW e \in local_txns[m]
      PROVE  (\E d \in local_txns'[m] : d.id = e.id /\ d.con = e.con) \/ Settled(m, e.id)'
  BY <1>1, <1>4, SMTT(30) DEF RelayInv, TxnsOk
<1>6. GotOk'
  BY <1>1, <1>2, <1>5, GotKept, SMTT(30)
<1> QED BY <1>1, <1>2, <1>3, <1>6, Frame, SMTT(30) DEF RelayInv

LEMMA ExpirationKeeps == ASSUME RelayInv, NEW t \in Trxs, PassExpiration(t) PROVE RelayInv'
<1>1. /\ expired' = expired \cup {t}
      /\ UNCHANGED <<chain, contents, local_txns, strand, recv, progress, app, disp, pool, wire, got>>
  BY DEF PassExpiration, dispatcher, queues
<1>2. ChainOk'
  BY <1>1 DEF RelayInv, ChainOk
<1>3. Grows
  BY <1>1 DEF RelayInv, ChainOk, Grows, Made
<1> QED BY <1>1, <1>2, <1>3, Frame, SMTT(30) DEF RelayInv

LEMMA RelayStepInv == RelayInv /\ [Next]_vars => RelayInv'
<1> SUFFICES ASSUME RelayInv, [Next]_vars PROVE RelayInv'
  OBVIOUS
<1>1. CASE UNCHANGED vars
  <2>1. UNCHANGED <<chain, contents, expired, local_txns, strand, recv, progress, app, disp, pool, wire, got>>
    BY <1>1 DEF vars, dispatcher, queues
  <2>2. ChainOk' /\ Grows
    BY <2>1, SameChain
  <2> QED BY <2>1, <2>2, Frame, SMTT(30) DEF RelayInv
<1>2. ASSUME NEW t \in Trxs, PushTransaction(t) \/ PassExpiration(t) PROVE RelayInv'
  BY <1>2, PushKeeps, ExpirationKeeps, Zenon
<1>3. ASSUME NEW n \in Nodes, MainThread(n) \/ Dispatcher(n) \/ PoolTask(n) \/ expire(n) PROVE RelayInv'
  BY <1>3, AcceptKeeps, ProcessBlockKeeps, BcastKeeps, RejectedKeeps, BcastBlockKeeps, PoolKeeps, ExpireKeeps,
     ZenonT(40)
     DEF MainThread, Dispatcher
<1>4. ASSUME NEW c \in Links, Strand(c) \/ Reader(c) PROVE RelayInv'
  BY <1>4, SendKeeps, AddPeerKeeps, RecvTrxKeeps, RecvBlockKeeps, ZenonT(40) DEF Strand, Reader
<1> QED BY <1>1, <1>2, <1>3, <1>4, ProduceKeeps, ZenonT(40) DEF Next

\* trx_in_progress_size of a connection counts exactly its transactions that
\* wait for the main thread, for any nodes, links and number of blocks: the
\* callback of accept_transaction subtracts what handle_message added.
THEOREM ProgressAlwaysPosted == Spec => []ProgressIsPosted
<1>1. RelayInv => ProgressIsPosted
  BY DEF RelayInv, CountOk, ProgressIsPosted, Waiting
<1> QED BY <1>1, RelayInitInv, RelayStepInv, PTL DEF Spec

\* No connection is sent a transaction the node has noted as received from it,
\* unless the transaction has expired, was refused or is irreversible, in any
\* network and for any interleaving of the strands: an entry of local_txns that
\* is forgotten is always settled.
THEOREM AlwaysNeverEchoed == Spec => NeverEchoed
<1> DEFINE A == \A c \in got : strand'[c[1]] = Append(strand[c[1]], Trx(c[2])) => Settled(c[1][1], c[2])
<1>1. RelayInv /\ [Next]_vars => A
  <2> SUFFICES ASSUME RelayInv, [Next]_vars, NEW g \in got, strand'[g[1]] = Append(strand[g[1]], Trx(g[2]))
               PROVE  Settled(g[1][1], g[2])
    BY SMTT(30)
  <2> DEFINE d == g[1]
  <2>1. /\ d \in Links /\ d = <<d[1], d[2]>> /\ d[1] \in Nodes /\ strand[d] \in Seq(OnStrand)
        /\ peer_has_txn(d[1], g[2], d[2]) \/ Settled(d[1], g[2])
    BY LinkEnds DEF RelayInv, GotOk, StrandOk
  <2>a. strand'[d] = Append(strand[d], Trx(g[2]))
    BY SMTT(30)
  <2> HIDE DEF d
  <2>b. /\ Len(strand[d]) \in Nat /\ Len(strand'[d]) = Len(strand[d]) + 1
        /\ strand'[d][Len(strand[d]) + 1] = Trx(g[2])
    <3> DEFINE S == OnStrand \cup {Trx(g[2])}
    <3>1. strand[d] \in Seq(S) /\ Trx(g[2]) \in S
      BY <2>1, SeqMonotonic, ZenonT(40)
    <3> HIDE DEF S
    <3> QED BY <2>a, <3>1, AppendProperties, LenProperties, SMTT(30)
  <2>2. strand'[d] # strand[d]
    BY <2>b, SMTT(30)
  <2>3. ASSUME NEW x \in OnStrand, strand'[d] = Append(strand[d], x) PROVE x.kind = "trx" /\ x.id = g[2]
    <3>1. strand'[d][Len(strand[d]) + 1] = x
      BY <2>1, <2>3, AppendProperties, SMTT(30)
    <3> QED BY <2>b, <3>1, SMTT(30) DEF Trx
  <2>4. ASSUME NEW n \in Nodes, process_signed_block(n) PROVE FALSE
    <3> DEFINE x == app[n][NextBlock(n)]
               y == [kind |-> "seen", id |-> x.id]
    <3>1. /\ \E i \in 1 .. Len(app[n]) : app[n][i].kind = "block"
          /\ strand' = strand \/ strand' = [strand EXCEPT ![<<n, x.from>>] = Append(@, y)]
      BY <2>4, Zenon DEF process_signed_block
    <3>2. app[n] \in Seq(Tasks(n)) /\ NextBlock(n) \in 1 .. Len(app[n]) /\ x.kind = "block"
      BY <3>1, NextBlockIs, ZenonT(40) DEF RelayInv, AppOk
    <3>3. x \in Tasks(n)
      BY <3>2, ElementOfSeq, ZenonT(40)
    <3> HIDE DEF x
    <3>4. y \in OnStrand
      BY <3>2, <3>3, SMTT(30) DEF Tasks, OnStrand
    <3> HIDE DEF y
    <3>5. strand'[d] = Append(strand[d], y)
      BY <2>1, <2>2, <3>1, ZenonT(40) DEF RelayInv, StrandOk
    <3>6. y.kind = "trx"
      BY <2>3, <3>4, <3>5
    <3> QED BY <3>6 DEF y
  <2>5. ASSUME NEW n \in Nodes, bcast_transaction(n) PROVE Settled(d[1], g[2])
    <3>1. /\ disp[n] # <<>> /\ Head(disp[n]) \in Posted(n) /\ Head(disp[n]).kind = "ack"
      BY <2>5, TailIs DEF bcast_transaction, RelayInv, DispOk
    <3>2. PICK p \in Head(disp[n]).todo :
            strand' = IF peer_has_txn(n, Head(disp[n]).id, p) THEN strand
                      ELSE [strand EXCEPT ![<<n, p>>] = Append(@, Trx(Head(disp[n]).id))]
      BY <2>5, ZenonT(40) DEF bcast_transaction
    <3>3. Head(disp[n]).id \in Trxs
      BY <3>1 DEF Posted
    <3>4. /\ ~peer_has_txn(n, Head(disp[n]).id, p) /\ d = <<n, p>>
          /\ strand'[d] = Append(strand[d], Trx(Head(disp[n]).id))
      BY <2>1, <2>2, <3>2, ZenonT(40) DEF RelayInv, StrandOk
    <3>5. g[2] = Head(disp[n]).id
      BY <2>3, <3>3, <3>4 DEF Trx, OnStrand, OnWire
    <3> QED BY <2>1, <3>4, <3>5, ZenonT(40)
  <2>6. ASSUME NEW n \in Nodes, bcast_block(n) PROVE FALSE
    <3>1. /\ Head(disp[n]) \in Posted(n) /\ Head(disp[n]).kind = "block"
          /\ strand' = [c \in Links |-> IF c[1] = n THEN Append(strand[c], Head(disp[n])) ELSE strand[c]]
      BY <2>6, TailIs DEF bcast_block, RelayInv, DispOk
    <3>2. Head(disp[n]) \in OnStrand
      BY <3>1, ZenonT(40) DEF Posted, OnStrand, OnWire
    <3>3. strand'[d] = IF d[1] = n THEN Append(strand[d], Head(disp[n])) ELSE strand[d]
      BY <2>1, <3>1, Zenon
    <3>4. strand'[d] = Append(strand[d], Head(disp[n]))
      BY <2>2, <3>3, ZenonT(40)
    <3> QED BY <2>3, <3>1, <3>2, <3>4, ZenonT(40)
  <2>7. ASSUME NEW c \in Links, SendTransaction(c) \/ SendBlock(c) \/ NoteBlock(c) PROVE FALSE
    <3>1. strand[c] # <<>> /\ strand' = [strand EXCEPT ![c] = Tail(@)]
      BY <2>7, ZenonT(40) DEF SendTransaction, SendBlock, NoteBlock
    <3>2. strand[c] \in Seq(OnStrand) /\ Len(strand[c]) \in Nat /\ Len(Tail(strand[c])) = Len(strand[c]) - 1
      BY <3>1, HeadTailProperties, LenProperties, SMTT(30) DEF RelayInv, StrandOk
    <3>3. strand'[d] = Tail(strand[c]) /\ d = c
      BY <2>1, <3>1 DEF RelayInv, StrandOk
    <3> QED BY <2>b, <3>2, <3>3
  <2>8. ASSUME NEW t \in Trxs, PushTransaction(t) \/ PassExpiration(t) PROVE FALSE
    BY <2>2, <2>8, Zenon DEF PushTransaction, PassExpiration, queues
  <2>9. ASSUME NEW n \in Nodes, accept_transaction(n) \/ rejected_transaction(n) \/ PoolTask(n) \/ expire(n) PROVE FALSE
    BY <2>2, <2>9, ZenonT(40) DEF accept_transaction, rejected_transaction, PoolTask, expire, queues
  <2>10. ASSUME NEW c \in Links, AddPeerTxn(c) \/ RecvTransaction(c) \/ RecvBlock(c) PROVE FALSE
    BY <2>2, <2>10, ZenonT(40) DEF AddPeerTxn, RecvTransaction, RecvBlock
  <2>11. ~Produce /\ ~UNCHANGED vars
    BY <2>2, SMTT(30) DEF Produce, vars, queues
  <2> QED BY <2>4, <2>5, <2>6, <2>7, <2>8, <2>9, <2>10, <2>11, ZenonT(40)
          DEF Next, MainThread, Dispatcher, Strand, Reader, d
<1>2. RelayInv /\ [Next]_vars => [A]_vars
  BY <1>1
<1> QED BY <1>2, RelayInitInv, RelayStepInv, PTL DEF Spec, NeverEchoed

=============================================================================
