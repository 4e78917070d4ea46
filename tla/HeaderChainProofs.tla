-------------------------- MODULE HeaderChainProofs --------------------------
(***************************************************************************)
(* What block_header_state promises along one branch, for every set of     *)
(* producers, every sequence of schedules, and any slots missed.           *)
(***************************************************************************)
EXTENDS HeaderChain, FiniteSetTheorems, WellFoundedInduction, TLAPS
-----------------------------------------------------------------------------
(* Numbers *)

\* A set of natural numbers that is not empty has a least element.
LEMMA LeastExists ==
  ASSUME NEW T \in SUBSET Nat, T # {}
  PROVE  \E x \in T : \A y \in T : x <= y
<1> DEFINE R == OpToRel(<, Nat)
<1>1. IsWellFoundedOn(R, Nat)
  BY NatLessThanWellFounded, Zenon
<1> HIDE DEF R
<1>2. PICK x \in T : \A y \in T : ~(<<y, x>> \in R)
  BY <1>1, WFMin, Zenon
<1>3. \A y \in T : ~(y < x)
  BY <1>2, Zenon DEF R, OpToRel
<1> QED BY <1>3

\* A bounded one has a greatest element, and Max is that.
LEMMA MaxIsGreatest ==
  ASSUME NEW T \in SUBSET Nat, T # {}, NEW b \in Nat, \A x \in T : x <= b
  PROVE  Max(T) \in T /\ \A y \in T : y <= Max(T)
<1> DEFINE U == {b - x : x \in T}
<1>1. U \in SUBSET Nat /\ U # {}
  <2>1. \A x \in T : b - x \in Nat
    OBVIOUS
  <2>2. PICK x \in T : TRUE
    BY Zenon
  <2>3. b - x \in U
    OBVIOUS
  <2> QED BY <2>1, <2>3
<1>2. PICK u \in U : \A y \in U : u <= y
  BY <1>1, LeastExists, Zenon
<1>3. PICK x \in T : u = b - x
  OBVIOUS
<1>4. ASSUME NEW y \in T PROVE x >= y
  <2>1. b - y \in U
    OBVIOUS
  <2>2. u <= b - y
    BY <1>2, <2>1
  <2> QED BY <1>3, <2>2
<1>5. \E z \in T : \A y \in T : z >= y
  BY <1>4
<1>6. Max(T) \in T /\ \A y \in T : Max(T) >= y
  BY <1>5, Zenon DEF Max
<1> QED BY <1>6

\* The slots of a round belong to the producers of the schedule.
LEMMA SlotIndex ==
  ASSUME NEW slot \in Nat, NEW n \in Nat \ {0}, NEW r \in Nat \ {0}
  PROVE  ((slot % (n * r)) \div r) + 1 \in 1 .. n
<1> DEFINE x == slot % (n * r)
           q == x \div r
<1>1. n * r \in Nat \ {0}
  OBVIOUS
<1>2. x \in 0 .. (n * r) - 1
  BY <1>1
<1> HIDE DEF x
<1>3. q \in Nat /\ q * r <= x
  BY <1>2
<1> HIDE DEF q
<1>4. q < n
  <2>1. SUFFICES ASSUME q >= n PROVE FALSE
    BY <1>3
  <2>2. q * r >= n * r
    BY <1>3, <2>1
  <2> QED BY <1>1, <1>2, <1>3, <2>2
<1> QED BY <1>3, <1>4 DEF q, x
-----------------------------------------------------------------------------
(* The element at index (size - 1) / 3 *)

\* nth_element finds one.
LEMMA NthElement ==
  ASSUME NEW f, IsFiniteSet(DOMAIN f), DOMAIN f # {}, NEW b \in Nat,
         \A p \in DOMAIN f : f[p] \in 0 .. b
  PROVE  LET v == nth_element(f)
             index == (Cardinality(DOMAIN f) - 1) \div 3
         IN  /\ \E p \in DOMAIN f : v = f[p]
             /\ Cardinality({p \in DOMAIN f : f[p] < v}) <= index
             /\ Cardinality({p \in DOMAIN f : f[p] <= v}) > index
<1> DEFINE P == DOMAIN f
           V == {f[p] : p \in P}
           index == (Cardinality(P) - 1) \div 3
           below(v) == {p \in P : f[p] < v}
           upto(v) == {p \in P : f[p] <= v}
<1>1. Cardinality(P) \in Nat /\ Cardinality(P) # 0
  BY FS_CardinalityType, FS_EmptySet
<1>2. index \in Nat /\ index < Cardinality(P)
  BY <1>1
<1>3. V \in SUBSET Nat /\ V # {} /\ \A v \in V : v <= b
  OBVIOUS
<1> DEFINE T == {v \in V : Cardinality(upto(v)) > index}
<1> HIDE DEF index
<1>4. T # {}
  <2>1. Max(V) \in V /\ \A v \in V : v <= Max(V)
    BY <1>3, MaxIsGreatest, Zenon
  <2>2. upto(Max(V)) = P
    BY <2>1, Zenon
  <2> QED BY <1>2, <2>1, <2>2, Zenon
<1>5. T \in SUBSET Nat
  BY <1>3
<1>6. PICK v \in T : \A w \in T : v <= w
  BY <1>4, <1>5, LeastExists, Zenon
<1>7. Cardinality(below(v)) <= index
  <2>1. CASE below(v) = {}
    BY <1>2, <2>1, FS_EmptySet
  <2>2. CASE below(v) # {}
    <3> DEFINE W == {w \in V : w < v}
    <3>1. W \in SUBSET Nat /\ W # {} /\ \A w \in W : w <= b
      BY <1>3, <2>2
    <3>2. Max(W) \in W /\ \A w \in W : w <= Max(W)
      BY <3>1, MaxIsGreatest, Zenon
    <3>3. below(v) = upto(Max(W))
      <4>1. v \in Nat /\ Max(W) \in Nat /\ Max(W) < v
        BY <1>5, <1>6, <3>1, <3>2
      <4>2. ASSUME NEW p \in P PROVE f[p] < v <=> f[p] <= Max(W)
        <5>1. f[p] \in V /\ f[p] \in Nat
          OBVIOUS
        <5>2. f[p] < v => f[p] <= Max(W)
          BY <3>2, <5>1
        <5>3. f[p] <= Max(W) => f[p] < v
          BY <4>1, <5>1
        <5> QED BY <5>2, <5>3
      <4> QED BY <4>2
    <3>4. Max(W) \in V /\ Max(W) < v /\ Max(W) \in Nat /\ v \in Nat
      BY <1>5, <1>6, <3>1, <3>2
    <3>5. Max(W) \notin T
      BY <1>6, <3>4
    <3>6. ~(Cardinality(upto(Max(W))) > index)
      BY <3>4, <3>5, Zenon
    <3>7. Cardinality(upto(Max(W))) \in Nat
      BY FS_Subset, FS_CardinalityType, Zenon
    <3>8. Cardinality(below(v)) = Cardinality(upto(Max(W)))
      BY <3>3, Zenon
    <3> HIDE DEF below, upto, W
    <3> QED BY <1>2, <3>6, <3>7, <3>8
  <2> QED BY <2>1, <2>2
<1>8. \E w \in V : Cardinality(below(w)) <= index /\ Cardinality(upto(w)) > index
  BY <1>6, <1>7, Zenon
<1>9. nth_element(f) = CHOOSE w \in V : Cardinality(below(w)) <= index /\ Cardinality(upto(w)) > index
  BY DEF nth_element, index
<1> DEFINE u == CHOOSE w \in V : Cardinality(below(w)) <= index /\ Cardinality(upto(w)) > index
<1>10. u \in V /\ Cardinality(below(u)) <= index /\ Cardinality(upto(u)) > index
  BY <1>8, Zenon
<1> HIDE DEF u
<1>11. nth_element(f) = u
  BY <1>9 DEF u
<1> QED BY <1>10, <1>11 DEF index

\* It is not below v when at most index elements are.
LEMMA NthNotBelow ==
  ASSUME NEW f, IsFiniteSet(DOMAIN f), DOMAIN f # {}, NEW b \in Nat,
         \A p \in DOMAIN f : f[p] \in 0 .. b,
         NEW S, NEW v \in Nat, \A p \in DOMAIN f : f[p] < v => p \in S, IsFiniteSet(S),
         Cardinality(S) <= (Cardinality(DOMAIN f) - 1) \div 3
  PROVE  nth_element(f) >= v
<1> DEFINE w == nth_element(f)
           index == (Cardinality(DOMAIN f) - 1) \div 3
           upto == {p \in DOMAIN f : f[p] <= w}
<1>1. (\E p \in DOMAIN f : w = f[p]) /\ Cardinality(upto) > index
  BY NthElement, Zenon
<1>2. w \in Nat
  BY <1>1
<1> HIDE DEF w
<1>3. SUFFICES ASSUME w < v PROVE FALSE
  BY <1>2 DEF w
<1>4. upto \subseteq S
  BY <1>2, <1>3
<1>5. Cardinality(upto) <= Cardinality(S) /\ Cardinality(upto) \in Nat /\ Cardinality(S) \in Nat
  BY <1>4, FS_Subset, FS_CardinalityType
<1>6. Cardinality(DOMAIN f) \in Nat
  BY FS_CardinalityType
<1> QED BY <1>1, <1>5, <1>6
-----------------------------------------------------------------------------
(* The invariant *)

All == Schedules \cup {InitialSchedule}
Quorum(S) == ((Len(S) * 2) \div 3) + 1

HeaderTypes ==
  /\ h.num \in Nat \ {0} /\ h.slot \in Nat /\ h.irb \in Nat /\ h.proposed_irb \in Nat
  /\ h.confirm_count \in Seq(Int)
  /\ h.active \in [version : Nat, producers : All \ {<< >>}]
  /\ h.pending \in [version : Nat, producers : All \cup {<< >>}, lib_num : Nat]
  /\ made \in Seq([producer : Producers, confirmed : Nat]) /\ Len(made) = h.num - 1
  /\ proposed \in [block_num : Nat, producers : Schedules \cup {<< >>}, version : Nat]
  /\ proposed # None => proposed.producers # << >>

\* The maps are those of the active producers; the first block fills them.
Maps ==
  /\ \A p \in DOMAIN h.last_produced : h.last_produced[p] \in 0 .. h.num
  /\ \A p \in DOMAIN h.implied_irb : h.implied_irb[p] \in 0 .. h.proposed_irb
  /\ h.num = 1 =>
       /\ DOMAIN h.implied_irb = {} /\ h.irb = 0
       /\ h.pending.producers # << >> /\ h.pending.lib_num = 0 /\ proposed = None
  /\ h.num > 1 =>
       /\ DOMAIN h.implied_irb = Members(h.active.producers)
       /\ Members(h.active.producers) \subseteq DOMAIN h.last_produced

Behind ==
  h.irb <= h.proposed_irb /\ h.proposed_irb + Len(h.confirm_count) <= h.num /\ Len(h.confirm_count) < h.num

\* What a producer has signed is at most its entry in last_produced.  When it
\* lost the entry, the schedule that may bring it back became pending later.
Remembered ==
  \A m \in 2 .. h.num :
    IF ProducerOf(m) \in DOMAIN h.last_produced THEN m <= h.last_produced[ProducerOf(m)]
    ELSE h.pending.producers # << >> => m < h.pending.lib_num

Versions ==
  /\ versionOK = TRUE
  /\ proposed # None =>
       proposed.version = (IF h.pending.producers = << >> THEN h.active.version ELSE h.pending.version) + 1

\* A tracked block lacks no more confirmations than confirm_count says.
Counted ==
  /\ \A i \in 1 .. Len(h.confirm_count) :
       \E S \in All : h.confirm_count[i] + Cardinality(Confirmers(h.num - Len(h.confirm_count) + i)) >= Quorum(S)
  /\ h.proposed_irb > 1 => \E S \in All : Cardinality(Confirmers(h.proposed_irb)) >= Quorum(S)

ChainInv == HeaderTypes /\ Maps /\ Behind /\ Remembered /\ Versions /\ Counted /\ NoDoubleConfirm
-----------------------------------------------------------------------------
(* The parts of the next header *)

\* Every schedule lists producers.
LEMMA SchedulesAreSequences ==
  \A S \in All : S \in Seq(Producers) /\ Len(S) \in Nat /\ Members(S) \subseteq Producers
<1> SUFFICES ASSUME NEW S \in All PROVE S \in Seq(Producers) /\ Members(S) \subseteq Producers
  OBVIOUS
<1>1. S \in Seq(Producers)
  BY ChainBounds DEF All
<1> QED BY <1>1 DEF Members

\* The producer of a slot is one of the active schedule.
LEMMA Scheduled ==
  ASSUME HeaderTypes, NEW slot \in Nat
  PROVE  /\ get_scheduled_producer(h, slot) \in Members(h.active.producers)
         /\ get_scheduled_producer(h, slot) \in Producers
<1> DEFINE S == h.active.producers
           k == ((slot % (Len(S) * ProducerRepetitions)) \div ProducerRepetitions) + 1
<1>1. S \in All /\ S # << >>
  BY DEF HeaderTypes
<1>2. S \in Seq(Producers) /\ Members(S) \subseteq Producers
  BY <1>1, SchedulesAreSequences
<1> HIDE DEF S
<1>3. Len(S) \in Nat \ {0}
  BY <1>1, <1>2
<1>4. k \in 1 .. Len(S)
  BY <1>3, HeaderAssumption, SlotIndex
<1> HIDE DEF k
<1>5. S[k] \in Members(S)
  BY <1>4 DEF Members
<1>6. get_scheduled_producer(h, slot) = S[k]
  BY DEF get_scheduled_producer, S, k
<1> QED BY <1>2, <1>5, <1>6 DEF S

\* A schedule has finitely many members.
LEMMA MembersFinite ==
  ASSUME NEW S \in All
  PROVE  IsFiniteSet(Members(S)) /\ (S # << >> => Members(S) # {})
<1>1. S \in Seq(Producers) /\ Members(S) \subseteq Producers
  BY SchedulesAreSequences
<1>2. IsFiniteSet(Members(S))
  BY <1>1, HeaderAssumption, FS_Subset
<1>3. S # << >> => Members(S) # {}
  <2>1. S # << >> => 1 \in 1 .. Len(S)
    BY <1>1
  <2> QED BY <2>1 DEF Members
<1> QED BY <1>2, <1>3

\* The new irreversible block was proposed before.
LEMMA IrbProposed ==
  ASSUME HeaderTypes, Maps, NEW p
  PROVE  /\ calc_dpos_last_irreversible(h, p) \in 0 .. h.proposed_irb
         /\ h.num = 1 => calc_dpos_last_irreversible(h, p) = 0
<1> DEFINE P == DOMAIN h.implied_irb
           f == [q \in P |-> IF q = p THEN h.proposed_irb ELSE h.implied_irb[q]]
<1>1. h.proposed_irb \in Nat
  BY DEF HeaderTypes
<1>2. CASE P = {}
  BY <1>1, <1>2 DEF calc_dpos_last_irreversible
<1>3. CASE P # {}
  <2>1. IsFiniteSet(P) /\ h.num # 1
    <3>1. h.num # 1 /\ h.num > 1
      BY <1>3 DEF Maps, HeaderTypes
    <3>2. P = Members(h.active.producers) /\ h.active.producers \in All
      BY <3>1 DEF Maps, HeaderTypes
    <3> QED BY <3>1, <3>2, MembersFinite
  <2>2. DOMAIN f = P /\ \A q \in P : f[q] \in 0 .. h.proposed_irb
    BY <1>1 DEF Maps
  <2>3. calc_dpos_last_irreversible(h, p) = nth_element(f)
    BY <1>3 DEF calc_dpos_last_irreversible
  <2> HIDE DEF f, P
  <2>4. \E q \in P : nth_element(f) = f[q]
    BY <1>1, <1>3, <2>1, <2>2, NthElement, Zenon
  <2> QED BY <2>1, <2>2, <2>3, <2>4
<1> QED BY <1>2, <1>3

\* The blocks that are tracked, and where they stand.
LEMMA TrackedBlocks ==
  ASSUME HeaderTypes, Behind
  PROVE  LET c == Tracked(h)
             n == Len(h.confirm_count)
             d == n + 1 - Len(c)
         IN  /\ c \in Seq(Int) /\ Len(c) \in 1 .. n + 1 /\ n \in Nat /\ d \in 0 .. n
             /\ c[Len(c)] = Quorum(h.active.producers)
             /\ \A i \in 1 .. Len(c) - 1 : i + d \in 1 .. n /\ c[i] = h.confirm_count[i + d]
<1> DEFINE cc == h.confirm_count
           n == Len(cc)
           q == required_confs(h)
<1>1. cc \in Seq(Int) /\ n \in Nat /\ q \in Int /\ q = Quorum(h.active.producers)
  <2>1. Len(h.active.producers) \in Nat
    BY SchedulesAreSequences DEF HeaderTypes
  <2> QED BY <2>1, SMTT(30) DEF HeaderTypes, required_confs, Quorum
<1>2. MaxTracked \in Nat \ {0}
  BY HeaderAssumption
<1> HIDE DEF cc, q
<1>3. CASE n < MaxTracked
  <2>1. Tracked(h) = Append(cc, q)
    BY <1>3 DEF Tracked, cc, q, n
  <2> QED BY <1>1, <2>1 DEF cc
<1>4. CASE ~(n < MaxTracked)
  <2>1. Tracked(h) = Append(Tail(cc), q)
    BY <1>4 DEF Tracked, cc, q, n
  <2>2. cc # << >> /\ Tail(cc) \in Seq(Int) /\ Len(Tail(cc)) = n - 1 /\ n > 0
        /\ \A i \in 1 .. n - 1 : Tail(cc)[i] = cc[i + 1]
    BY <1>1, <1>2, <1>4
  <2> DEFINE c == Append(Tail(cc), q)
  <2>3. /\ c \in Seq(Int) /\ Len(c) = n /\ c[n] = q
        /\ \A i \in 1 .. n - 1 : c[i] = cc[i + 1]
    BY <1>1, <2>2
  <2> HIDE DEF c
  <2>4. Tracked(h) = c
    BY <2>1 DEF c
  <2>5. n + 1 - Len(c) = 1
    BY <1>1, <2>3
  <2>6. \A i \in 1 .. n - 1 : i + 1 \in 1 .. n
    BY <1>1
  <2> QED BY <1>1, <2>2, <2>3, <2>4, <2>5, <2>6, SMTT(30) DEF cc
<1> QED BY <1>3, <1>4

\* What the confirmations of a new block leave: low is the position of the block
\* that needs no more of them, 0 if there is none.
LEMMA Confirmed ==
  ASSUME HeaderTypes, Behind, NEW confirmed \in Nat
  PROVE  LET c == Tracked(h)
             cc == next_confirm_count(h, confirmed)
             pr == next_proposed(h, confirmed)
         IN  \E low \in 0 .. Len(c) :
               /\ cc \in Seq(Int) /\ Len(cc) = Len(c) - low
               /\ \A j \in 1 .. Len(c) - low :
                    cc[j] = IF low + j >= Len(c) - confirmed THEN c[low + j] - 1 ELSE c[low + j]
               /\ low = 0 => pr = h.proposed_irb
               /\ low > 0 => pr = h.num + 1 - (Len(c) - low) /\ c[low] = 1 /\ low >= Len(c) - confirmed
               /\ pr \in Nat /\ pr >= h.proposed_irb
               /\ pr + Len(cc) <= h.num + 1 /\ Len(cc) < h.num + 1
<1> DEFINE c == Tracked(h)
           n == Len(c)
           Z == Completed(c, confirmed)
           low == IF Z = {} THEN 0 ELSE Max(Z)
           cc == next_confirm_count(h, confirmed)
           pr == next_proposed(h, confirmed)
           k == Len(h.confirm_count)
<1>1. c \in Seq(Int) /\ n \in 1 .. k + 1 /\ k \in Nat
  BY TrackedBlocks
<1>2. h.num \in Nat /\ h.proposed_irb \in Nat /\ h.proposed_irb + k <= h.num /\ k < h.num
  BY DEF HeaderTypes, Behind
<1>3. cc = [j \in 1 .. n - low |-> IF low + j >= n - confirmed THEN c[low + j] - 1 ELSE c[low + j]]
  BY DEF next_confirm_count
<1>4. pr = IF Z = {} THEN h.proposed_irb ELSE h.num + 1 - (n - Max(Z))
  BY DEF next_proposed
<1> HIDE DEF c, n, cc, pr, k
<1>5. Z \in SUBSET Nat /\ \A i \in Z : i \in 1 .. n /\ i >= n - confirmed /\ c[i] = 1
  BY <1>1 DEF Completed, n
<1>6. Z # {} => Max(Z) \in Z
  <2>1. n \in Nat /\ \A i \in Z : i <= n
    BY <1>1, <1>5
  <2> QED BY <1>5, <2>1, MaxIsGreatest, Zenon
<1> HIDE DEF Z
<1>7. low \in 0 .. n /\ (low > 0 => low >= n - confirmed /\ c[low] = 1)
  <2>1. CASE Z = {}
    <3>1. low = 0
      BY <2>1
    <3> QED BY <1>1, <3>1
  <2>2. CASE Z # {}
    <3>1. low = Max(Z) /\ low \in Z
      BY <1>6, <2>2
    <3> HIDE DEF low
    <3>2. low \in 1 .. n /\ low >= n - confirmed /\ c[low] = 1
      BY <1>5, <3>1
    <3> QED BY <1>1, <3>2
  <2> QED BY <2>1, <2>2
<1>8. (low = 0 => pr = h.proposed_irb) /\ (low > 0 => pr = h.num + 1 - (n - low))
  <2>1. low = 0 <=> Z = {}
    BY <1>5, <1>6
  <2>2. Z # {} => low = Max(Z)
    OBVIOUS
  <2> HIDE DEF low
  <2> QED BY <1>4, <1>7, <2>1, <2>2
<1> HIDE DEF low
<1>9. cc \in Seq(Int) /\ Len(cc) = n - low
  <2>1. n - low \in Nat
    BY <1>1, <1>7
  <2>2. \A j \in 1 .. n - low : low + j \in 1 .. n
    BY <1>1, <1>7
  <2>3. \A i \in 1 .. n : c[i] \in Int
    BY <1>1 DEF n
  <2>4. cc \in [1 .. n - low -> Int]
    BY <1>3, <2>2, <2>3
  <2> QED BY <2>1, <2>4
<1>10. pr \in Nat /\ pr >= h.proposed_irb /\ pr + Len(cc) <= h.num + 1 /\ Len(cc) < h.num + 1
  BY <1>1, <1>2, <1>7, <1>8, <1>9, SMTT(30)
<1>11. \A j \in 1 .. n - low : cc[j] = IF low + j >= n - confirmed THEN c[low + j] - 1 ELSE c[low + j]
  BY <1>3
<1> QED BY <1>7, <1>8, <1>9, <1>10, <1>11, Zenon DEF n, cc, c, pr
-----------------------------------------------------------------------------
(* The next block *)

\* The producer of the new block confirms nothing that it confirmed before.
LEMMA NeverTwice ==
  ASSUME ChainInv, NEW slot \in Nat, NEW confirmed \in Nat, NEW S, NextBlock(slot, confirmed, S)
  PROVE  \A m \in 2 .. h.num :
           ProducerOf(m) = get_scheduled_producer(h, slot) => m < h.num + 1 - confirmed
<1> SUFFICES ASSUME NEW m \in 2 .. h.num, ProducerOf(m) = get_scheduled_producer(h, slot)
             PROVE  m < h.num + 1 - confirmed
  OBVIOUS
<1> DEFINE p == get_scheduled_producer(h, slot)
<1>1. h.num \in Nat /\ h.num > 1
  BY SMTT(30) DEF ChainInv, HeaderTypes
<1>2. p \in DOMAIN h.last_produced
  BY <1>1, Scheduled, Zenon DEF ChainInv, Maps
<1>3. h.last_produced[p] < h.num + 1 - confirmed
  BY <1>2 DEF NextBlock, CanNext
<1>4. m <= h.last_produced[p] /\ h.last_produced[p] \in Nat
  BY <1>1, <1>2, SMTT(30) DEF ChainInv, Remembered, Maps
<1> QED BY <1>1, <1>3, <1>4

\* The block is recorded, and the earlier records stay.
LEMMA Recorded ==
  ASSUME ChainInv, NEW slot \in Nat, NEW confirmed \in Nat, NEW S, NextBlock(slot, confirmed, S)
  PROVE  /\ made' \in Seq([producer : Producers, confirmed : Nat]) /\ h'.num = h.num + 1
         /\ Len(made') = h.num /\ h.num \in Nat \ {0}
         /\ made'[h.num] = [producer |-> get_scheduled_producer(h, slot), confirmed |-> confirmed]
         /\ \A m \in 2 .. h.num : made'[m - 1] = made[m - 1] /\ made[m - 1] \in [producer : Producers, confirmed : Nat]
<1> DEFINE e == [producer |-> get_scheduled_producer(h, slot), confirmed |-> confirmed]
<1>1. e \in [producer : Producers, confirmed : Nat]
  BY Scheduled DEF ChainInv
<1>2. made' = Append(made, e) /\ h'.num = h.num + 1
  BY DEF NextBlock, next
<1>3. made \in Seq([producer : Producers, confirmed : Nat]) /\ Len(made) = h.num - 1 /\ h.num \in Nat \ {0}
  BY DEF ChainInv, HeaderTypes
<1> HIDE DEF e
<1>4. \A m \in 2 .. h.num : m - 1 \in 1 .. Len(made)
  BY <1>3
<1>5. \A i \in 1 .. Len(made) : made'[i] = made[i] /\ made[i] \in [producer : Producers, confirmed : Nat]
  <2>1. \A i \in 1 .. Len(made) : Append(made, e)[i] = made[i]
    BY <1>1, <1>3
  <2>2. \A i \in 1 .. Len(made) : made[i] \in [producer : Producers, confirmed : Nat]
    <3> DEFINE R == [producer : Producers, confirmed : Nat]
    <3>1. made \in Seq(R)
      BY <1>3
    <3> HIDE DEF R
    <3>2. \A i \in 1 .. Len(made) : made[i] \in R
      BY <3>1
    <3> QED BY <3>2 DEF R
  <2> QED BY <1>2, <2>1, <2>2, Zenon
<1>6. made' \in Seq([producer : Producers, confirmed : Nat]) /\ Len(made') = h.num /\ made'[h.num] = e
  BY <1>1, <1>2, <1>3
<1> QED BY <1>2, <1>3, <1>4, <1>5, <1>6 DEF e

\* It adds its producer to those who confirm the blocks it confirms.
LEMMA ConfirmersAfter ==
  ASSUME ChainInv, NEW slot \in Nat, NEW confirmed \in Nat, NEW S, NextBlock(slot, confirmed, S),
         NEW k \in 2 .. h.num + 1
  PROVE  /\ Cardinality(Confirmers(k)) \in Nat
         /\ Cardinality(Confirmers(k)') =
              Cardinality(Confirmers(k)) + (IF k >= h.num + 1 - confirmed THEN 1 ELSE 0)
         /\ k = h.num + 1 => Cardinality(Confirmers(k)) = 0
<1>0. PICK n : n = h.num
  OBVIOUS
<1>1. PICK p : p = get_scheduled_producer(h, slot)
  OBVIOUS
<1> DEFINE C == Confirmers(k)
           M == {m \in k .. n : k \in ConfirmedBy(m)}
           M2 == {m \in k .. n + 1 : k \in ConfirmedBy(m)'}
<1>2. n \in Nat \ {0} /\ h'.num = n + 1 /\ p \in Producers
  BY <1>0, <1>1, Recorded, Scheduled, Zenon DEF ChainInv
<1>3. \A m \in 2 .. n : ProducerOf(m)' = ProducerOf(m) /\ ConfirmedBy(m)' = ConfirmedBy(m) /\ ProducerOf(m) \in Producers
  BY <1>0, Recorded, Zenon DEF ProducerOf, ConfirmedBy
<1>4. ProducerOf(n + 1)' = p /\ ConfirmedBy(n + 1)' = (n + 1) - confirmed .. n + 1
  <2>1. (n + 1) - 1 = n
    BY <1>2
  <2>2. made'[n] = [producer |-> p, confirmed |-> confirmed]
    BY <1>0, <1>1, Recorded
  <2> QED BY <2>1, <2>2 DEF ProducerOf, ConfirmedBy
<1>5. C = {ProducerOf(m) : m \in M}
  BY <1>0 DEF Confirmers
<1>6. \A m \in M : m \in 2 .. n
  BY <1>0, <1>2
<1>7. Confirmers(k)' = {ProducerOf(m)' : m \in M2}
  BY <1>2 DEF Confirmers
<1>8. IsFiniteSet(C) /\ Cardinality(C) \in Nat
  <2>1. C \subseteq Producers
    BY <1>3, <1>5, <1>6
  <2> QED BY <2>1, HeaderAssumption, FS_Subset, FS_CardinalityType
<1>9. k = n + 1 => Cardinality(C) = 0
  <2>1. k = n + 1 => M = {}
    BY <1>2
  <2> QED BY <1>5, <2>1, FS_EmptySet
<1>10. k \in 2 .. n + 1 /\ \A m \in k .. n : m \in 2 .. n
  BY <1>0, <1>2
<1>11. \A m \in k .. n : m \in M2 <=> m \in M
  <2>1. \A m \in k .. n : m \in k .. n + 1
    BY <1>2, <1>10
  <2> QED BY <1>3, <1>10, <2>1
<1>12. n + 1 \in M2 <=> k >= n + 1 - confirmed
  <2>1. n + 1 \in k .. n + 1
    BY <1>2, <1>10
  <2> QED BY <1>2, <1>4, <1>10, <2>1
<1>13. \A m \in M2 : m = n + 1 \/ m \in k .. n
  BY <1>2, <1>10
<1> HIDE DEF C, M2
<1>14. CASE k >= n + 1 - confirmed
  <2>1. p \notin C
    <3>1. SUFFICES ASSUME NEW m \in M, ProducerOf(m) = p PROVE FALSE
      BY <1>5
    <3>2. m < n + 1 - confirmed
      BY <1>0, <1>1, <1>6, <3>1, NeverTwice
    <3> QED BY <1>2, <1>10, <1>14, <3>2
  <2>2. Confirmers(k)' = C \cup {p}
    <3>1. ASSUME NEW x, x \in C PROVE x \in Confirmers(k)'
      <4>1. PICK m \in M : x = ProducerOf(m)
        BY <1>5, <3>1
      <4>2. m \in M2 /\ ProducerOf(m)' = x
        BY <1>3, <1>10, <1>11, <4>1
      <4> QED BY <1>7, <4>2
    <3>2. p \in Confirmers(k)'
      BY <1>4, <1>7, <1>12, <1>14
    <3>3. ASSUME NEW x, x \in Confirmers(k)' PROVE x \in C \cup {p}
      <4>1. PICK m \in M2 : x = ProducerOf(m)'
        BY <1>7, <3>3
      <4>2. CASE m = n + 1
        BY <1>4, <4>1, <4>2
      <4>3. CASE m \in k .. n
        BY <1>3, <1>5, <1>10, <1>11, <4>1, <4>3
      <4> QED BY <1>13, <4>2, <4>3
    <3> QED BY <3>1, <3>2, <3>3
  <2>3. Cardinality(C \cup {p}) = Cardinality(C) + 1
    BY <1>8, <2>1, FS_AddElement, Zenon
  <2> QED BY <1>0, <1>8, <1>9, <1>14, <2>2, <2>3 DEF C
<1>15. CASE ~(k >= n + 1 - confirmed)
  <2>1. Confirmers(k)' = C
    <3>1. ASSUME NEW x, x \in C PROVE x \in Confirmers(k)'
      <4>1. PICK m \in M : x = ProducerOf(m)
        BY <1>5, <3>1
      <4>2. m \in M2 /\ ProducerOf(m)' = x
        BY <1>3, <1>10, <1>11, <4>1
      <4> QED BY <1>7, <4>2
    <3>2. ASSUME NEW x, x \in Confirmers(k)' PROVE x \in C
      <4>1. PICK m \in M2 : x = ProducerOf(m)'
        BY <1>7, <3>2
      <4>2. m \in k .. n
        BY <1>12, <1>13, <1>15, <4>1
      <4> QED BY <1>3, <1>5, <1>10, <1>11, <4>1, <4>2
    <3> QED BY <3>1, <3>2
  <2>2. Cardinality(C) = Cardinality(C) + 0
    BY <1>8, SMTT(30)
  <2> QED BY <1>0, <1>8, <1>9, <1>15, <2>1, <2>2 DEF C
<1> QED BY <1>14, <1>15

\* The schedules: one that is promoted leaves the pending place, and nothing is
\* proposed for that place while it is taken.
LEMMA SchedulesAfter ==
  ASSUME ChainInv, NEW slot \in Nat, NEW confirmed \in Nat, NEW S \in Schedules \cup {<< >>},
         NextBlock(slot, confirmed, S)
  PROVE  LET irb == calc_dpos_last_irreversible(h, get_scheduled_producer(h, slot))
         IN  /\ h'.active \in [version : Nat, producers : All \ {<< >>}]
             /\ h'.pending \in [version : Nat, producers : All \cup {<< >>}, lib_num : Nat]
             /\ proposed' \in [block_num : Nat, producers : Schedules \cup {<< >>}, version : Nat]
             /\ proposed' # None => proposed'.producers # << >>
             /\ Versions'
             /\ Promotes(h, irb) =>
                  h'.active.producers = h.pending.producers /\ h'.pending.producers = << >>
             /\ ~Promotes(h, irb) =>
                  /\ h'.active = h.active
                  /\ h'.pending = h.pending \/ h'.pending.lib_num = h.num + 1
<1> DEFINE irb == calc_dpos_last_irreversible(h, get_scheduled_producer(h, slot))
           a == h.active
           b == h.pending
           promotes == PromotesProposal(slot)
           new == IF promotes THEN proposed.producers ELSE << >>
           rest == IF promotes THEN None ELSE proposed
           pend == IF promotes THEN proposed ELSE b
           P == Promotes(h, irb)
<1>1. /\ a \in [version : Nat, producers : All \ {<< >>}]
      /\ b \in [version : Nat, producers : All \cup {<< >>}, lib_num : Nat]
      /\ proposed \in [block_num : Nat, producers : Schedules \cup {<< >>}, version : Nat]
      /\ proposed # None => proposed.producers # << >>
      /\ versionOK = TRUE /\ h.num \in Nat
  BY DEF ChainInv, HeaderTypes, Versions
<1>2. proposed # None => proposed.version = (IF b.producers = << >> THEN a.version ELSE b.version) + 1
  BY DEF ChainInv, Versions
<1>3. /\ h'.active = IF P THEN [version |-> b.version, producers |-> b.producers] ELSE a
      /\ h'.pending = IF new # << >> THEN [version |-> a.version + 1, producers |-> new, lib_num |-> h.num + 1]
                      ELSE IF P THEN [b EXCEPT !.producers = << >>] ELSE b
      /\ proposed' = IF S = << >> THEN rest ELSE set_proposed_producers(rest, pend, S)
      /\ versionOK' = (versionOK /\ (promotes => proposed.version = a.version + 1))
  BY DEF NextBlock, next, next_active, next_pending
<1>4. promotes => proposed # None /\ b.producers = << >>
  BY DEF PromotesProposal
<1>5. P => b.producers # << >>
  BY DEF Promotes
<1>6. proposed' = rest \/ (S # << >> /\ proposed' =
        [block_num |-> h.num + 1, producers |-> S,
         version |-> (IF pend.producers = << >> THEN a ELSE pend).version + 1])
  BY <1>3 DEF set_proposed_producers
<1>7. None = [block_num |-> 0, producers |-> << >>, version |-> 0]
  BY DEF None
<1> HIDE DEF a, b, promotes, P
<1>8. CASE promotes
  <2>1. /\ ~P /\ new = proposed.producers /\ new # << >> /\ new \in All
        /\ proposed.version = a.version + 1 /\ rest = None /\ pend = proposed
    BY <1>1, <1>2, <1>4, <1>5, <1>8 DEF All
  <2>2. h'.active = a /\ h'.pending = [version |-> a.version + 1, producers |-> new, lib_num |-> h.num + 1] /\ versionOK' = TRUE
    BY <1>1, <1>3, <1>8, <2>1, Zenon
  <2>3. proposed' = None \/ (S # << >> /\ proposed' =
          [block_num |-> h.num + 1, producers |-> S, version |-> (a.version + 1) + 1])
    BY <1>1, <1>6, <2>1
  <2> HIDE DEF new, rest, pend
  <2>4. /\ h'.pending \in [version : Nat, producers : All \cup {<< >>}, lib_num : Nat]
        /\ h'.pending.version = a.version + 1 /\ h'.pending.producers # << >> /\ h'.pending.lib_num = h.num + 1
    BY <1>1, <2>1, <2>2, SMTT(30)
  <2>5. /\ proposed' \in [block_num : Nat, producers : Schedules \cup {<< >>}, version : Nat]
        /\ proposed' # None => proposed'.producers # << >> /\ proposed'.version = (a.version + 1) + 1
    BY <1>1, <1>7, <2>3, SMTT(30)
  <2>6. Versions'
    BY <2>2, <2>4, <2>5 DEF Versions, None
  <2> QED BY <1>1, <2>1, <2>2, <2>4, <2>5, <2>6 DEF a, P
<1>9. CASE ~promotes
  <2> DEFINE E == (IF b.producers = << >> THEN a.version ELSE b.version)
  <2>1. new = << >> /\ rest = proposed /\ pend = b
    BY <1>9
  <2>2. proposed' = proposed \/ (S # << >> /\ proposed' =
          [block_num |-> h.num + 1, producers |-> S, version |-> E + 1])
    BY <1>1, <1>6, <2>1
  <2>3. h'.pending = IF P THEN [b EXCEPT !.producers = << >>] ELSE b
    BY <1>3, <2>1
  <2> HIDE DEF new, rest, pend
  <2>4. E \in Nat
    BY <1>1
  <2>5. /\ proposed' \in [block_num : Nat, producers : Schedules \cup {<< >>}, version : Nat]
        /\ proposed' # None => proposed'.producers # << >> /\ proposed'.version = E + 1
    <3> HIDE DEF E
    <3>1. proposed # None => proposed.version = E + 1
      BY <1>2 DEF E
    <3> QED BY <1>1, <1>7, <2>2, <2>4, <3>1, SMTT(30)
  <2>6. CASE P
    <3>1. /\ h'.active = [version |-> b.version, producers |-> b.producers] /\ b.producers # << >>
          /\ h'.pending = [b EXCEPT !.producers = << >>]
      BY <1>3, <1>5, <2>3, <2>6
    <3>2. /\ h'.pending \in [version : Nat, producers : All \cup {<< >>}, lib_num : Nat]
          /\ h'.pending.producers = << >>
      BY <1>1, <3>1
    <3>3. h'.active.version = E /\ h'.active.producers = b.producers
      BY <3>1
    <3>4. Versions'
      <4> HIDE DEF E
      <4> QED BY <1>1, <1>3, <1>9, <2>5, <3>2, <3>3, Zenon DEF Versions, None
    <3>5. h'.active \in [version : Nat, producers : All \ {<< >>}]
      BY <1>1, <3>1
    <3> QED BY <2>5, <2>6, <3>2, <3>3, <3>4, <3>5 DEF P, b
  <2>7. CASE ~P
    <3>1. h'.active = a /\ h'.pending = b
      BY <1>3, <2>3, <2>7
    <3>2. Versions'
      BY <1>1, <1>3, <1>9, <2>5, <3>1, ZenonT(40) DEF Versions, None
    <3> QED BY <1>1, <2>5, <2>7, <3>1, <3>2 DEF P, a, b
  <2> QED BY <2>6, <2>7
<1> QED BY <1>8, <1>9

\* The two maps of next(), and which producers a promotion leaves in the second.
LEMMA NextMaps ==
  ASSUME NEW slot, NEW confirmed, NEW S, NextBlock(slot, confirmed, S),
         NEW p, NEW irb, p = get_scheduled_producer(h, slot), irb = calc_dpos_last_irreversible(h, p)
  PROVE  /\ h'.last_produced = next_last_produced(h, p, irb)
         /\ h'.implied_irb = IF ~Promotes(h, irb) THEN Assign(h.implied_irb, p, h.proposed_irb)
                             ELSE IF p \in Members(h.pending.producers)
                                  THEN Assign(Carried(h.implied_irb, h.pending.producers, irb), p, h.proposed_irb)
                             ELSE Carried(h.implied_irb, h.pending.producers, irb)
<1>1. h'.last_produced = next_last_produced(h, p, irb) /\ h'.implied_irb = next_implied_irb(h, p, irb)
  BY DEF NextBlock, next
<1>2. DOMAIN Carried(h.implied_irb, h.pending.producers, irb) = Members(h.pending.producers)
  BY SMTT(30) DEF Carried
<1> QED BY <1>1, <1>2, ZenonT(40) DEF next_implied_irb

\* The maps: the block's producer is entered, and a promotion keeps exactly the
\* entries of the new producers.
LEMMA MapsAfter ==
  ASSUME ChainInv, NEW slot \in Nat, NEW confirmed \in Nat, NEW S \in Schedules \cup {<< >>},
         NextBlock(slot, confirmed, S)
  PROVE  LET p   == get_scheduled_producer(h, slot)
             irb == calc_dpos_last_irreversible(h, p)
             lp  == h'.last_produced
         IN  /\ Maps'
             /\ p \in DOMAIN lp /\ lp[p] = h.num + 1
             /\ ~Promotes(h, irb) =>
                  \A q : q # p => /\ q \in DOMAIN lp <=> q \in DOMAIN h.last_produced
                                  /\ q \in DOMAIN lp => lp[q] = h.last_produced[q]
             /\ Promotes(h, irb) =>
                  \A q : q # p /\ q \in DOMAIN lp =>
                    lp[q] = IF q \in DOMAIN h.last_produced THEN h.last_produced[q] ELSE irb
<1>1. PICK p : p = get_scheduled_producer(h, slot)
  OBVIOUS
<1>2. PICK irb : irb = calc_dpos_last_irreversible(h, p)
  OBVIOUS
<1>3. PICK lp, im, pr : lp = h.last_produced /\ im = h.implied_irb /\ pr = h.proposed_irb
  OBVIOUS
<1>4. PICK n, P : n = h.num /\ P = Promotes(h, irb)
  OBVIOUS
<1>5. PICK A, B : A = Members(h.active.producers) /\ B = Members(h.pending.producers)
  OBVIOUS
<1>6. /\ n \in Nat \ {0} /\ pr \in Nat /\ irb \in 0 .. pr /\ pr <= n /\ p \in A
      /\ \A q \in DOMAIN lp : lp[q] \in 0 .. n
      /\ \A q \in DOMAIN im : im[q] \in 0 .. pr
      /\ n > 1 => DOMAIN im = A /\ A \subseteq DOMAIN lp
      /\ n = 1 => DOMAIN im = {} /\ P
  <2>1. n \in Nat \ {0} /\ pr \in Nat /\ h.pending.lib_num \in Nat
    BY <1>3, <1>4 DEF ChainInv, HeaderTypes
  <2>2. irb \in 0 .. pr /\ (n = 1 => irb = 0)
    BY <1>2, <1>3, <1>4, IrbProposed, SMTT(30) DEF ChainInv
  <2>3. pr <= n
    BY <1>3, <1>4, <2>1, SMTT(30) DEF ChainInv, Behind, HeaderTypes
  <2>4. p \in A
    BY <1>1, <1>5, Scheduled DEF ChainInv
  <2>5. /\ \A q \in DOMAIN lp : lp[q] \in 0 .. n
        /\ \A q \in DOMAIN im : im[q] \in 0 .. pr
        /\ n > 1 => DOMAIN im = A /\ A \subseteq DOMAIN lp
        /\ n = 1 => DOMAIN im = {} /\ h.pending.producers # << >> /\ h.pending.lib_num = 0
    BY <1>3, <1>4, <1>5 DEF ChainInv, Maps
  <2>6. n = 1 => P
    <3>1. n = 1 => Promotes(h, irb)
      BY <2>1, <2>2, <2>5 DEF Promotes
    <3> QED BY <1>4, <3>1
  <2> QED BY <2>1, <2>2, <2>3, <2>4, <2>5, <2>6, SMTT(30)
<1>7. /\ h'.num = n + 1 /\ h'.proposed_irb \in Nat /\ h'.proposed_irb >= pr /\ n + 1 > 1
  <2>1. h'.proposed_irb = next_proposed(h, confirmed) /\ h'.num = n + 1
    BY <1>4 DEF NextBlock, next
  <2>2. next_proposed(h, confirmed) \in Nat /\ next_proposed(h, confirmed) >= pr
    BY <1>3, Confirmed DEF ChainInv
  <2> QED BY <1>6, <2>1, <2>2, SMTT(30)
<1>8. h'.last_produced = Assign(IF P THEN Carried(lp, h.pending.producers, irb) ELSE lp, p, n + 1)
  BY <1>1, <1>2, <1>3, <1>4, NextMaps, ZenonT(40) DEF next_last_produced
<1>9. h'.implied_irb = IF ~P THEN Assign(im, p, pr)
                       ELSE IF p \in B THEN Assign(Carried(im, h.pending.producers, irb), p, pr)
                       ELSE Carried(im, h.pending.producers, irb)
  BY <1>1, <1>2, <1>3, <1>4, <1>5, NextMaps, ZenonT(40)
<1>10. Members(h'.active.producers) = IF P THEN B ELSE A
  BY <1>1, <1>2, <1>4, <1>5, SchedulesAfter, SMTT(30)
<1> DEFINE cl == [q \in B |-> IF q \in DOMAIN lp THEN lp[q] ELSE irb]
           ci == [q \in B |-> IF q \in DOMAIN im THEN im[q] ELSE irb]
<1>11. Carried(lp, h.pending.producers, irb) = cl /\ Carried(im, h.pending.producers, irb) = ci
  BY <1>5, SMTT(30) DEF Carried
<1>12. CASE P
  <2>1. h'.last_produced = Assign(cl, p, n + 1)
    BY <1>8, <1>11, <1>12
  <2>2. h'.implied_irb = IF p \in B THEN Assign(ci, p, pr) ELSE ci
    BY <1>9, <1>11, <1>12, SMTT(30)
  <2>3. /\ DOMAIN h'.last_produced = B \cup {p} /\ h'.last_produced[p] = n + 1
        /\ \A q \in B : q # p => h'.last_produced[q] = IF q \in DOMAIN lp THEN lp[q] ELSE irb
    BY <2>1 DEF Assign
  <2>4. /\ DOMAIN h'.implied_irb = B
        /\ \A q \in B : h'.implied_irb[q] = IF q = p THEN pr ELSE IF q \in DOMAIN im THEN im[q] ELSE irb
    <3>1. CASE p \in B
      BY <2>2, <3>1 DEF Assign
    <3>2. CASE p \notin B
      BY <2>2, <3>2
    <3> QED BY <3>1, <3>2
  <2>5. \A q \in DOMAIN h'.implied_irb : h'.implied_irb[q] \in 0 .. h'.proposed_irb
    BY <1>6, <1>7, <2>4
  <2>6. \A q \in DOMAIN h'.last_produced : h'.last_produced[q] \in 0 .. n + 1
    BY <1>6, <2>3, SMTT(30)
  <2>7. Maps'
    BY <1>7, <1>6, <1>10, <1>12, <2>3, <2>4, <2>5, <2>6, SMTT(30) DEF Maps
  <2> QED BY <1>1, <1>2, <1>3, <1>4, <1>12, <2>3, <2>7, SMTT(30)
<1>13. CASE ~P
  <2>1. h'.last_produced = Assign(lp, p, n + 1) /\ h'.implied_irb = Assign(im, p, pr)
    BY <1>8, <1>9, <1>13, SMTT(30)
  <2>2. /\ DOMAIN h'.last_produced = DOMAIN lp \cup {p} /\ h'.last_produced[p] = n + 1
        /\ \A q \in DOMAIN lp : q # p => h'.last_produced[q] = lp[q]
    BY <2>1 DEF Assign
  <2>3. /\ DOMAIN h'.implied_irb = A /\ A \subseteq DOMAIN lp
        /\ \A q \in A : h'.implied_irb[q] = IF q = p THEN pr ELSE im[q]
    <3>1. n > 1 /\ DOMAIN im = A /\ A \subseteq DOMAIN lp
      BY <1>6, <1>13
    <3> QED BY <1>6, <2>1, <3>1 DEF Assign
  <2>5. \A q \in DOMAIN h'.implied_irb : h'.implied_irb[q] \in 0 .. h'.proposed_irb
    <3>1. DOMAIN im = A
      BY <1>6, <1>13
    <3> QED BY <1>6, <1>7, <2>3, <3>1, SMTT(30)
  <2>6. \A q \in DOMAIN h'.last_produced : h'.last_produced[q] \in 0 .. n + 1
    BY <1>6, <2>2
  <2>7. Maps'
    BY <1>7, <1>6, <1>10, <1>13, <2>2, <2>3, <2>5, <2>6, SMTT(30) DEF Maps
  <2> QED BY <1>1, <1>2, <1>3, <1>4, <1>13, <2>2, <2>7, SMTT(30)
<1> QED BY <1>4, <1>12, <1>13 DEF Promotes

\* The memory of what was signed survives a change of schedule.
LEMMA RememberedAfter ==
  ASSUME ChainInv, NEW slot \in Nat, NEW confirmed \in Nat, NEW S \in Schedules \cup {<< >>},
         NextBlock(slot, confirmed, S)
  PROVE  Remembered'
<1>1. PICK p : p = get_scheduled_producer(h, slot)
  OBVIOUS
<1>2. PICK irb : irb = calc_dpos_last_irreversible(h, p)
  OBVIOUS
<1>3. PICK lp, lq : lp = h.last_produced /\ lq = h'.last_produced
  OBVIOUS
<1>4. PICK n, b : n = h.num /\ b = h.pending
  OBVIOUS
<1>5. /\ n \in Nat \ {0} /\ irb \in Nat /\ b.lib_num \in Nat /\ h'.num = n + 1
      /\ \A q \in DOMAIN lp : lp[q] \in 0 .. n
  <2>1. irb \in Nat
    BY <1>2, IrbProposed, SMTT(30) DEF ChainInv, HeaderTypes
  <2> QED BY <1>3, <1>4, <2>1, Recorded, ZenonT(40) DEF ChainInv, HeaderTypes, Maps
<1>6. /\ p \in DOMAIN lq /\ lq[p] = n + 1
      /\ ~Promotes(h, irb) =>
           \A q : q # p => /\ q \in DOMAIN lq <=> q \in DOMAIN lp
                           /\ q \in DOMAIN lq => lq[q] = lp[q]
      /\ Promotes(h, irb) =>
           \A q : q # p /\ q \in DOMAIN lq => lq[q] = IF q \in DOMAIN lp THEN lp[q] ELSE irb
  BY <1>1, <1>2, <1>3, <1>4, MapsAfter, SMTT(30)
<1>7. /\ Promotes(h, irb) => h'.pending.producers = << >>
      /\ ~Promotes(h, irb) => h'.pending = b \/ h'.pending.lib_num = n + 1
  BY <1>1, <1>2, <1>4, SchedulesAfter
<1>8. Promotes(h, irb) => b.producers # << >> /\ irb >= b.lib_num
  BY <1>4 DEF Promotes
<1>9. SUFFICES ASSUME NEW m \in 2 .. n + 1
               PROVE  IF ProducerOf(m)' \in DOMAIN lq THEN m <= lq[ProducerOf(m)']
                      ELSE h'.pending.producers # << >> => m < h'.pending.lib_num
  BY <1>3, <1>5, SMTT(30) DEF Remembered
<1>10. CASE m = n + 1
  <2>1. m - 1 = n
    BY <1>5, <1>10
  <2>2. ProducerOf(m)' = made'[n].producer
    BY <2>1 DEF ProducerOf
  <2>3. made'[n] = [producer |-> p, confirmed |-> confirmed]
    BY <1>1, <1>4, Recorded, SMTT(30)
  <2>4. ProducerOf(m)' = p
    BY <2>2, <2>3, SMTT(30)
  <2> QED BY <1>5, <1>6, <1>10, <2>4
<1>11. CASE m # n + 1
  <2>1. m \in 2 .. n
    BY <1>5, <1>11
  <2>2. PICK q : q = ProducerOf(m)
    OBVIOUS
  <2>3. ProducerOf(m)' = q
    BY <1>4, <2>1, <2>2, Recorded, ZenonT(40) DEF ProducerOf
  <2>4. IF q \in DOMAIN lp THEN m <= lp[q] ELSE b.producers # << >> => m < b.lib_num
    BY <1>3, <1>4, <2>1, <2>2, SMTT(30) DEF ChainInv, Remembered
  <2>5. CASE q = p
    BY <1>5, <1>6, <2>1, <2>3, <2>5, SMTT(30)
  <2>6. CASE q # p /\ Promotes(h, irb)
    <3>1. q \in DOMAIN lq => lq[q] = IF q \in DOMAIN lp THEN lp[q] ELSE irb
      BY <1>6, <2>6
    <3> QED BY <1>5, <1>7, <1>8, <2>1, <2>3, <2>4, <2>6, <3>1, SMTT(30)
  <2>7. CASE q # p /\ ~Promotes(h, irb)
    <3>1. (q \in DOMAIN lq <=> q \in DOMAIN lp) /\ (q \in DOMAIN lq => lq[q] = lp[q])
      BY <1>6, <2>7
    <3> QED BY <1>5, <1>7, <2>1, <2>3, <2>4, <2>7, <3>1, SMTT(30)
  <2> QED BY <2>5, <2>6, <2>7
<1> QED BY <1>10, <1>11, SMTT(30)

\* Nobody confirms a block twice.
LEMMA NoDoubleAfter ==
  ASSUME ChainInv, NEW slot \in Nat, NEW confirmed \in Nat, NEW S \in Schedules \cup {<< >>},
         NextBlock(slot, confirmed, S)
  PROVE  NoDoubleConfirm'
<1>0. PICK n : n = h.num
  OBVIOUS
<1>1. PICK p : p = get_scheduled_producer(h, slot)
  OBVIOUS
<1>2. n \in Nat \ {0} /\ h'.num = n + 1
  BY <1>0, Recorded, Zenon
<1>3. \A m \in 2 .. n : /\ ProducerOf(m)' = ProducerOf(m)
                        /\ ConfirmedBy(m)' = ConfirmedBy(m) /\ ConfirmedBy(m) \subseteq Int
                        /\ \A k \in ConfirmedBy(m) : k <= m
  <2> SUFFICES ASSUME NEW m \in 2 .. n
               PROVE  /\ ProducerOf(m)' = ProducerOf(m)
                      /\ ConfirmedBy(m)' = ConfirmedBy(m) /\ ConfirmedBy(m) \subseteq Int
                      /\ \A k \in ConfirmedBy(m) : k <= m
    OBVIOUS
  <2>1. made'[m - 1] = made[m - 1] /\ made[m - 1] \in [producer : Producers, confirmed : Nat]
    BY <1>0, Recorded, Zenon
  <2>2. ProducerOf(m)' = ProducerOf(m) /\ ConfirmedBy(m)' = ConfirmedBy(m)
    BY <2>1 DEF ProducerOf, ConfirmedBy
  <2>3. ConfirmedBy(m) = m - made[m - 1].confirmed .. m /\ made[m - 1].confirmed \in Nat
    BY <2>1 DEF ConfirmedBy
  <2> QED BY <2>2, <2>3
<1>4. ProducerOf(n + 1)' = p /\ ConfirmedBy(n + 1)' = (n + 1) - confirmed .. n + 1
  <2>1. (n + 1) - 1 = n
    BY <1>2, SMTT(30)
  <2>2. made'[n] = [producer |-> p, confirmed |-> confirmed]
    BY <1>0, <1>1, Recorded
  <2> QED BY <2>1, <2>2 DEF ProducerOf, ConfirmedBy
<1>5. SUFFICES ASSUME NEW m1 \in 2 .. n + 1, NEW m2 \in 2 .. n + 1, m1 < m2, ProducerOf(m1)' = ProducerOf(m2)'
               PROVE  ConfirmedBy(m1)' \cap ConfirmedBy(m2)' = {}
  BY <1>2 DEF NoDoubleConfirm
<1>6. m1 \in 2 .. n
  BY <1>2, <1>5
<1>7. CASE m2 = n + 1
  <2>1. ProducerOf(m1) = p
    BY <1>3, <1>4, <1>5, <1>6, <1>7
  <2>2. m1 < n + 1 - confirmed
    BY <1>0, <1>1, <1>6, <2>1, NeverTwice, SMTT(30)
  <2> QED BY <1>2, <1>3, <1>4, <1>6, <1>7, <2>2
<1>8. CASE m2 # n + 1
  <2>1. m2 \in 2 .. n
    BY <1>2, <1>8
  <2>2. ConfirmedBy(m1) \cap ConfirmedBy(m2) = {}
    BY <1>0, <1>3, <1>5, <1>6, <2>1 DEF ChainInv, NoDoubleConfirm
  <2> QED BY <1>3, <1>6, <2>1, <2>2
<1> QED BY <1>7, <1>8

\* Whoever confirms lowers the count by one and joins the confirmers.
LEMMA CountedAfter ==
  ASSUME ChainInv, NEW slot \in Nat, NEW confirmed \in Nat, NEW S \in Schedules \cup {<< >>},
         NextBlock(slot, confirmed, S)
  PROVE  Counted'
<1>0. PICK n, oc, c : n = h.num /\ oc = h.confirm_count /\ c = Tracked(h)
  OBVIOUS
<1>1. PICK L, d : L = Len(c) /\ d = Len(oc) + 1 - Len(c)
  BY Zenon
<1>2. PICK cc, pr, opr : cc = h'.confirm_count /\ pr = h'.proposed_irb /\ opr = h.proposed_irb
  OBVIOUS
<1>3. /\ n \in Nat \ {0} /\ h'.num = n + 1 /\ opr \in Nat
      /\ opr + Len(oc) <= n /\ Len(oc) < n
  BY <1>0, <1>2, Recorded, ZenonT(40) DEF ChainInv, HeaderTypes, Behind
<1>4. /\ c \in Seq(Int) /\ L \in 1 .. Len(oc) + 1 /\ Len(oc) \in Nat /\ d \in 0 .. Len(oc)
      /\ c[L] = Quorum(h.active.producers)
      /\ \A i \in 1 .. L - 1 : i + d \in 1 .. Len(oc) /\ c[i] = oc[i + d]
  BY <1>0, <1>1, TrackedBlocks, SMTT(30) DEF ChainInv
<1>5. cc = next_confirm_count(h, confirmed) /\ pr = next_proposed(h, confirmed)
  BY <1>2 DEF NextBlock, next
<1>6. PICK low \in 0 .. L :
        /\ cc \in Seq(Int) /\ Len(cc) = L - low
        /\ \A j \in 1 .. L - low :
             cc[j] = IF low + j >= L - confirmed THEN c[low + j] - 1 ELSE c[low + j]
        /\ low = 0 => pr = opr
        /\ low > 0 => pr = n + 1 - (L - low) /\ c[low] = 1 /\ low >= L - confirmed
        /\ pr \in Nat /\ pr >= opr
        /\ pr + Len(cc) <= n + 1 /\ Len(cc) < n + 1
  <2>1. HeaderTypes /\ Behind
    BY DEF ChainInv
  <2>2. PICK low \in 0 .. Len(Tracked(h)) :
          /\ next_confirm_count(h, confirmed) \in Seq(Int)
          /\ Len(next_confirm_count(h, confirmed)) = Len(Tracked(h)) - low
          /\ \A j \in 1 .. Len(Tracked(h)) - low :
               next_confirm_count(h, confirmed)[j] =
                 IF low + j >= Len(Tracked(h)) - confirmed THEN Tracked(h)[low + j] - 1 ELSE Tracked(h)[low + j]
          /\ low = 0 => next_proposed(h, confirmed) = h.proposed_irb
          /\ low > 0 => /\ next_proposed(h, confirmed) = h.num + 1 - (Len(Tracked(h)) - low)
                        /\ Tracked(h)[low] = 1 /\ low >= Len(Tracked(h)) - confirmed
          /\ next_proposed(h, confirmed) \in Nat /\ next_proposed(h, confirmed) >= h.proposed_irb
          /\ next_proposed(h, confirmed) + Len(next_confirm_count(h, confirmed)) <= h.num + 1
          /\ Len(next_confirm_count(h, confirmed)) < h.num + 1
    BY <2>1, Confirmed, Zenon
  <2>3. c = Tracked(h) /\ L = Len(Tracked(h)) /\ cc = next_confirm_count(h, confirmed) /\ pr = next_proposed(h, confirmed)
    BY <1>0, <1>1, <1>5
  <2>4. low \in 0 .. L
    BY <2>3
  <2>5. \A j \in 1 .. L - low :
          cc[j] = IF low + j >= L - confirmed THEN c[low + j] - 1 ELSE c[low + j]
    BY <2>2, <2>3, ZenonT(40)
  <2>6. /\ cc \in Seq(Int) /\ Len(cc) = L - low
        /\ low = 0 => pr = opr
        /\ low > 0 => pr = n + 1 - (L - low) /\ c[low] = 1 /\ low >= L - confirmed
        /\ pr \in Nat /\ pr >= opr
        /\ pr + Len(cc) <= n + 1 /\ Len(cc) < n + 1
    BY <1>0, <1>2, <2>2, <2>3, SMTT(30)
  <2> QED BY <2>4, <2>5, <2>6, Zenon
<1>7. \A S2 \in All : Quorum(S2) \in Int
  BY SchedulesAreSequences DEF Quorum
<1> DEFINE blk(i) == n + 1 - L + i
<1>8. ASSUME NEW i \in 1 .. L
      PROVE  /\ blk(i) \in 2 .. n + 1 /\ c[i] \in Int
             /\ Cardinality(Confirmers(blk(i))) \in Nat
             /\ \E S2 \in All : c[i] + Cardinality(Confirmers(blk(i))) >= Quorum(S2)
  <2>1. PICK k : k = blk(i)
    OBVIOUS
  <2>2. k \in 2 .. n + 1 /\ c[i] \in Int
    BY <1>3, <1>4, <1>1, <2>1, SMTT(30)
  <2>3. /\ Cardinality(Confirmers(k)) \in Nat
        /\ k = n + 1 => Cardinality(Confirmers(k)) = 0
    BY <1>0, <2>2, ConfirmersAfter
  <2>4. CASE i = L
    <3>1. k = n + 1
      BY <1>3, <1>4, <2>1, <2>4, SMTT(30)
    <3>2. h.active.producers \in All
      BY SMTT(30) DEF ChainInv, HeaderTypes
    <3> QED BY <1>4, <1>7, <2>1, <2>2, <2>3, <2>4, <3>1, <3>2, SMTT(30)
  <2>5. CASE i # L
    <3>1. PICK j : j = i + d
      OBVIOUS
    <3>2. i \in 1 .. L - 1
      BY <1>4, <2>5
    <3>3. j \in 1 .. Len(oc) /\ c[i] = oc[j]
      BY <1>4, <3>1, <3>2, SMTT(30)
    <3>4. n - Len(oc) + j = k
      BY <1>1, <1>3, <1>4, <2>1, <3>1, SMTT(30)
    <3>5. \E S2 \in All : oc[j] + Cardinality(Confirmers(n - Len(oc) + j)) >= Quorum(S2)
      BY <1>0, <3>3 DEF ChainInv, Counted
    <3> QED BY <2>1, <2>2, <2>3, <3>3, <3>4, <3>5, SMTT(30)
  <2> QED BY <2>4, <2>5
<1>9. ASSUME NEW j \in 1 .. L - low
      PROVE  \E S2 \in All : cc[j] + Cardinality(Confirmers((n + 1) - Len(cc) + j)') >= Quorum(S2)
  <2>1. PICK i, k : i = low + j /\ k = blk(low + j)
    OBVIOUS
  <2>2. i \in 1 .. L /\ (n + 1) - Len(cc) + j = k /\ (i >= L - confirmed <=> k >= n + 1 - confirmed)
    BY <1>3, <1>4, <1>6, <2>1, SMTT(30)
  <2>3. /\ k \in 2 .. n + 1 /\ c[i] \in Int /\ Cardinality(Confirmers(k)) \in Nat
        /\ \E S2 \in All : c[i] + Cardinality(Confirmers(k)) >= Quorum(S2)
    BY <1>8, <2>1, <2>2, SMTT(30)
  <2>4. Cardinality(Confirmers(k)') = Cardinality(Confirmers(k)) + (IF k >= n + 1 - confirmed THEN 1 ELSE 0)
    BY <1>0, <2>3, ConfirmersAfter
  <2>5. cc[j] = IF i >= L - confirmed THEN c[i] - 1 ELSE c[i]
    BY <1>6, <2>1
  <2>6. cc[j] + Cardinality(Confirmers(k)') = c[i] + Cardinality(Confirmers(k))
    BY <2>2, <2>3, <2>4, <2>5, SMTT(30)
  <2> QED BY <2>2, <2>3, <2>6, SMTT(30)
<1>10. pr > 1 => \E S2 \in All : Cardinality(Confirmers(pr)') >= Quorum(S2)
  <2> SUFFICES ASSUME pr > 1 PROVE \E S2 \in All : Cardinality(Confirmers(pr)') >= Quorum(S2)
    OBVIOUS
  <2>1. CASE low = 0
    <3>1. pr = opr /\ pr \in 2 .. n + 1
      BY <1>3, <1>4, <1>6, <2>1, SMTT(30)
    <3>2. \E S2 \in All : Cardinality(Confirmers(pr)) >= Quorum(S2)
      BY <1>2, <1>3, <3>1 DEF ChainInv, Counted
    <3>3. Cardinality(Confirmers(pr)) \in Nat /\ Cardinality(Confirmers(pr)') >= Cardinality(Confirmers(pr))
      <4>1. /\ Cardinality(Confirmers(pr)) \in Nat
            /\ Cardinality(Confirmers(pr)') =
                 Cardinality(Confirmers(pr)) + (IF pr >= n + 1 - confirmed THEN 1 ELSE 0)
        BY <1>0, <3>1, ConfirmersAfter, SMTT(30)
      <4> QED BY <4>1
    <3>4. Cardinality(Confirmers(pr)') \in Int
      <4>1. /\ Cardinality(Confirmers(pr)) \in Nat
            /\ Cardinality(Confirmers(pr)') =
                 Cardinality(Confirmers(pr)) + (IF pr >= n + 1 - confirmed THEN 1 ELSE 0)
        BY <1>0, <3>1, ConfirmersAfter, SMTT(30)
      <4> QED BY <4>1
    <3> QED BY <1>7, <3>2, <3>3, <3>4
  <2>2. CASE low > 0
    <3>1. low \in 1 .. L /\ pr = blk(low) /\ c[low] = 1 /\ pr >= n + 1 - confirmed
      BY <1>3, <1>4, <1>6, <2>2, SMTT(30)
    <3>2. /\ pr \in 2 .. n + 1 /\ Cardinality(Confirmers(pr)) \in Nat
          /\ \E S2 \in All : 1 + Cardinality(Confirmers(pr)) >= Quorum(S2)
      BY <1>8, <3>1
    <3>3. Cardinality(Confirmers(pr)') = Cardinality(Confirmers(pr)) + 1
      <4>1. Cardinality(Confirmers(pr)') =
              Cardinality(Confirmers(pr)) + (IF pr >= n + 1 - confirmed THEN 1 ELSE 0)
        BY <1>0, <3>2, ConfirmersAfter
      <4> QED BY <3>1, <4>1
    <3> QED BY <3>2, <3>3
  <2> QED BY <1>6, <2>1, <2>2
<1> QED BY <1>2, <1>3, <1>6, <1>9, <1>10, Zenon DEF Counted

\* The numbers of the header.
LEMMA NumbersAfter ==
  ASSUME ChainInv, NEW slot \in Nat, NEW confirmed \in Nat, NEW S \in Schedules \cup {<< >>},
         NextBlock(slot, confirmed, S)
  PROVE  /\ h'.irb = calc_dpos_last_irreversible(h, get_scheduled_producer(h, slot))
         /\ h'.proposed_irb >= h.proposed_irb /\ HeaderTypes' /\ Behind'
<1>0. PICK irb : irb = calc_dpos_last_irreversible(h, get_scheduled_producer(h, slot))
  OBVIOUS
<1>1. /\ h'.irb = irb /\ h'.num = h.num + 1 /\ h'.slot = slot
      /\ h'.confirm_count = next_confirm_count(h, confirmed)
      /\ h'.proposed_irb = next_proposed(h, confirmed)
  BY <1>0, Zenon DEF NextBlock, next
<1>2. h.num \in Nat \ {0} /\ h.proposed_irb \in Nat
  BY DEF ChainInv, HeaderTypes
<1>3. irb \in 0 .. h.proposed_irb
  BY <1>0, IrbProposed, SMTT(30) DEF ChainInv
<1>4. /\ h'.confirm_count \in Seq(Int)
      /\ h'.proposed_irb \in Nat /\ h'.proposed_irb >= h.proposed_irb
      /\ h'.proposed_irb + Len(h'.confirm_count) <= h.num + 1 /\ Len(h'.confirm_count) < h.num + 1
  BY <1>1, Confirmed, SMTT(30) DEF ChainInv
<1>5. HeaderTypes'
  <2>1. /\ h'.active \in [version : Nat, producers : All \ {<< >>}]
        /\ h'.pending \in [version : Nat, producers : All \cup {<< >>}, lib_num : Nat]
        /\ proposed' \in [block_num : Nat, producers : Schedules \cup {<< >>}, version : Nat]
        /\ proposed' # None => proposed'.producers # << >>
    BY SchedulesAfter, Zenon
  <2>2. made' \in Seq([producer : Producers, confirmed : Nat]) /\ Len(made') = h'.num - 1
    <3>1. made' \in Seq([producer : Producers, confirmed : Nat]) /\ Len(made') = h.num
      BY Recorded, Zenon
    <3> QED BY <1>1, <1>2, <3>1
  <2>3. h'.num \in Nat \ {0} /\ h'.slot \in Nat /\ h'.irb \in Nat
    BY <1>1, <1>2, <1>3
  <2> QED BY <1>4, <2>1, <2>2, <2>3 DEF HeaderTypes, None, All
<1>6. Behind'
  BY <1>1, <1>2, <1>3, <1>4 DEF Behind
<1> QED BY <1>0, <1>1, <1>4, <1>5, <1>6

\* std::min of two block counts.
LEMMA MinOfTwo ==
  ASSUME NEW a \in Nat, NEW b \in Nat
  PROVE  Min({a, b}) \in Nat /\ Min({a, b}) <= a /\ Min({a, b}) <= b
<1>1. \E x \in {a, b} : \A y \in {a, b} : x <= y
  OBVIOUS
<1>2. Min({a, b}) \in {a, b} /\ \A y \in {a, b} : Min({a, b}) <= y
  BY <1>1 DEF Min
<1> QED BY <1>2

\* A producer that keeps the header rules never confirms less than nothing.
LEMMA MayConfirmSome ==
  ASSUME ChainInv, NEW slot \in Nat
  PROVE  MayConfirm(slot) \in Nat
<1> DEFINE p == get_scheduled_producer(h, slot)
           w == IF p \in DOMAIN h.last_produced THEN h.last_produced[p] ELSE h.num
<1>1. h.num \in Nat /\ h.irb \in Nat /\ h.proposed_irb \in Nat /\ h.irb <= h.num
  BY SMTT(30) DEF ChainInv, HeaderTypes, Behind
<1>2. w \in 0 .. h.num
  BY <1>1 DEF ChainInv, Maps
<1> HIDE DEF w
<1>3. h.num - w \in Nat /\ h.num - h.irb \in Nat
  BY <1>1, <1>2
<1> QED BY <1>3, MinOfTwo DEF MayConfirm, w

\* Every step makes a block whose numbers are natural numbers.
LEMMA StepIsBlock ==
  ASSUME ChainInv, Next
  PROVE  \E slot \in Nat, confirmed \in Nat, S \in Schedules \cup {<< >>} : NextBlock(slot, confirmed, S)
<1>1. PICK slot \in h.slot + 1 .. h.num + MaxMissed, S \in Schedules \cup {<< >>} :
        \E forgone \in 0 .. Min({MaxForgone, MayConfirm(slot)}) :
          NextBlock(slot, MayConfirm(slot) - forgone, S)
  BY Zenon DEF Next
<1>2. PICK forgone \in 0 .. Min({MaxForgone, MayConfirm(slot)}) :
        NextBlock(slot, MayConfirm(slot) - forgone, S)
  BY <1>1
<1>3. slot \in Nat
  BY ChainBounds, SMTT(30) DEF ChainInv, HeaderTypes
<1>4. MayConfirm(slot) \in Nat
  BY <1>3, MayConfirmSome
<1>5. Min({MaxForgone, MayConfirm(slot)}) \in Nat /\ Min({MaxForgone, MayConfirm(slot)}) <= MayConfirm(slot)
  BY <1>4, ChainBounds, MinOfTwo
<1>6. MayConfirm(slot) - forgone \in Nat
  BY <1>4, <1>5
<1> QED BY <1>2, <1>3, <1>6
-----------------------------------------------------------------------------
(* Finality *)

\* The genesis header state satisfies the invariant.
LEMMA InitChain == Init => ChainInv
<1> SUFFICES ASSUME Init PROVE ChainInv
  OBVIOUS
<1> DEFINE I == InitialSchedule
<1>0. I \in All /\ I # << >>
  BY ChainBounds, SMTT(30) DEF All
<1>1. /\ h.num = 1 /\ h.slot = 0 /\ h.irb = 0 /\ h.proposed_irb = 0
      /\ h.confirm_count = << >> /\ h.last_produced = << >> /\ h.implied_irb = << >>
      /\ h.active = [version |-> 0, producers |-> I]
      /\ h.pending = [version |-> 0, producers |-> I, lib_num |-> 0]
      /\ proposed = None /\ made = << >> /\ versionOK = TRUE
  BY SMTT(30) DEF Init, genesis_header
<1> HIDE DEF I
<1>2. HeaderTypes
  BY <1>0, <1>1, SMTT(30) DEF HeaderTypes, None
<1>3. Maps
  BY <1>0, <1>1, SMTT(30) DEF Maps
<1>4. Behind
  BY <1>1, SMTT(30) DEF Behind
<1>5. Remembered
  BY <1>1, SMTT(30) DEF Remembered
<1>6. Versions
  BY <1>1 DEF Versions
<1>7. Counted
  BY <1>1, SMTT(30) DEF Counted
<1>8. NoDoubleConfirm
  BY <1>1 DEF NoDoubleConfirm
<1> QED BY <1>2, <1>3, <1>4, <1>5, <1>6, <1>7, <1>8 DEF ChainInv

\* Every block preserves it.
LEMMA NextChain == ChainInv /\ [Next]_vars => ChainInv'
<1> SUFFICES ASSUME ChainInv, [Next]_vars PROVE ChainInv'
  OBVIOUS
<1>1. CASE Next
  <2>1. PICK slot \in Nat, confirmed \in Nat, S \in Schedules \cup {<< >>} : NextBlock(slot, confirmed, S)
    BY <1>1, StepIsBlock
  <2>2. HeaderTypes' /\ Behind'
    BY <2>1, NumbersAfter
  <2>3. Maps'
    BY <2>1, MapsAfter, Zenon
  <2>4. Remembered'
    BY <2>1, RememberedAfter, SMTT(30)
  <2>5. Versions'
    BY <2>1, SchedulesAfter
  <2>6. Counted'
    BY <2>1, CountedAfter
  <2>7. NoDoubleConfirm'
    BY <2>1, NoDoubleAfter
  <2> QED BY <2>2, <2>3, <2>4, <2>5, <2>6, <2>7 DEF ChainInv
<1>2. CASE UNCHANGED vars
  <2>1. h' = h /\ proposed' = proposed /\ made' = made /\ versionOK' = versionOK
    BY <1>2, SMTT(30) DEF vars
  <2>2. HeaderTypes'
    BY <2>1, SMTT(30) DEF ChainInv, HeaderTypes
  <2>3. Maps' /\ Behind' /\ Versions'
    BY <2>1, SMTT(30) DEF ChainInv, Maps, Behind, Versions
  <2>4. Remembered' /\ NoDoubleConfirm'
    BY <2>1, SMTT(30) DEF ChainInv, Remembered, NoDoubleConfirm, ConfirmedBy, ProducerOf
  <2>5. \A k : Confirmers(k)' = Confirmers(k)
    BY <2>1 DEF Confirmers, ConfirmedBy, ProducerOf
  <2>6. Counted'
    BY <2>1, <2>5 DEF ChainInv, Counted
  <2> QED BY <2>2, <2>3, <2>4, <2>6 DEF ChainInv
<1> QED BY <1>1, <1>2

\* It says that what is proposed is final.
LEMMA ChainFinal == ChainInv => ProposedIsFinal
<1> SUFFICES ASSUME ChainInv PROVE ProposedIsFinal
  OBVIOUS
<1>1. ProposedHasQuorum
  <2> DEFINE sizes == {Len(S) : S \in Schedules \cup {InitialSchedule}}
  <2> SUFFICES ASSUME h.proposed_irb > 1
               PROVE  \E s \in sizes : Cardinality(Confirmers(h.proposed_irb)) >= ((s * 2) \div 3) + 1
    BY DEF ProposedHasQuorum
  <2>1. PICK S \in All : Cardinality(Confirmers(h.proposed_irb)) >= Quorum(S)
    BY DEF ChainInv, Counted
  <2>2. Len(S) \in sizes
    BY SMTT(30) DEF All
  <2> QED BY <2>1, <2>2 DEF Quorum
<1>2. IrreversibleBehindHead
  BY SMTT(30) DEF ChainInv, IrreversibleBehindHead, Behind, Maps, HeaderTypes
<1>3. NoDoubleConfirm /\ ProposalVersionFits
  BY DEF ChainInv, Versions, ProposalVersionFits
<1> QED BY <1>1, <1>2, <1>3 DEF ProposedIsFinal

\* For every set of producers, all schedules that are ever proposed, and any
\* slots missed and confirmations forgone: what next() proposes as irreversible
\* has the confirmations of two thirds of a schedule, each producer counted
\* once; a proposed schedule always has the version that start_block and
\* _finish_next require; and no header is ahead of itself.
THEOREM ProposedAlwaysFinal == Spec => []ProposedIsFinal
<1>1. Init => ChainInv
  BY InitChain
<1>2. ChainInv /\ [Next]_vars => ChainInv'
  BY NextChain
<1>3. ChainInv => ProposedIsFinal
  BY ChainFinal, SMTT(30)
<1> QED BY <1>1, <1>2, <1>3, PTL DEF Spec

-----------------------------------------------------------------------------
(* Monotonicity *)

Index(P) == (Cardinality(P) - 1) \div 3

\* All the schedules have the size that gives calc_dpos_last_irreversible one index.
SameIndex == \A S, T \in All \ {<< >>} : Index(Members(S)) = Index(Members(T))

\* No more than a third of the producers still imply less than the last
\* irreversible block.
FewBehind ==
  h.num > 1 => Cardinality({q \in DOMAIN h.implied_irb : h.implied_irb[q] < h.irb}) <= Index(DOMAIN h.implied_irb)

\* The new entries of producer_to_last_implied_irb.
LEMMA ImpliedAfter ==
  ASSUME ChainInv, NEW slot \in Nat, NEW confirmed \in Nat, NEW S \in Schedules \cup {<< >>},
         NextBlock(slot, confirmed, S)
  PROVE  LET p   == get_scheduled_producer(h, slot)
             irb == calc_dpos_last_irreversible(h, p)
             im  == h'.implied_irb
         IN  /\ DOMAIN im = Members(h'.active.producers)
             /\ \A q \in DOMAIN im :
                  im[q] = IF q = p THEN h.proposed_irb
                          ELSE IF q \in DOMAIN h.implied_irb THEN h.implied_irb[q] ELSE irb
<1>1. PICK p : p = get_scheduled_producer(h, slot)
  OBVIOUS
<1>2. PICK irb : irb = calc_dpos_last_irreversible(h, p)
  OBVIOUS
<1>3. PICK im, pr, B : im = h.implied_irb /\ pr = h.proposed_irb /\ B = Members(h.pending.producers)
  BY SMTT(30)
<1>4. DOMAIN h'.implied_irb = Members(h'.active.producers)
  <2>1. h'.num > 1
    <3>1. h'.num = h.num + 1 /\ h.num \in Nat \ {0}
      BY Recorded, Zenon
    <3> QED BY <3>1
  <2> QED BY <2>1, MapsAfter DEF Maps
<1>5. h'.implied_irb = IF ~Promotes(h, irb) THEN Assign(im, p, pr)
                       ELSE IF p \in B THEN Assign(Carried(im, h.pending.producers, irb), p, pr)
                       ELSE Carried(im, h.pending.producers, irb)
  BY <1>1, <1>2, <1>3, NextMaps, ZenonT(40)
<1>6. \A q \in DOMAIN h'.implied_irb :
        h'.implied_irb[q] = IF q = p THEN pr ELSE IF q \in DOMAIN im THEN im[q] ELSE irb
  <2>1. CASE ~Promotes(h, irb)
    BY <1>5, <2>1, SMTT(30) DEF Assign
  <2>2. CASE Promotes(h, irb) /\ p \in B
    BY <1>3, <1>5, <2>2, SMTT(30) DEF Assign, Carried
  <2>3. CASE Promotes(h, irb) /\ p \notin B
    BY <1>3, <1>5, <2>3 DEF Carried
  <2> QED BY <2>1, <2>2, <2>3, Zenon
<1> QED BY <1>1, <1>2, <1>3, <1>4, <1>6

\* The irreversible block does not go back, and few stay behind it.
LEMMA IrbGrows ==
  ASSUME SameIndex, FewBehind, ChainInv,
         NEW slot \in Nat, NEW confirmed \in Nat, NEW S \in Schedules \cup {<< >>},
         NextBlock(slot, confirmed, S)
  PROVE  h'.irb >= h.irb /\ FewBehind'
<1>1. PICK p : p = get_scheduled_producer(h, slot)
  OBVIOUS
<1>2. PICK irb : irb = calc_dpos_last_irreversible(h, p)
  OBVIOUS
<1>3. PICK im, pr, v, n : im = h.implied_irb /\ pr = h.proposed_irb /\ v = h.irb /\ n = h.num
  OBVIOUS
<1>4. PICK im2 : im2 = h'.implied_irb
  OBVIOUS
<1>5. /\ h'.irb = irb /\ irb \in 0 .. pr /\ pr \in Nat /\ v \in 0 .. pr /\ n \in Nat \ {0} /\ h'.num = n + 1
      /\ n = 1 => irb = 0 /\ v = 0
  <2>1. h'.irb = irb
    BY <1>1, <1>2, NumbersAfter
  <2>2. irb \in 0 .. pr /\ (n = 1 => irb = 0)
    BY <1>2, <1>3, IrbProposed, SMTT(30) DEF ChainInv
  <2>3. pr \in Nat /\ v \in 0 .. pr /\ n \in Nat \ {0}
    BY <1>3, SMTT(30) DEF ChainInv, HeaderTypes, Behind
  <2>4. n = 1 => v = 0
    BY <1>3 DEF ChainInv, Maps
  <2>5. h'.num = n + 1
    BY <1>3, Recorded, ZenonT(40)
  <2> QED BY <2>1, <2>2, <2>3, <2>4, <2>5, SMTT(30)
<1>6. /\ DOMAIN im2 = Members(h'.active.producers)
      /\ \A q \in DOMAIN im2 : im2[q] = IF q = p THEN pr ELSE IF q \in DOMAIN im THEN im[q] ELSE irb
  BY <1>1, <1>2, <1>3, <1>4, ImpliedAfter, SMTT(30)
<1>7. /\ h'.active.producers \in All \ {<< >>}
      /\ IsFiniteSet(DOMAIN im2) /\ DOMAIN im2 # {}
  <2>1. h'.active.producers \in All \ {<< >>}
    BY SchedulesAfter
  <2> QED BY <1>6, <2>1, MembersFinite, SMTT(30)
<1> DEFINE low2 == {q \in DOMAIN im2 : im2[q] < irb}
<1>8. CASE n = 1
  <2>1. low2 = {}
    <3>1. DOMAIN im = {}
      BY <1>3, <1>8 DEF ChainInv, Maps
    <3> QED BY <1>5, <1>6, <1>8, <3>1, SMTT(30)
  <2>2. Cardinality(low2) = 0
    BY <2>1, FS_EmptySet, ZenonT(40)
  <2>3. Cardinality(DOMAIN im2) \in Nat \ {0}
    BY <1>7, FS_CardinalityType, FS_EmptySet
  <2>4. 0 <= Index(DOMAIN im2)
    BY <2>3, SMTT(30) DEF Index
  <2> QED BY <1>3, <1>4, <1>5, <1>8, <2>2, <2>4, SMTT(30) DEF FewBehind
<1>9. CASE n > 1
  <2> DEFINE P == DOMAIN im
             f == [q \in P |-> IF q = p THEN pr ELSE im[q]]
             low == {q \in P : im[q] < v}
             lowf == {q \in P : f[q] < irb}
  <2>1. P = Members(h.active.producers) /\ h.active.producers \in All \ {<< >>} /\ p \in P
    BY <1>1, <1>3, <1>9, Scheduled, ZenonT(40) DEF ChainInv, Maps, HeaderTypes
  <2>2. IsFiniteSet(P) /\ P # {}
    BY <2>1, MembersFinite, SMTT(30)
  <2>3. \A q \in P : im[q] \in 0 .. pr
    BY <1>3 DEF ChainInv, Maps
  <2>4. irb = nth_element(f)
    BY <1>2, <1>3, <2>2 DEF calc_dpos_last_irreversible
  <2>5. DOMAIN f = P /\ \A q \in DOMAIN f : f[q] \in 0 .. pr
    BY <1>5, <2>3, SMTT(30)
  <2>6. irb >= v
    <3>1. Cardinality(low) <= (Cardinality(DOMAIN f) - 1) \div 3
      BY <1>3, <1>9, <2>5, SMTT(30) DEF FewBehind, Index
    <3>2. IsFiniteSet(low)
      BY <2>2, FS_Subset
    <3>3. \A q \in DOMAIN f : f[q] < v => q \in low
      BY <1>5, <2>3
    <3>4. v \in Nat
      BY <1>5
    <3> HIDE DEF f, low, P
    <3> QED BY <1>5, <2>2, <2>4, <2>5, <3>1, <3>2, <3>3, <3>4, NthNotBelow, SMTT(30)
  <2>7. Cardinality(lowf) <= Index(P)
    <3> HIDE DEF f, P
    <3>1. Cardinality({q \in DOMAIN f : f[q] < nth_element(f)}) <= (Cardinality(DOMAIN f) - 1) \div 3
      BY <1>5, <2>2, <2>5, NthElement, ZenonT(40)
    <3> QED BY <2>4, <2>5, <3>1 DEF Index
  <2>8. low2 \subseteq lowf
    BY <1>5, <1>6, <2>3
  <2>9. /\ Cardinality(low2) <= Cardinality(lowf)
        /\ Cardinality(low2) \in Nat /\ Cardinality(lowf) \in Nat
    <3>1. IsFiniteSet(lowf)
      BY <2>2, FS_Subset, ZenonT(40)
    <3> HIDE DEF lowf, low2
    <3> QED BY <2>8, <3>1, FS_Subset, FS_CardinalityType
  <2>10. Index(DOMAIN im2) = Index(P)
    BY <1>6, <1>7, <2>1 DEF SameIndex
  <2>11. Index(P) \in Int
    BY <2>2, FS_CardinalityType DEF Index
  <2>12. Cardinality(low2) <= Index(DOMAIN im2)
    <3> HIDE DEF low2, lowf, P
    <3> QED BY <2>7, <2>9, <2>10, <2>11
  <2> QED BY <1>3, <1>4, <1>5, <2>6, <2>12 DEF FewBehind
<1> QED BY <1>5, <1>8, <1>9

\* When all schedules have sizes with one index, the last irreversible block
\* number and the proposed one never go down along a branch, whatever is
\* missed and whichever schedules replace each other.  The violation that
\* ScheduleShrinks.cfg shows is what happens without that condition.
THEOREM IrreversibleMonotone == SameIndex => (Spec => IrreversibleNeverDecreases)
<1> SUFFICES ASSUME SameIndex PROVE Spec => IrreversibleNeverDecreases
  OBVIOUS
<1> DEFINE Inv == ChainInv /\ FewBehind
           Grows == h'.irb >= h.irb /\ h'.proposed_irb >= h.proposed_irb
<1>1. Init => Inv
  <2>1. Init => FewBehind
    BY DEF Init, genesis_header, FewBehind
  <2> QED BY <2>1, InitChain, SMTT(30)
<1>2. Inv /\ [Next]_vars => Inv' /\ [Grows]_vars
  <2> SUFFICES ASSUME Inv, [Next]_vars PROVE Inv' /\ [Grows]_vars
    OBVIOUS
  <2>1. ChainInv'
    BY NextChain
  <2>2. CASE Next
    <3>1. PICK slot \in Nat, confirmed \in Nat, S \in Schedules \cup {<< >>} : NextBlock(slot, confirmed, S)
      BY <2>2, StepIsBlock
    <3>2. h'.irb >= h.irb /\ FewBehind'
      BY <3>1, IrbGrows, SMTT(30)
    <3>3. h'.proposed_irb >= h.proposed_irb
      BY <3>1, NumbersAfter, SMTT(30)
    <3> QED BY <2>1, <3>2, <3>3
  <2>3. CASE UNCHANGED vars
    BY <2>1, <2>3 DEF vars, FewBehind
  <2> QED BY <2>2, <2>3
<1> HIDE DEF Inv
<1> QED BY <1>1, <1>2, PTL DEF Spec, IrreversibleNeverDecreases
=============================================================================
