----------------------- MODULE TransactionFlowProofs -----------------------
(***************************************************************************)
(* No accepted transaction and no submitter is forgotten, for every set of *)
(* transactions and every sequence of blocks and forks.                    *)
(*                                                                         *)
(* FlowInv is the inductive invariant.  Besides SubmissionsKept and the    *)
(* types it says that an idle node has no pending transactions: start_block*)
(* and the blocks that arrive clear the pending block, and only because    *)
(* whatever ended the last one had put its transactions into the queue or  *)
(* into a block is nothing lost with it.                                   *)
(***************************************************************************)
EXTENDS TransactionFlow, FiniteSetTheorems, SequenceTheorems, TLAPS

FlowTypes ==
  /\ blocks \in Seq(SUBSET Trxs) /\ incoming \in Seq(Entry)
  /\ owed \in [Trxs -> Int]
  /\ pending \subseteq Trxs /\ (pending # {} => Building)

FlowInv == FlowTypes /\ SubmissionsKept
-----------------------------------------------------------------------------
(* Counting what waits *)

\* A queue holds one more when something is added ...
LEMMA CountAppend ==
  ASSUME NEW q \in Seq(Entry), NEW e \in Entry, NEW t
  PROVE  /\ Count(q, t) \in Nat
         /\ Count(Append(q, e), t) = Count(q, t) + (IF e.trx = t THEN 1 ELSE 0)
<1> DEFINE I == {i \in 1 .. Len(q) : q[i].trx = t}
           r == Append(q, e)
           J == {i \in 1 .. Len(r) : r[i].trx = t}
           n == Len(q)
<1>1. n \in Nat /\ IsFiniteSet(1 .. n)
  BY FS_Interval
<1>2. IsFiniteSet(I) /\ Cardinality(I) \in Nat
  BY <1>1, FS_Subset, FS_CardinalityType
<1>3. Len(r) = n + 1 /\ r[n + 1] = e /\ \A i \in 1 .. n : r[i] = q[i]
  OBVIOUS
<1>4. n + 1 \notin I
  BY <1>1
<1>5. CASE e.trx = t
  <2>1. J = I \cup {n + 1}
    BY <1>1, <1>3, <1>5
  <2>2. Cardinality(J) = Cardinality(I) + 1
    BY <1>2, <1>4, <2>1, FS_AddElement, Zenon
  <2> QED BY <1>2, <1>5, <2>2, Zenon DEF Count
<1>6. CASE e.trx # t
  <2>1. J = I
    BY <1>1, <1>3, <1>6
  <2>2. Cardinality(J) = Cardinality(I) + 0
    <3> HIDE DEF I, J
    <3> QED BY <1>2, <2>1
  <2> QED BY <1>2, <1>6, <2>2, Zenon DEF Count
<1> QED BY <1>5, <1>6

\* ... and one less when its first element is taken.
LEMMA CountTail ==
  ASSUME NEW q \in Seq(Entry), q # <<>>, NEW t
  PROVE  /\ Tail(q) \in Seq(Entry) /\ Head(q) \in Entry /\ Count(Tail(q), t) \in Nat
         /\ Count(q, t) = Count(Tail(q), t) + (IF Head(q).trx = t THEN 1 ELSE 0)
<1> DEFINE r == Tail(q)
           I == {i \in 1 .. Len(r) : r[i].trx = t}
           J == {i \in 1 .. Len(q) : q[i].trx = t}
           K == {i \in 2 .. Len(q) : q[i].trx = t}
           n == Len(r)
<1>1. /\ n \in Nat /\ Len(q) = n + 1 /\ r \in Seq(Entry) /\ Head(q) = q[1] /\ Head(q) \in Entry
      /\ \A i \in 1 .. n : r[i] = q[i + 1]
  OBVIOUS
<1> HIDE DEF r, n
<1>2. IsFiniteSet(1 .. n)
  BY <1>1, FS_Interval
<1>3. IsFiniteSet(I) /\ Cardinality(I) \in Nat
  <2>1. I \in SUBSET (1 .. n)
    BY DEF n
  <2> QED BY <1>2, <2>1, FS_Subset, FS_CardinalityType, Zenon
<1>4. IsFiniteSet(K) /\ Cardinality(K) = Cardinality(I)
  <2> DEFINE f == [i \in I |-> i + 1]
  <2>1. f \in Bijection(I, K)
    <3>1. \A i \in I : i + 1 \in K
      BY <1>1 DEF n
    <3>2. ASSUME NEW k \in K PROVE k - 1 \in I /\ f[k - 1] = k
      <4>1. k - 1 \in 1 .. n /\ q[k].trx = t
        BY <1>1
      <4>2. r[k - 1] = q[k]
        BY <1>1, <4>1
      <4>3. k - 1 \in I
        BY <4>1, <4>2 DEF n
      <4> QED BY <4>3
    <3>3. f \in [I -> K]
      BY <3>1
    <3>4. \A i, j \in I : f[i] = f[j] => i = j
      BY <1>1 DEF n
    <3> HIDE DEF f, I, K
    <3> QED BY <3>2, <3>3, <3>4 DEF Bijection, Injection, Surjection, IsInjective
  <2>2. ExistsBijection(I, K)
    BY <2>1 DEF ExistsBijection
  <2> QED BY <1>3, <2>2, FS_Bijection
<1>5. CASE Head(q).trx = t
  <2>1. J = K \cup {1} /\ 1 \notin K
    BY <1>1, <1>5
  <2>2. Cardinality(J) = Cardinality(K) + 1
    BY <1>4, <2>1, FS_AddElement, ZenonT(40)
  <2> QED BY <1>1, <1>3, <1>4, <1>5, <2>2, Zenon DEF Count, r
<1>6. CASE Head(q).trx # t
  <2>1. J = K
    BY <1>1, <1>6
  <2>2. Cardinality(J) = Cardinality(I) + 0
    <3> HIDE DEF I, J, K
    <3> QED BY <1>3, <1>4, <2>1
  <2> QED BY <1>1, <1>3, <1>6, <2>2, Zenon DEF Count, r
<1> QED BY <1>5, <1>6
-----------------------------------------------------------------------------
(* The transactions of the blocks *)

\* Adding a block adds its transactions.
LEMMA IncludedAppend ==
  ASSUME NEW bs \in Seq(SUBSET Trxs), NEW b \in SUBSET Trxs
  PROVE  /\ Append(bs, b) \in Seq(SUBSET Trxs)
         /\ UNION {Append(bs, b)[i] : i \in DOMAIN Append(bs, b)} = (UNION {bs[i] : i \in DOMAIN bs}) \cup b
<1> DEFINE r == Append(bs, b)
           n == Len(bs)
<1>1. /\ n \in Nat /\ r \in Seq(SUBSET Trxs) /\ DOMAIN bs = 1 .. n /\ DOMAIN r = 1 .. (n + 1)
      /\ r[n + 1] = b /\ \A i \in 1 .. n : r[i] = bs[i]
  OBVIOUS
<1> HIDE DEF r, n
<1> DEFINE all == UNION {bs[i] : i \in DOMAIN bs}
<1>2. ASSUME NEW i \in 1 .. n PROVE i \in DOMAIN r /\ r[i] = bs[i] /\ r[i] \subseteq all
  <2>1. i \in DOMAIN bs /\ i \in DOMAIN r
    BY <1>1
  <2> QED BY <1>1, <2>1
<1>3. n + 1 \in DOMAIN r /\ r[n + 1] = b
  BY <1>1
<1>4. \A i \in DOMAIN r : i = n + 1 \/ i \in 1 .. n
  BY <1>1
<1>5. UNION {r[i] : i \in DOMAIN r} = all \cup b
  <2>1. ASSUME NEW x, x \in all PROVE x \in UNION {r[i] : i \in DOMAIN r}
    <3>1. PICK i \in 1 .. n : x \in bs[i]
      BY <1>1, <2>1
    <3> QED BY <1>2, <3>1
  <2>2. ASSUME NEW x, x \in UNION {r[i] : i \in DOMAIN r} PROVE x \in all \cup b
    <3>1. PICK i \in DOMAIN r : x \in r[i]
      BY <2>2
    <3>2. CASE i = n + 1
      BY <1>3, <3>1, <3>2
    <3>3. CASE i \in 1 .. n
      <4>1. x \in all
        BY <1>2, <3>1, <3>3
      <4> QED BY <4>1
    <3> QED BY <1>4, <3>2, <3>3
  <2> HIDE DEF all
  <2> QED BY <1>3, <2>1, <2>2
<1>6. Append(bs, b) \in Seq(SUBSET Trxs)
  OBVIOUS
<1> QED BY <1>5, <1>6 DEF r, all

\* The blocks up to n and those after it hold all the transactions, and a
\* switch to another branch replaces the latter.
LEMMA IncludedSwitch ==
  ASSUME NEW bs \in Seq(SUBSET Trxs), NEW n \in Nat, n < Len(bs), NEW branch \in Seq(SUBSET Trxs)
  PROVE  /\ SubSeq(bs, 1, n) \o branch \in Seq(SUBSET Trxs)
         /\ UNION {bs[i] : i \in DOMAIN bs} = Holds(SubSeq(bs, 1, n), 1) \cup Holds(bs, n + 1)
         /\ UNION {(SubSeq(bs, 1, n) \o branch)[i] : i \in DOMAIN (SubSeq(bs, 1, n) \o branch)}
              = Holds(SubSeq(bs, 1, n), 1) \cup Holds(branch, 1)
<1> DEFINE s == SubSeq(bs, 1, n)
           r == s \o branch
           k == Len(branch)
           l == Len(bs)
<1>1. /\ s \in Seq(SUBSET Trxs) /\ Len(s) = n /\ \A i \in 1 .. n : s[i] = bs[i]
  BY SubSeqProperties
<1>2. l \in Nat /\ n < l /\ DOMAIN bs = 1 .. l /\ k \in Nat
  OBVIOUS
<1> HIDE DEF s, l
<1>3. /\ r \in Seq(SUBSET Trxs) /\ DOMAIN r = 1 .. (n + k)
      /\ \A i \in 1 .. (n + k) : r[i] = IF i <= n THEN s[i] ELSE branch[i - n]
  BY <1>1, SMTT(30)
<1> HIDE DEF r, k
<1>4. UNION {bs[i] : i \in DOMAIN bs} = Holds(s, 1) \cup Holds(bs, n + 1)
  <2>1. 1 .. l = (1 .. n) \cup ((n + 1) .. l)
    BY <1>2
  <2> QED BY <1>1, <1>2, <2>1 DEF Holds, l
<1>5. UNION {r[i] : i \in DOMAIN r} = Holds(s, 1) \cup Holds(branch, 1)
  <2>1. ASSUME NEW i \in 1 .. (n + k) PROVE r[i] \subseteq Holds(s, 1) \cup Holds(branch, 1)
    <3>1. CASE i <= n
      <4>1. i \in 1 .. n /\ r[i] = s[i]
        BY <1>2, <1>3, <3>1
      <4> QED BY <1>1, <4>1 DEF Holds
    <3>2. CASE ~(i <= n)
      <4>1. i - n \in 1 .. k /\ r[i] = branch[i - n]
        BY <1>2, <1>3, <3>2
      <4> QED BY <4>1 DEF Holds, k
    <3> QED BY <3>1, <3>2
  <2>2. ASSUME NEW i \in 1 .. n PROVE i \in DOMAIN r /\ r[i] = s[i]
    BY <1>2, <1>3
  <2>3. ASSUME NEW i \in 1 .. k PROVE i + n \in DOMAIN r /\ r[i + n] = branch[i]
    BY <1>2, <1>3
  <2>4. Holds(s, 1) \subseteq UNION {r[i] : i \in DOMAIN r}
    BY <1>1, <2>2 DEF Holds
  <2>5. Holds(branch, 1) \subseteq UNION {r[i] : i \in DOMAIN r}
    BY <2>3 DEF Holds, k
  <2> QED BY <1>3, <2>1, <2>4, <2>5
<1> QED BY <1>3, <1>4, <1>5 DEF r, s

\* The branches that arrive are sequences of blocks.
LEMMA BranchSeq ==
  ASSUME NEW branch \in Branches
  PROVE  branch \in Seq(SUBSET Trxs)
<1>1. PICK n \in 1 .. MaxBlocks : branch \in [1 .. n -> SUBSET Trxs]
  BY DEF Branches
<1>2. n \in Nat
  BY FlowAssumption
<1> QED BY <1>1, <1>2, SeqDef

-----------------------------------------------------------------------------
(* The steps *)

\* A submission that is handled is answered, or waits again; what is applied is
\* in the pending block.
LEMMA ProcessSubmission ==
  ASSUME FlowInv, NEW e \in Entry, NEW rest \in Seq(Entry), NEW due \in {0, 1},
         process_incoming_transaction(e, rest, due), UNCHANGED <<phase, blocks, expired>>,
         \A t \in Trxs : owed[t] = Count(rest, t) + (IF due = 0 /\ e.trx = t THEN 1 ELSE 0)
  PROVE  FlowInv'
<1>1. /\ e.trx \in Trxs /\ blocks \in Seq(SUBSET Trxs) /\ owed \in [Trxs -> Int]
      /\ pending # {} => Building
      /\ \A t \in Trxs : Count(rest, t) \in Nat
  BY CountAppend, Zenon DEF FlowInv, FlowTypes, Entry
<1>2. Included' = Included /\ (Building' <=> Building)
  BY DEF Included, Building
<1>3. CASE Reject(e, rest, due)
  <2>1. owed' = [owed EXCEPT ![e.trx] = owed[e.trx] + (due - 1)] /\ incoming' = rest
        /\ UNCHANGED <<pending, queue, accepted, dropped>>
    BY <1>3 DEF Reject, Owe
  <2>2. ASSUME NEW t \in Trxs PROVE owed'[t] = Count(rest, t)
    BY <1>1, <2>1, SMTT(30)
  <2>3. owed' \in [Trxs -> Int]
    BY <1>1, <2>1
  <2>4. AnsweredOnce'
    BY <2>1, <2>2 DEF AnsweredOnce, Waiting
  <2>5. NoneLost'
    BY <1>2, <2>1 DEF FlowInv, SubmissionsKept, NoneLost, Queued
  <2> QED BY <1>1, <1>2, <2>1, <2>3, <2>4, <2>5, SMTT(30) DEF FlowInv, FlowTypes, SubmissionsKept
<1>4. CASE Postpone(e, rest, due)
  <2>1. CASE Len(rest) < MaxIncoming
    <3>1. owed' = [owed EXCEPT ![e.trx] = owed[e.trx] + due] /\ incoming' = Append(rest, e)
          /\ UNCHANGED <<pending, queue, accepted, dropped>>
      BY <1>4, <2>1 DEF Postpone, Owe
    <3>2. ASSUME NEW t \in Trxs PROVE owed'[t] = Count(incoming', t)
      <4>1. Count(incoming', t) = Count(rest, t) + (IF e.trx = t THEN 1 ELSE 0)
        BY <3>1, CountAppend
      <4> QED BY <1>1, <3>1, <4>1
    <3>3. owed' \in [Trxs -> Int] /\ incoming' \in Seq(Entry)
      BY <1>1, <3>1
    <3>4. AnsweredOnce'
      BY <3>2 DEF AnsweredOnce, Waiting
    <3>5. NoneLost'
      BY <1>2, <3>1 DEF FlowInv, SubmissionsKept, NoneLost, Queued
    <3> QED BY <1>1, <1>2, <3>1, <3>3, <3>4, <3>5 DEF FlowInv, FlowTypes, SubmissionsKept
  <2>2. CASE ~(Len(rest) < MaxIncoming)
    BY <1>3, <1>4, <2>2 DEF Postpone
  <2> QED BY <2>1, <2>2
<1>5. CASE Apply(e, rest, due) /\ Building
  <2>1. /\ owed' = [owed EXCEPT ![e.trx] = owed[e.trx] + (due - 1)] /\ incoming' = rest
        /\ pending' = pending \cup {e.trx} /\ accepted' = accepted \cup {e.trx}
        /\ dropped' = dropped \ {e.trx}
        /\ queue' = IF e.persist THEN add_persisted(queue, e.trx) ELSE queue
    BY <1>5 DEF Apply, Owe
  <2>2. ASSUME NEW t \in Trxs PROVE owed'[t] = Count(rest, t)
    BY <1>1, <2>1
  <2>3. owed' \in [Trxs -> Int]
    BY <1>1, <2>1
  <2>4. AnsweredOnce'
    BY <2>1, <2>2 DEF AnsweredOnce, Waiting
  <2>5. Queued \subseteq Queued'
    BY <2>1 DEF Queued, add_persisted
  <2>6. NoneLost'
    BY <1>2, <2>1, <2>5 DEF FlowInv, SubmissionsKept, NoneLost
  <2> QED BY <1>1, <1>2, <1>5, <2>1, <2>3, <2>4, <2>6, SMTT(30) DEF FlowInv, FlowTypes, SubmissionsKept
<1> QED BY <1>3, <1>4, <1>5 DEF process_incoming_transaction

\* A step that does not handle a submission, and loses nothing.
LEMMA NothingLost ==
  ASSUME FlowInv, UNCHANGED <<incoming, owed, accepted>>,
         blocks' \in Seq(SUBSET Trxs), pending' \subseteq Trxs, pending' # {} => Building',
         IsProducer => accepted \ (expired' \cup dropped') \subseteq Included' \cup pending' \cup DOMAIN queue'
  PROVE  FlowInv'
<1>1. FlowTypes' /\ AnsweredOnce'
  BY DEF FlowInv, FlowTypes, SubmissionsKept, AnsweredOnce, Waiting
<1>2. NoneLost'
  BY DEF NoneLost, Queued
<1> QED BY <1>1, <1>2 DEF FlowInv, SubmissionsKept

\* What the queue holds after its operations.
LEMMA QueueDomains ==
  ASSUME NEW q, NEW trxs
  PROVE  /\ DOMAIN q \ trxs \subseteq DOMAIN clear_applied(q, trxs)
         /\ IsProducer => DOMAIN add_aborted(q, trxs) = DOMAIN q \cup trxs
         /\ IsProducer => DOMAIN add_forked(q, trxs) = DOMAIN q \cup trxs
BY DEF clear_applied, Erase, add_aborted, add_forked, Insert

\* An empty node has lost nothing.
LEMMA FlowStart == FlowInit => FlowInv
<1> SUFFICES ASSUME FlowInit PROVE FlowInv
  OBVIOUS
<1>1. FlowTypes
  BY DEF FlowInit, FlowTypes
<1>2. ASSUME NEW t \in Trxs PROVE Waiting(t) = 0
  <2>1. {i \in 1 .. Len(incoming) : incoming[i].trx = t} = {}
    BY DEF FlowInit
  <2> QED BY <2>1, FS_EmptySet DEF Waiting, Count
<1>3. NoneLost /\ AnsweredOnce
  BY <1>2 DEF FlowInit, NoneLost, AnsweredOnce
<1> QED BY <1>1, <1>3 DEF FlowInv, SubmissionsKept

\* Every step keeps the invariant.
LEMMA FlowStep == FlowInv /\ [FlowNext]_flow_vars => FlowInv'
<1> SUFFICES ASSUME FlowInv, [FlowNext]_flow_vars PROVE FlowInv'
  OBVIOUS
<1> DEFINE Live == accepted \ (expired \cup dropped)
<1>1. /\ blocks \in Seq(SUBSET Trxs) /\ incoming \in Seq(Entry)
      /\ pending \subseteq Trxs /\ (phase = "idle" => pending = {})
      /\ IsProducer => Live \subseteq Included \cup pending \cup DOMAIN queue
      /\ \A t \in Trxs : owed[t] = Count(incoming, t)
  BY DEF FlowInv, FlowTypes, SubmissionsKept, NoneLost, AnsweredOnce, Waiting, Building, Queued
<1>2. blocks' = blocks => Included' = Included
  BY DEF Included
<1>3. ASSUME NEW md, StartBlock(md) PROVE FlowInv'
  <2>1. /\ phase = "idle" /\ queue' = Erase(queue, expired) /\ pending' = {}
        /\ UNCHANGED <<incoming, blocks, expired, owed, accepted, dropped>>
    BY <1>3 DEF StartBlock, ghosts
  <2>2. DOMAIN queue' = DOMAIN queue \ expired
    BY <2>1 DEF Erase
  <2> QED BY <1>1, <1>2, <2>1, <2>2, NothingLost, SMTT(30)
<1>4. ASSUME NEW md, NEW gone, StartExhausted(md, gone) PROVE FlowInv'
  <2>1. /\ gone \subseteq expired /\ queue' = Erase(queue, gone) /\ phase' = "ready"
        /\ UNCHANGED <<pending, incoming, blocks, expired, owed, accepted, dropped>>
    BY <1>4 DEF StartExhausted, ghosts
  <2>2. DOMAIN queue' = DOMAIN queue \ gone /\ Building'
    BY <2>1 DEF Erase, Building
  <2> QED BY <1>1, <1>2, <2>1, <2>2, NothingLost
<1>5. ASSUME NEW t \in Trxs, NEW outcome, ProcessUnapplied(t, outcome) PROVE FlowInv'
  <2>1. /\ phase' \in {"ready", "unapplied"}
        /\ pending' = IF outcome = "applied" THEN pending \cup {t} ELSE pending
        /\ dropped' = IF outcome = "fails" THEN dropped \cup ({t} \ (Included \cup pending)) ELSE dropped
        /\ queue' \in {queue, Erase(queue, {t})}
        /\ outcome \in {"does not fit", "throws"} => queue' = queue
        /\ outcome \in {"applied", "fails", "does not fit", "throws"}
        /\ UNCHANGED <<incoming, blocks, expired, owed, accepted>>
    BY <1>5, Zenon DEF ProcessUnapplied, Outcomes
  <2>2. DOMAIN queue \ {t} \subseteq DOMAIN queue'
    BY <2>1, Zenon DEF Erase
  <2>3. Building'
    BY <2>1, Zenon DEF Building
  <2>4. IsProducer => accepted \ (expired' \cup dropped') \subseteq Included' \cup pending' \cup DOMAIN queue'
    BY <1>1, <1>2, <2>1, <2>2, ZenonT(40)
  <2> QED BY <1>1, <2>1, <2>3, <2>4, NothingLost, ZenonT(40)
<1>6. CASE UnappliedDone \/ Exhaust \/ IncomingDone
  <2>1. phase' # "idle" /\ UNCHANGED <<pending, queue, incoming, blocks, expired, owed, accepted, dropped>>
    BY <1>6 DEF UnappliedDone, Exhaust, IncomingDone, ghosts
  <2> QED BY <1>1, <1>2, <2>1, NothingLost DEF Building
<1>7. CASE ProcessIncoming
  <2>1. /\ incoming # <<>> /\ process_incoming_transaction(Head(incoming), Tail(incoming), 0)
        /\ UNCHANGED <<phase, blocks, expired>>
    BY <1>7 DEF ProcessIncoming
  <2>2. Tail(incoming) \in Seq(Entry) /\ Head(incoming) \in Entry
    BY <1>1, <2>1
  <2>3. \A t \in Trxs : owed[t] = Count(Tail(incoming), t) + (IF 0 = 0 /\ Head(incoming).trx = t THEN 1 ELSE 0)
    BY <1>1, <2>1, CountTail
  <2> QED BY <2>1, <2>2, <2>3, ProcessSubmission, Zenon
<1>8. ASSUME NEW t \in Trxs, NEW persist \in BOOLEAN, Submit(t, persist) PROVE FlowInv'
  <2> DEFINE e == [trx |-> t, persist |-> persist]
  <2>1. process_incoming_transaction(e, incoming, 1) /\ UNCHANGED <<phase, blocks, expired>>
    BY <1>8 DEF Submit
  <2>2. e \in Entry
    BY DEF Entry
  <2>3. \A u \in Trxs : owed[u] = Count(incoming, u) + (IF 1 = 0 /\ e.trx = u THEN 1 ELSE 0)
    BY <1>1, <2>2, CountAppend
  <2> HIDE DEF e
  <2> QED BY <1>1, <2>1, <2>2, <2>3, ProcessSubmission
<1>9. CASE ProduceBlock
  <2>1. /\ blocks' = Append(blocks, pending) /\ queue' = clear_applied(queue, pending) /\ pending' = {}
        /\ UNCHANGED <<incoming, expired, owed, accepted, dropped>>
    BY <1>9 DEF ProduceBlock, ghosts
  <2>2. blocks' \in Seq(SUBSET Trxs) /\ Included' = Included \cup pending
    BY <1>1, <2>1, IncludedAppend, SMTT(30) DEF Included
  <2>3. DOMAIN queue \ pending \subseteq DOMAIN queue'
    BY <2>1, QueueDomains, Zenon
  <2> QED BY <1>1, <2>1, <2>2, <2>3, NothingLost, SMTT(30)
<1>10. CASE AbortBlock
  <2>1. /\ queue' = add_aborted(queue, pending) /\ pending' = {}
        /\ UNCHANGED <<incoming, blocks, expired, owed, accepted, dropped>>
    BY <1>10 DEF AbortBlock, ghosts
  <2>2. IsProducer => DOMAIN queue' = DOMAIN queue \cup pending
    BY <2>1, QueueDomains, Zenon
  <2> QED BY <1>1, <1>2, <2>1, <2>2, NothingLost
<1>11. ASSUME NEW trxs \in SUBSET Trxs, ReceiveBlockOf(trxs) PROVE FlowInv'
  <2>1. /\ blocks' = Append(blocks, trxs) /\ queue' = clear_applied(add_aborted(queue, pending), trxs)
        /\ pending' = {} /\ UNCHANGED <<incoming, expired, owed, accepted, dropped>>
    BY <1>11 DEF ReceiveBlockOf, ghosts
  <2>2. blocks' \in Seq(SUBSET Trxs) /\ Included' = Included \cup trxs
    BY <1>1, <2>1, IncludedAppend, SMTT(30) DEF Included
  <2>3. IsProducer => (DOMAIN queue \cup pending) \ trxs \subseteq DOMAIN queue'
    <3> DEFINE q == add_aborted(queue, pending)
    <3>1. IsProducer => DOMAIN q = DOMAIN queue \cup pending
      BY QueueDomains, Zenon
    <3> HIDE DEF q
    <3>2. DOMAIN q \ trxs \subseteq DOMAIN clear_applied(q, trxs)
      BY QueueDomains, Zenon
    <3> QED BY <2>1, <3>1, <3>2 DEF q
  <2> QED BY <1>1, <2>1, <2>2, <2>3, NothingLost, SMTT(30)
<1>12. ASSUME NEW n \in 0 .. MaxBlocks, NEW branch \in Branches, SwitchForks(n, branch) PROVE FlowInv'
  <2> DEFINE kept == Holds(SubSeq(blocks, 1, n), 1)
             old  == Holds(blocks, n + 1)
             new  == Holds(branch, 1)
  <2>1. /\ n < Len(blocks) /\ blocks' = SubSeq(blocks, 1, n) \o branch
        /\ queue' = clear_applied(add_forked(add_aborted(queue, pending), old), new)
        /\ pending' = {} /\ UNCHANGED <<incoming, expired, owed, accepted, dropped>>
    BY <1>12 DEF SwitchForks
  <2>2. branch \in Seq(SUBSET Trxs) /\ n \in Nat
    BY BranchSeq, FlowAssumption
  <2>3. blocks' \in Seq(SUBSET Trxs) /\ Included = kept \cup old /\ Included' = kept \cup new
    <3>1. SubSeq(blocks, 1, n) \o branch \in Seq(SUBSET Trxs) /\ Included = kept \cup old
      BY <1>1, <2>1, <2>2, IncludedSwitch, Zenon DEF Included
    <3> DEFINE bs == SubSeq(blocks, 1, n) \o branch
    <3>2. UNION {bs[i] : i \in DOMAIN bs} = kept \cup new
      BY <1>1, <2>1, <2>2, IncludedSwitch, ZenonT(40)
    <3>3. Included' = UNION {blocks'[i] : i \in DOMAIN blocks'}
      BY DEF Included
    <3> HIDE DEF bs
    <3>4. Included' = kept \cup new
      BY <2>1, <3>2, <3>3 DEF bs
    <3> QED BY <2>1, <3>1, <3>4
  <2> HIDE DEF kept, old, new
  <2>4. IsProducer => (DOMAIN queue \cup pending \cup old) \ new \subseteq DOMAIN queue'
    <3> DEFINE q1 == add_aborted(queue, pending)
               q2 == add_forked(q1, old)
    <3>1. IsProducer => DOMAIN q1 = DOMAIN queue \cup pending
      BY QueueDomains, Zenon
    <3> HIDE DEF q1
    <3>2. IsProducer => DOMAIN q2 = DOMAIN q1 \cup old
      BY QueueDomains, Zenon
    <3> HIDE DEF q2
    <3>3. DOMAIN q2 \ new \subseteq DOMAIN clear_applied(q2, new)
      BY QueueDomains, Zenon
    <3> QED BY <2>1, <3>1, <3>2, <3>3 DEF q1, q2
  <2>5. IsProducer => accepted \ (expired' \cup dropped') \subseteq Included' \cup pending' \cup DOMAIN queue'
    BY <1>1, <2>1, <2>3, <2>4
  <2> QED BY <2>1, <2>3, <2>5, NothingLost
<1>13. ASSUME NEW n \in 0 .. MaxBlocks, NEW good \in SUBSET Trxs, FailSwitch(n, good) PROVE FlowInv'
  <2> DEFINE kept == Holds(SubSeq(blocks, 1, n), 1)
             old  == Holds(blocks, n + 1)
             q == clear_applied(add_forked(add_aborted(queue, pending), old), good)
  <2>1. /\ n < Len(blocks) /\ queue' = clear_applied(q, old) /\ pending' = {} /\ dropped' = dropped \cup good
        /\ UNCHANGED <<incoming, blocks, expired, owed, accepted>>
    BY <1>13 DEF FailSwitch
  <2>2. n \in Nat /\ <<>> \in Seq(SUBSET Trxs)
    BY FlowAssumption, SMTT(30)
  <2>3. Included = kept \cup old
    BY <1>1, <2>1, <2>2, IncludedSwitch, SMTT(30) DEF Included
  <2> HIDE DEF kept, old
  <2>4. IsProducer => (DOMAIN queue \cup pending \cup old) \ good \subseteq DOMAIN q
    <3> DEFINE q1 == add_aborted(queue, pending)
               q2 == add_forked(q1, old)
    <3>1. IsProducer => DOMAIN q1 = DOMAIN queue \cup pending
      BY QueueDomains, Zenon
    <3> HIDE DEF q1
    <3>2. IsProducer => DOMAIN q2 = DOMAIN q1 \cup old
      BY QueueDomains, Zenon
    <3> HIDE DEF q2
    <3>3. DOMAIN q2 \ good \subseteq DOMAIN clear_applied(q2, good)
      BY QueueDomains, Zenon
    <3> QED BY <3>1, <3>2, <3>3 DEF q1, q2
  <2>5. DOMAIN q \ old \subseteq DOMAIN queue'
    BY <2>1, QueueDomains, Zenon
  <2> HIDE DEF q
  <2>6. IsProducer => accepted \ (expired' \cup dropped') \subseteq Included' \cup pending' \cup DOMAIN queue'
    BY <1>1, <1>2, <2>1, <2>3, <2>4, <2>5
  <2> QED BY <1>1, <2>1, <2>6, NothingLost
<1>14. ASSUME NEW t, Expire(t) PROVE FlowInv'
  <2>1. expired' = expired \cup {t} /\ UNCHANGED <<phase, pending, queue, incoming, blocks, owed, accepted, dropped>>
    BY <1>14 DEF Expire, nodeVars, ghosts
  <2> QED BY <1>1, <1>2, <2>1, NothingLost DEF Building
<1>15. CASE UNCHANGED flow_vars
  <2>1. UNCHANGED <<phase, pending, queue, incoming, blocks, expired, owed, accepted, dropped>>
    BY <1>15 DEF flow_vars, nodeVars, ghosts
  <2> QED BY <1>1, <1>2, <2>1, NothingLost DEF Building
<1> QED
  BY <1>3, <1>4, <1>5, <1>6, <1>7, <1>8, <1>9, <1>10, <1>11, <1>12, <1>13, <1>14, <1>15, ZenonT(40) DEF FlowNext

\* A node that produces never loses an accepted transaction before it expires
\* or fails, and every submission is answered once, through any sequence of
\* produced, aborted, received and forked blocks (start_block, produce_block,
\* on_incoming_block, process_incoming_transaction_async).
THEOREM SubmissionsAlwaysKept == FlowSpec => []SubmissionsKept
<1>1. FlowInv => SubmissionsKept
  BY DEF FlowInv
<1> QED BY FlowStart, FlowStep, <1>1, PTL DEF FlowSpec
=============================================================================
