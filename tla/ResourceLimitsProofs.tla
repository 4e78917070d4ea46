------------------------ MODULE ResourceLimitsProofs ------------------------
(***************************************************************************)
(* Proofs about ResourceLimits, for every value of its constants.          *)
(*                                                                         *)
(* LimitsInv is the inductive invariant.  BlockInv is inductive by itself: *)
(* the average fits in a block because it decays by at least as much as a  *)
(* full block adds, which needs that blocks are added in order.  The total *)
(* weight is that of the accounts because a sum splits into that of the    *)
(* accounts that change and that of the others; a sum of weights is the    *)
(* size of a disjoint union, so that this is a fact about finite sets.     *)
(* With the types, what accounts can pay is not refused: both directions   *)
(* of the rounding meet in RoundingFits.  A transaction leaves RAM within  *)
(* the limits because what grew since it began is validated in its end.    *)
(***************************************************************************)
EXTENDS ResourceLimits, FiniteSetTheorems, TLAPS

\* Multiplying by a positive number does not make a number smaller.
LEMMA TimesPositive ==
  ASSUME NEW m \in Nat, NEW k \in Nat \ {0}
  PROVE  m * k \in Nat /\ m <= m * k
<1>1. PICK j \in Nat : k = j + 1
  BY SMT
<1>2. m * k = m * j + m /\ m * j \in Nat
  BY <1>1, SMT
<1> QED
  BY <1>2, SMT

\* A product is monotone in its first factor.
LEMMA TimesMonotone ==
  ASSUME NEW a \in Nat, NEW b \in Nat, NEW k \in Nat, a <= b
  PROVE  a * k \in Nat /\ b * k \in Nat /\ a * k <= b * k
<1>1. PICK d \in Nat : b = a + d
  BY SMT
<1>2. b * k = a * k + d * k /\ d * k \in Nat /\ a * k \in Nat
  BY <1>1, SMT
<1> QED
  BY <1>2, SMT

\* integer_divide_ceil rounds up by less than one.
LEMMA CeilBounds ==
  ASSUME NEW n \in Nat, NEW d \in Nat \ {0}
  PROVE  /\ integer_divide_ceil(n, d) \in Nat
         /\ (integer_divide_ceil(n, d) - 1) * d < n \/ n = 0
         /\ n = 0 => integer_divide_ceil(n, d) = 0
<1> DEFINE q == n \div d
           r == n % d
<1>1. q \in Nat /\ r \in 0 .. (d - 1) /\ n = d * q + r
  BY SMT
<1>2. CASE r > 0
  <2>1. integer_divide_ceil(n, d) = q + 1
    BY <1>2 DEF integer_divide_ceil
  <2>2. q * d < n
    BY <1>1, <1>2, SMT
  <2>3. n # 0
    BY <1>1, <1>2, <2>2, SMT
  <2> QED
    BY <1>1, <2>1, <2>2, <2>3, SMT
<1>3. CASE ~(r > 0)
  <2>1. integer_divide_ceil(n, d) = q
    BY <1>1, <1>3 DEF integer_divide_ceil
  <2>2. n = d * q
    BY <1>1, <1>3, SMT
  <2>3. (q - 1) * d = n - d
    BY <1>1, <2>2, SMT
  <2>4. n = 0 => q = 0
    BY <1>1, <2>2, SMT
  <2> QED
    BY <1>1, <2>1, <2>3, <2>4, SMT
<1> QED
  BY <1>2, <1>3

\* One step of the accumulator: when a value is at most X, and what is added
\* is at most X in a window, the new value is at most X: the decay rounds down
\* by as much as the contribution rounds up.
LEMMA DecayMakesRoom ==
  ASSUME NEW v \in Nat, NEW X \in Nat, v <= X,
         NEW Y \in Nat, Y <= X,
         NEW w \in Nat \ {0}, NEW d \in Nat \ {0}, d <= w
  PROVE  (v * (w - d)) \div w + integer_divide_ceil(Y, w) \in 0 .. X
<1> DEFINE n == v * (w - d)
           q == n \div w
           c == integer_divide_ceil(Y, w)
<1>1. w - d \in Nat /\ w - 1 \in Nat /\ w - d <= w - 1
  BY SMT
<1>2. n \in Nat /\ n <= X * (w - d)
  BY <1>1, TimesMonotone
<1>3. (w - d) * X <= (w - 1) * X
  BY <1>1, TimesMonotone
<1>4. X * (w - d) = (w - d) * X /\ (w - 1) * X = w * X - X
  BY <1>1, SMT
<1>5. n <= w * X - X
  BY <1>1, <1>2, <1>3, <1>4, SMT
<1>6. q \in Nat /\ w * q <= n
  <2> HIDE DEF n
  <2> QED
    BY <1>2, SMT
<1>7. c \in Nat /\ ((c - 1) * w < Y \/ Y = 0) /\ (Y = 0 => c = 0)
  BY CeilBounds
<1>8. w * q <= w * X - X
  <2> HIDE DEF n, q
  <2> QED
    BY <1>2, <1>5, <1>6, SMT
<1>9. q + c \in 0 .. X
  <2> HIDE DEF n, q, c
  <2>1. CASE Y = 0
    <3>1. w * q <= w * X
      BY <1>6, <1>8, SMT
    <3>2. q <= X
      <4>1. SUFFICES ASSUME q > X PROVE FALSE
        BY <1>6, SMT
      <4>2. PICK e \in Nat : q = X + e + 1
        BY <4>1, <1>6, SMT
      <4>3. w * q = w * X + w * e + w /\ w * e \in Nat
        BY <4>2, SMT
      <4> QED
        BY <3>1, <4>3, SMT
    <3> QED
      BY <2>1, <3>2, <1>6, <1>7, SMT
  <2>2. CASE (c - 1) * w < Y
    <3>1. (c - 1) * w < X
      BY <2>2, <1>7, SMT
    <3>2. w * q + (c - 1) * w = w * (q + c - 1)
      BY <1>6, <1>7, SMT
    <3>3. w * (q + c - 1) < w * X
      BY <3>1, <3>2, <1>6, <1>7, <1>8, SMT
    <3>4. q + c - 1 < X
      <4>1. SUFFICES ASSUME q + c - 1 >= X PROVE FALSE
        BY <1>6, <1>7, SMT
      <4>2. PICK e \in Nat : q + c - 1 = X + e
        BY <4>1, <1>6, <1>7, SMT
      <4>3. w * (q + c - 1) = w * X + w * e /\ w * e \in Nat
        BY <4>2, SMT
      <4> QED
        BY <3>3, <4>3, SMT
    <3> QED
      BY <3>4, <1>6, <1>7, SMT
  <2> QED
    BY <1>7, <2>1, <2>2
<1> QED
  BY <1>9

\* integer_divide_ceil gives the least that is not below the quotient.
LEMMA CeilLeast ==
  ASSUME NEW n \in Nat, NEW d \in Nat \ {0}, NEW m \in Nat, n <= m * d
  PROVE  integer_divide_ceil(n, d) <= m
<1> DEFINE c == integer_divide_ceil(n, d)
<1>1. c \in Nat /\ ((c - 1) * d < n \/ n = 0) /\ (n = 0 => c = 0)
  BY CeilBounds
<1> HIDE DEF c
<1>2. SUFFICES ASSUME c > m PROVE FALSE
  BY <1>1, SMT DEF c
<1>3. PICK e \in Nat : c - 1 = m + e
  BY <1>1, <1>2, SMT
<1>4. (c - 1) * d = m * d + e * d /\ e * d \in Nat /\ m * d \in Nat
  BY <1>3, SMT
<1>5. n # 0
  BY <1>1, <1>2, SMT
<1> QED
  BY <1>1, <1>4, <1>5, SMT

\* update_elastic_limit gives a limit in the range of the parameters it is
\* given, whatever the limit and the usage were before.
LEMMA ElasticInRange ==
  ASSUME NEW current \in Nat, NEW avg \in Nat, NEW m \in Nat
  PROVE  /\ update_elastic_limit(current, avg, m) \in Nat
         /\ update_elastic_limit(current, avg, m) \in m .. (m * Multiplier)
<1> DEFINE result == Times(current, IF avg > (m * TargetPct) \div 100 THEN Contract ELSE Expand)
<1>1. result \in Nat
  <2>1. \A r \in Nat \X (Nat \ {0}) : Times(current, r) \in Nat
    <3> SUFFICES ASSUME NEW r \in Nat \X (Nat \ {0}) PROVE Times(current, r) \in Nat
      OBVIOUS
    <3>1. r[1] \in Nat /\ r[2] \in Nat \ {0}
      OBVIOUS
    <3>2. current * r[1] \in Nat
      BY <3>1, SMT
    <3>3. (current * r[1]) \div r[2] \in Nat
      BY <3>1, <3>2, SMT
    <3> QED
      BY <3>3 DEF Times
  <2> QED
    BY <2>1, LimitsAssumption
<1>2. Multiplier \in Nat \ {0}
  BY LimitsAssumption
<1>3. m * Multiplier \in Nat /\ m <= m * Multiplier
  BY <1>2, TimesPositive
<1>4. update_elastic_limit(current, avg, m) =
        LET low == IF result < m THEN m ELSE result
        IN IF low > m * Multiplier THEN m * Multiplier ELSE low
  BY DEF update_elastic_limit
<1> HIDE DEF result
<1> QED
  BY <1>1, <1>3, <1>4, SMT

\* The average after a block, when the usage of the block fits in it.
LEMMA AverageStep ==
  ASSUME BlockInv
  PROVE  /\ AverageAfter \in Accumulators /\ AverageAfter.last = num
         /\ \E m \in Maxes : AverageAfter.value <= m * Precision
<1>1. PICK k \in Maxes : average.value <= k * Precision
  BY DEF BlockInv
<1>2. k \in Nat /\ max \in Nat /\ max \in Maxes /\ pending \in Nat /\ pending <= max
  BY LimitsAssumption, Zenon DEF BlockInv, PendingFits
<1>3. PICK m \in Maxes : m \in Nat /\ k <= m /\ max <= m
  BY <1>2, SMT
<1>4. Precision \in Nat \ {0} /\ Periods \in Nat \ {0}
  BY LimitsAssumption
<1> DEFINE X == m * Precision
           Y == pending * Precision
<1>5. X \in Nat /\ Y \in Nat /\ Y <= X
  BY <1>2, <1>3, <1>4, TimesMonotone, SMT
<1>6. average.value \in Nat /\ average.last \in Nat /\ num \in Nat /\ average.last < num
  BY DEF BlockInv, Accumulators
<1>7. average.value <= X
  BY <1>1, <1>2, <1>3, <1>4, <1>6, TimesMonotone, SMT
<1> DEFINE v == decay(average, num, Periods)
           c == integer_divide_ceil(Y, Periods)
<1>8. v + c \in 0 .. X
  <2> HIDE DEF X, Y
  <2>1. CASE average.last + Periods > num
    <3> DEFINE d == num - average.last
    <3>1. d \in Nat \ {0} /\ d <= Periods
      BY <2>1, <1>4, <1>6, SMT
    <3>2. v = (average.value * (Periods - d)) \div Periods
      BY <2>1, <1>6 DEF decay
    <3> HIDE DEF d, v
    <3> QED
      BY <3>1, <3>2, <1>4, <1>5, <1>6, <1>7, DecayMakesRoom, Zenon
  <2>2. CASE ~(average.last + Periods > num)
    <3>1. v = 0
      BY <2>2, <1>6 DEF decay
    <3>2. c \in Nat
      BY <1>4, <1>5, CeilBounds
    <3>3. X <= X * Periods
      BY <1>4, <1>5, TimesPositive
    <3>4. c <= X
      BY <1>4, <1>5, <3>3, CeilLeast, SMT
    <3> HIDE DEF v, c
    <3> QED
      BY <3>1, <3>2, <3>4, <1>5, SMT
  <2> QED
    BY <2>1, <2>2
<1>9. AverageAfter = [last |-> num, value |-> v + c]
  BY DEF AverageAfter, add
<1> HIDE DEF v, c
<1> QED
  BY <1>3, <1>5, <1>6, <1>8, <1>9, SMT DEF Accumulators

\* The limits are right at the start: initialize_database.
LEMMA BlockInit == Init => BlockInv
<1> SUFFICES ASSUME Init PROVE BlockInv
  OBVIOUS
<1>1. max \in Nat /\ Multiplier \in Nat \ {0} /\ Precision \in Nat
  BY LimitsAssumption DEF Init
<1>2. max <= max * Multiplier /\ max * Multiplier \in Nat
  BY <1>1, TimesPositive
<1>3. 0 <= max * Precision
  BY <1>1, SMT
<1>4. VirtualInRange
  BY <1>1, <1>2, SMT DEF Init, VirtualInRange
<1>5. average \in Accumulators /\ average.last < num /\ average.value <= max * Precision
  BY <1>3, SMT DEF Init, NoUsage, Accumulators
<1> QED
  BY <1>1, <1>4, <1>5, SMT DEF Init, BlockInv, PendingFits

\* Every step keeps them.
LEMMA BlockStep == BlockInv /\ [Next]_vars => BlockInv'
<1> SUFFICES ASSUME BlockInv, [Next]_vars PROVE BlockInv'
  OBVIOUS
<1> DEFINE unchanged == UNCHANGED <<pending, average, virtual, max, num>>
<1>0. ASSUME unchanged, chainMax' \in Maxes PROVE BlockInv'
  BY <1>0, Zenon DEF BlockInv, PendingFits, VirtualInRange
<1>1. ASSUME NEW as \in SUBSET Accounts, NEW units \in 0 .. max, NEW greylist \in {1, Multiplier},
             BillTransaction(as, units, greylist)
      PROVE  BlockInv'
  <2>1. max \in Nat /\ pending \in Nat
    BY LimitsAssumption, Zenon DEF BlockInv
  <2>2. pending' = pending + units /\ pending + units <= max
    BY <1>1 DEF BillTransaction, UsageAllowed
  <2>3. pending' \in Nat /\ pending' <= max
    BY <2>1, <2>2, SMT
  <2>4. UNCHANGED <<average, virtual, max, chainMax, num>>
    BY <1>1 DEF BillTransaction
  <2> QED
    BY <2>3, <2>4, Zenon DEF BlockInv, PendingFits, VirtualInRange
<1>2. ASSUME NEW a \in Accounts, NEW w \in Weights, set_account_limits(a, w) PROVE BlockInv'
  BY <1>0, <1>2 DEF set_account_limits, BlockInv
<1>3. ASSUME NEW m \in Maxes, set_parameters(m) PROVE BlockInv'
  BY <1>0, <1>3 DEF set_parameters, BlockInv
<1>4. ASSUME NEW skipped \in 0 .. 1, finalize_block(skipped) PROVE BlockInv'
  <2>1. max' = chainMax /\ chainMax' = chainMax /\ chainMax \in Maxes /\ chainMax \in Nat
    BY <1>4, LimitsAssumption, Zenon DEF finalize_block, BlockInv
  <2>2. pending' = 0
    BY <1>4 DEF finalize_block, PendingAfter
  <2>3. average' = AverageAfter /\ num' = num + 1
    BY <1>4 DEF finalize_block, NextNum
  <2>4. /\ AverageAfter \in Accumulators /\ AverageAfter.last = num
        /\ \E m \in Maxes : AverageAfter.value <= m * Precision
    BY AverageStep
  <2>5. virtual' \in Nat /\ virtual' \in chainMax .. (chainMax * Multiplier)
    <3>1. Precision \in Nat \ {0} /\ AverageAfter.value \in Nat
      BY <2>4, LimitsAssumption DEF Accumulators
    <3>2. average_of(AverageAfter) \in Nat
      BY <3>1, CeilBounds DEF average_of
    <3>3. virtual \in Nat
      BY DEF BlockInv
    <3>4. virtual' = update_elastic_limit(virtual, average_of(AverageAfter), chainMax)
      BY <1>4 DEF finalize_block, VirtualAfter
    <3> QED
      BY <2>1, <3>2, <3>3, <3>4, ElasticInRange
  <2>6. num \in Nat
    BY DEF BlockInv
  <2>7. num' \in Nat /\ average'.last < num'
    BY <2>3, <2>4, <2>6, SMT
  <2>8. pending' \in Nat /\ pending' <= max'
    BY <2>1, <2>2, SMT
  <2> QED
    BY <2>1, <2>3, <2>4, <2>5, <2>7, <2>8, Zenon DEF BlockInv, PendingFits, VirtualInRange
<1>5. CASE RamNext
  <2>1. UNCHANGED no_ram_vars
    BY <1>5, Zenon DEF RamNext, Stake, add_ram_usage, set_need_check_ram_limit, FinishTrx, UndoTrx
  <2> QED
    BY <1>0, <2>1 DEF no_ram_vars, BlockInv
<1>6. CASE UNCHANGED vars
  BY <1>0, <1>6 DEF vars, BlockInv
<1> QED
  BY <1>1, <1>2, <1>3, <1>4, <1>5, <1>6, Zenon DEF Next, BlockNext

\* Whatever the parameters of the chain are and become: the elastic limit of
\* a block stays in the range its parameters give.
THEOREM ElasticLimit == Spec => []VirtualInRange
<1>1. BlockInv => VirtualInRange
  BY DEF BlockInv
<1> QED
  BY <1>1, BlockInit, BlockStep, PTL DEF Spec

\* get_block_cpu_limit never goes below zero, also when the maximum of a
\* block is lowered in a block that used more.
THEOREM BlockLimit == Spec => []PendingFits
<1>1. BlockInv => PendingFits
  BY DEF BlockInv
<1> QED
  BY <1>1, BlockInit, BlockStep, PTL DEF Spec

\* The average that the elastic limit follows is never more than a block can
\* use, for every precision and number of periods.
THEOREM BlockAverage == Spec => []AverageFits
<1>1. BlockInv => AverageFits
  <2> SUFFICES ASSUME BlockInv PROVE AverageFits
    OBVIOUS
  <2>1. PICK m \in Maxes : average.value <= m * Precision
    BY DEF BlockInv
  <2>2. m \in Nat /\ Precision \in Nat \ {0} /\ average.value \in Nat
    BY LimitsAssumption DEF BlockInv, Accumulators
  <2>3. average_of(average) <= m
    BY <2>1, <2>2, CeilLeast DEF average_of
  <2> QED
    BY <2>3 DEF AverageFits
<1> QED
  BY <1>1, BlockInit, BlockStep, PTL DEF Spec

\* integer_divide_ceil is not below the quotient.
LEMMA CeilEnough ==
  ASSUME NEW n \in Nat, NEW d \in Nat \ {0}
  PROVE  n <= integer_divide_ceil(n, d) * d
<1> DEFINE q == n \div d
           r == n % d
<1>1. q \in Nat /\ r \in 0 .. (d - 1) /\ n = d * q + r
  BY SMT
<1>2. integer_divide_ceil(n, d) = IF r > 0 THEN q + 1 ELSE q
  BY <1>1, SMT DEF integer_divide_ceil
<1>3. (q + 1) * d = d * q + d /\ q * d = d * q
  BY <1>1, SMT
<1> QED
  BY <1>1, <1>2, <1>3, SMT

\* What is billed, rounded up, on a usage that was rounded up before, is not
\* above the limit when the window is not longer than the precision.
LEMMA RoundingFits ==
  ASSUME NEW v \in Nat, NEW u \in Nat, NEW S \in Nat,
         NEW w \in Nat \ {0}, NEW p \in Nat \ {0}, w <= p,
         u + integer_divide_ceil(v * w, p) <= S
  PROVE  ((v + integer_divide_ceil(u * p, w)) * w) \div p <= S
<1> DEFINE c == integer_divide_ceil(u * p, w)
           e == integer_divide_ceil(v * w, p)
           n == (v + c) * w
<1>1. u * p \in Nat /\ v * w \in Nat
  BY SMT
<1>2. c \in Nat /\ ((c - 1) * w < u * p \/ u * p = 0) /\ (u * p = 0 => c = 0)
  BY <1>1, CeilBounds, Zenon
<1>3. e \in Nat /\ v * w <= e * p
  BY <1>1, CeilBounds, CeilEnough
<1> HIDE DEF c, e
<1>4. c * w \in Nat /\ c * w < u * p + w
  <2>1. (c - 1) * w = c * w - w /\ c * w \in Nat
    BY <1>2, SMT
  <2>2. CASE u * p = 0
    BY <1>2, <2>2, SMT
  <2>3. CASE (c - 1) * w < u * p
    BY <1>1, <2>1, <2>3, SMT
  <2> QED
    BY <1>2, <2>2, <2>3
<1>5. n = v * w + c * w /\ n \in Nat
  BY <1>2, SMT
<1>6. (e + u + 1) * p = e * p + u * p + p /\ e * p \in Nat
  BY <1>3, SMT
<1> HIDE DEF n
<1>7. n < (e + u + 1) * p
  BY <1>1, <1>3, <1>4, <1>5, <1>6, SMT
<1> DEFINE q == n \div p
<1>8. q \in Nat /\ p * q <= n
  BY <1>5, SMT
<1> HIDE DEF q
<1>9. q <= e + u
  <2>1. SUFFICES ASSUME q > e + u PROVE FALSE
    BY <1>3, <1>8, SMT
  <2>2. PICK k \in Nat : q = (e + u + 1) + k
    BY <2>1, <1>3, <1>8, SMT
  <2>3. p * q = (e + u + 1) * p + k * p /\ k * p \in Nat
    BY <2>2, <1>3, SMT
  <2>4. (e + u + 1) * p \in Nat
    BY <1>3, SMT
  <2> QED
    BY <1>5, <1>7, <1>8, <2>3, <2>4, SMT
<1> QED
  BY <1>3, <1>8, <1>9, SMT DEF c, e, n, q

\* A share of a smaller capacity is not greater.
LEMMA ShareMonotone ==
  ASSUME NEW x \in Nat, NEW y \in Nat, x <= y, NEW k \in Nat, NEW d \in Nat \ {0}
  PROVE  (x * k) \div d \in Nat /\ (y * k) \div d \in Nat /\ (x * k) \div d <= (y * k) \div d
<1> DEFINE m == x * k
           n == y * k
<1>1. m \in Nat /\ n \in Nat /\ m <= n
  BY TimesMonotone
<1> HIDE DEF m, n
<1> DEFINE p == m \div d
           q == n \div d
<1>2. p \in Nat /\ d * p <= m /\ q \in Nat /\ n < d * q + d
  BY <1>1, SMT
<1> HIDE DEF p, q
<1>3. p <= q
  <2>1. SUFFICES ASSUME p > q PROVE FALSE
    BY <1>2, SMT
  <2>2. PICK j \in Nat : p = q + 1 + j
    BY <2>1, <1>2, SMT
  <2>3. d * p = d * q + d + d * j /\ d * j \in Nat /\ d * q \in Nat
    BY <2>2, <1>2, SMT
  <2> QED
    BY <1>1, <1>2, <2>3, SMT
<1> QED
  BY <1>2, <1>3 DEF m, n, p, q

\* What add() leaves is an accumulator, at the ordinal that was given.
LEMMA AddType ==
  ASSUME NEW acc \in Accumulators, NEW units \in Nat, NEW ordinal \in Nat, NEW window \in Nat \ {0}
  PROVE  /\ add(acc, units, ordinal, window) \in Accumulators
         /\ add(acc, units, ordinal, window).last = ordinal
<1>1. acc.value \in Nat /\ acc.last \in Nat /\ Precision \in Nat
  BY LimitsAssumption DEF Accumulators
<1>2. decay(acc, ordinal, window) \in Nat
  <2>1. CASE acc.last # ordinal /\ acc.last + window > ordinal
    <3>1. window - (ordinal - acc.last) \in Nat
      BY <2>1, <1>1, SMT
    <3>2. acc.value * (window - (ordinal - acc.last)) \in Nat
      BY <3>1, <1>1, SMT
    <3>3. (acc.value * (window - (ordinal - acc.last))) \div window \in Nat
      BY <3>2, SMT
    <3> QED
      BY <2>1, <3>3 DEF decay
  <2>2. CASE acc.last = ordinal \/ ~(acc.last + window > ordinal)
    BY <2>2, <1>1 DEF decay
  <2> QED
    BY <2>1, <2>2
<1>3. units * Precision \in Nat
  BY <1>1, SMT
<1>4. integer_divide_ceil(units * Precision, window) \in Nat
  BY <1>3, CeilBounds
<1>5. decay(acc, ordinal, window) + integer_divide_ceil(units * Precision, window) \in Nat
  BY <1>2, <1>4, SMT
<1> QED
  BY <1>5 DEF add, Accumulators

\* In every state of the right types a transaction that is billed for what its
\* accounts can pay passes add_transaction_usage, if each of them can pay
\* anything.
LEMMA BillingAccepted ==
  ASSUME Window <= Precision, TypeOK
  PROVE  BillingNeverFails
<1> SUFFICES ASSUME NEW as \in SUBSET Accounts \ {{}}, NEW units \in 0 .. max,
                    NEW greylist \in {1, Multiplier}, Billable(as, units, greylist),
                    CanPay(as, 1, greylist)
             PROVE  UsageAllowed(as, units)
  BY Zenon DEF BillingNeverFails
<1>1. /\ max \in Nat /\ total \in Nat /\ virtual \in Nat /\ pending \in Nat /\ slot \in Nat
      /\ Window \in Nat \ {0} /\ Precision \in Nat \ {0} /\ greylist \in Nat /\ units \in Nat
  <2>1. Maxes \subseteq Nat /\ Multiplier \in Nat /\ Window \in Nat \ {0} /\ Precision \in Nat \ {0}
    BY LimitsAssumption
  <2>2. max \in Maxes /\ total \in Nat /\ virtual \in Nat /\ pending \in Nat /\ slot \in Nat
    BY DEF TypeOK
  <2>3. max \in Nat /\ greylist \in Nat
    BY <2>1, <2>2
  <2>4. units \in Nat
    BY <2>3, SMT
  <2> QED
    BY <2>1, <2>2, <2>3, <2>4
<1>2. pending + units <= max
  BY <1>1, SMT DEF Billable, get_block_cpu_limit
<1>3. ASSUME NEW a \in as, ~Unlimited(a)
      PROVE  (add(Updated(a), units, slot, Window).value * Window) \div Precision <= Share(a, virtual)
  <2>1. get_account_limits(a) \in Nat /\ total \in Nat \ {0}
    <3>1. weight[a] \in Nat \cup {-1} /\ newWeight[a] \in Nat \cup {-1, Same}
      BY Zenon DEF TypeOK
    <3> QED
      BY <3>1, <1>1, <1>3, SMT DEF get_account_limits, Unlimited, Same
  <2>2. Updated(a).value \in Nat /\ Updated(a).last = slot
    <3>1. usage[a] \in Accumulators
      BY Zenon DEF TypeOK
    <3> QED
      BY <3>1, <1>1, AddType DEF Updated, Accumulators
  <2> DEFINE v == Updated(a).value
             capacity == IF max * greylist < virtual THEN max * greylist ELSE virtual
             used == integer_divide_ceil(v * Window, Precision)
  <2>3. add(Updated(a), units, slot, Window).value = v + integer_divide_ceil(units * Precision, Window)
    BY <2>2 DEF add, decay
  <2>4. /\ units <= IF Share(a, capacity) <= used THEN 0 ELSE Share(a, capacity) - used
        /\ 1 <= IF Share(a, capacity) <= used THEN 0 ELSE Share(a, capacity) - used
    BY <1>3, Zenon DEF Billable, CanPay, get_account_cpu_limit
  <2>5. capacity \in Nat /\ capacity <= virtual
    <3>1. max * greylist \in Nat
      BY <1>1, SMT
    <3> QED
      BY <1>1, <3>1, SMT
  <2>6. Window * get_account_limits(a) \in Nat
    BY <1>1, <2>1, SMT
  <2>7. Share(a, capacity) \in Nat /\ Share(a, virtual) \in Nat /\ Share(a, capacity) <= Share(a, virtual)
    <3> HIDE DEF capacity
    <3> QED
      BY <1>1, <2>1, <2>5, <2>6, ShareMonotone, Zenon DEF Share
  <2>8. v \in Nat /\ v * Window \in Nat /\ used \in Nat
    <3>1. v \in Nat /\ v * Window \in Nat
      BY <1>1, <2>2, SMT
    <3> QED
      BY <1>1, <3>1, CeilBounds
  <2>9. units + used <= Share(a, virtual)
    <3> HIDE DEF capacity, used
    <3> QED
      BY <1>1, <2>4, <2>7, <2>8, SMT
  <2>10. ((v + integer_divide_ceil(units * Precision, Window)) * Window) \div Precision <= Share(a, virtual)
    <3> HIDE DEF v
    <3> QED
      BY <1>1, <2>7, <2>8, <2>9, RoundingFits, SMTT(30)
  <2> QED
    BY <2>3, <2>10
<1> QED
  BY <1>2, <1>3, Zenon DEF UsageAllowed
-----------------------------------------------------------------------------
(* The total weight *)

\* A sum is a natural number, and the sums over two parts make that of the
\* whole.
LEMMA SumFinite ==
  ASSUME NEW S, IsFiniteSet(S), NEW f \in [S -> Nat]
  PROVE  IsFiniteSet(UNION {{a} \X (1 .. f[a]) : a \in S}) /\ Sum(f, S) \in Nat
<1> DEFINE part == [a \in S |-> {a} \X (1 .. f[a])]
           T == {{a} \X (1 .. f[a]) : a \in S}
<1>1. IsFiniteSet(T)
  <2>1. part \in Surjection(S, T)
    BY Zenon DEF Surjection
  <2> QED BY <2>1, FS_Surjection
<1>2. ASSUME NEW U \in T PROVE IsFiniteSet(U)
  <2>1. PICK a \in S : U = {a} \X (1 .. f[a])
    BY <1>2
  <2>2. IsFiniteSet({a})
    BY FS_Singleton, Zenon
  <2>3. 1 \in Int /\ f[a] \in Int
    OBVIOUS
  <2>4. IsFiniteSet(1 .. f[a])
    BY <2>3, FS_Interval
  <2> QED BY <2>1, <2>2, <2>4, FS_Product, Zenon
<1>3. IsFiniteSet(UNION T)
  BY <1>1, <1>2, FS_UNION, Zenon
<1> QED BY <1>3, FS_CardinalityType DEF Sum

\* The sum over a set is the sum over two parts of it.
LEMMA SumSplits ==
  ASSUME NEW S, IsFiniteSet(S), NEW f \in [S -> Nat], NEW P \in SUBSET S
  PROVE  /\ Sum(f, P) \in Nat /\ Sum(f, S \ P) \in Nat
         /\ Sum(f, S) = Sum(f, P) + Sum(f, S \ P)
<1> DEFINE U(Q) == UNION {{a} \X (1 .. f[a]) : a \in Q}
           Q == S \ P
<1>1. IsFiniteSet(P) /\ IsFiniteSet(Q)
  BY FS_Subset
<1>2. IsFiniteSet(U(S))
  BY SumFinite
<1>3. U(S) = U(P) \cup U(Q)
  OBVIOUS
<1>4. U(P) \cap U(Q) = {}
  OBVIOUS
<1>5. U(P) \in SUBSET U(S) /\ U(Q) \in SUBSET U(S)
  BY <1>3
<1>6. IsFiniteSet(U(P)) /\ IsFiniteSet(U(Q))
  BY <1>2, <1>5, FS_Subset
<1>7. Cardinality(U(P)) \in Nat /\ Cardinality(U(Q)) \in Nat
  BY <1>6, FS_CardinalityType
<1>8. Cardinality(U(S)) = Cardinality(U(P)) + Cardinality(U(Q)) - Cardinality({})
  BY <1>3, <1>4, <1>6, FS_Union
<1>9. Cardinality({}) = 0
  BY FS_EmptySet
<1> HIDE DEF U
<1>10. Cardinality(U(S)) = Cardinality(U(P)) + Cardinality(U(Q))
  BY <1>7, <1>8, <1>9, SMT
<1> QED BY <1>7, <1>10 DEF Sum, U

\* The sum depends on the values of the function only.
LEMMA SumSame ==
  ASSUME NEW S, NEW f, NEW g, \A a \in S : f[a] = g[a]
  PROVE  Sum(f, S) = Sum(g, S)
<1>1. {{a} \X (1 .. f[a]) : a \in S} = {{a} \X (1 .. g[a]) : a \in S}
  OBVIOUS
<1> QED BY <1>1, Zenon DEF Sum

\* finalize_block: the accounts that change are taken off the total and put on
\* again, the others are part of both sums.
LEMMA TotalAfter ==
  ASSUME TypeOK, TotalIsSum
  PROVE  /\ NewTotal \in Nat
         /\ NewTotal = Sum(WeightOf([a \in Accounts |-> get_account_limits(a)]), Accounts)
<1> DEFINE old == WeightOf(weight)
           new == WeightOf(newWeight)
           all == WeightOf([a \in Accounts |-> get_account_limits(a)])
           rest == Accounts \ Changed
<1>1. IsFiniteSet(Accounts) /\ Changed \in SUBSET Accounts /\ rest \in SUBSET Accounts
  BY LimitsAssumption DEF Changed
<1>2. /\ weight \in [Accounts -> Nat \cup {-1}]
      /\ newWeight \in [Accounts -> Nat \cup {-1, Same}]
  BY DEF TypeOK
<1>3. old \in [Accounts -> Nat] /\ new \in [Accounts -> Nat] /\ all \in [Accounts -> Nat]
  BY <1>2, SMT DEF WeightOf, Positive, get_account_limits, Same
<1>4. \A a \in Changed : all[a] = new[a]
  BY DEF WeightOf, Changed, get_account_limits
<1>5. \A a \in rest : all[a] = old[a]
  BY DEF WeightOf, Changed, get_account_limits
<1>6. Sum(all, Changed) = Sum(new, Changed)
  BY <1>4, SumSame
<1>7. Sum(all, rest) = Sum(old, rest)
  BY <1>5, SumSame
<1> HIDE DEF old, new, all
<1>8. /\ Sum(old, Changed) \in Nat /\ Sum(old, rest) \in Nat
      /\ Sum(old, Accounts) = Sum(old, Changed) + Sum(old, rest)
  BY <1>1, <1>3, SumSplits
<1>9. /\ Sum(all, Changed) \in Nat /\ Sum(all, rest) \in Nat
      /\ Sum(all, Accounts) = Sum(all, Changed) + Sum(all, rest)
  BY <1>1, <1>3, SumSplits, Zenon
<1>10. total = Sum(old, Accounts)
  BY DEF TotalIsSum, old
<1>11. NewTotal = (total - Sum(old, Changed)) + Sum(new, Changed)
  BY DEF NewTotal, old, new
<1>12. NewTotal \in Nat /\ NewTotal = Sum(all, Accounts)
  BY <1>6, <1>7, <1>8, <1>9, <1>10, <1>11, SMT
<1> QED BY <1>12 DEF all

-----------------------------------------------------------------------------
(* RAM *)

\* The types of what RamNext changes.
RamTyped ==
  /\ ram \in [Accounts -> Nat] /\ staked \in [Accounts -> Nat]
  /\ validate_ram_usage \subseteq Accounts
  /\ undo \in [ram : [Accounts -> Nat], staked : [Accounts -> Nat]]

\* Taking and releasing RAM, changing a stake, and the two ends of a transaction
\* keep the types, and what grew since its beginning is in validate_ram_usage.
LEMMA RamStep ==
  ASSUME RamTyped, RamNext
  PROVE  RamTyped' /\ (GrowthIsValidated => GrowthIsValidated')
<1>1. ASSUME NEW a \in Accounts, NEW amount \in 0 .. MaxRam, Stake(a, amount)
      PROVE  RamTyped' /\ (GrowthIsValidated => GrowthIsValidated')
  <2>1. amount \in Nat
    BY LimitsAssumption, SMT
  <2>2. UNCHANGED <<ram, validate_ram_usage, undo>> /\ staked' = [staked EXCEPT ![a] = amount]
    BY <1>1 DEF Stake
  <2> QED
    BY <2>1, <2>2 DEF RamTyped, GrowthIsValidated
<1>2. ASSUME NEW a \in Accounts, NEW delta \in -MaxRam .. MaxRam, add_ram_usage(a, delta)
      PROVE  RamTyped' /\ (GrowthIsValidated => GrowthIsValidated')
  <2>1. MaxRam \in Nat /\ delta \in Int
    BY LimitsAssumption, SMT
  <2>2. ram[a] + delta \in Nat /\ ram' = [ram EXCEPT ![a] = ram[a] + delta]
    BY <1>2, <2>1, SMT DEF add_ram_usage
  <2>3. /\ UNCHANGED <<staked, undo>>
        /\ validate_ram_usage' = IF delta > 0 THEN validate_ram_usage \cup {a} ELSE validate_ram_usage
    BY <1>2 DEF add_ram_usage
  <2>4. RamTyped'
    BY <2>2, <2>3 DEF RamTyped
  <2>5. ASSUME GrowthIsValidated, NEW b \in Accounts, ram'[b] > undo.ram[b]
        PROVE  b \in validate_ram_usage'
    <3>1. /\ ram[a] \in Nat /\ ram[b] \in Nat /\ undo.ram[b] \in Nat
          /\ ram'[b] = IF b = a THEN ram[a] + delta ELSE ram[b]
      BY <2>2 DEF RamTyped
    <3>2. CASE b = a /\ delta > 0
      BY <2>3, <3>2
    <3>3. CASE b # a \/ ~(delta > 0)
      <4>1. ram[b] > undo.ram[b]
        BY <2>1, <2>5, <3>1, <3>3, SMT
      <4> QED
        BY <2>3, <2>5, <4>1 DEF GrowthIsValidated
    <3> QED
      BY <3>2, <3>3
  <2>6. undo' = undo
    BY <2>3
  <2> QED
    BY <2>4, <2>5, <2>6 DEF GrowthIsValidated
<1>3. ASSUME NEW a \in Accounts, set_need_check_ram_limit(a)
      PROVE  RamTyped' /\ (GrowthIsValidated => GrowthIsValidated')
  BY <1>3 DEF set_need_check_ram_limit, RamTyped, GrowthIsValidated
<1>4. CASE FinishTrx
  <2>1. /\ UNCHANGED <<ram, staked>> /\ validate_ram_usage' = {}
        /\ undo' = [ram |-> ram, staked |-> staked]
    BY <1>4 DEF FinishTrx
  <2>2. RamTyped'
    BY <2>1 DEF RamTyped
  <2>3. ASSUME NEW b \in Accounts PROVE ~(ram'[b] > undo'.ram[b])
    BY <2>1, SMT DEF RamTyped
  <2> QED
    BY <2>2, <2>3 DEF GrowthIsValidated
<1>5. CASE UndoTrx
  <2>1. ram' = undo.ram /\ staked' = undo.staked /\ validate_ram_usage' = {} /\ undo' = undo
    BY <1>5 DEF UndoTrx
  <2>2. RamTyped'
    BY <2>1 DEF RamTyped
  <2>3. ASSUME NEW b \in Accounts PROVE ~(ram'[b] > undo'.ram[b])
    BY <2>1, SMT DEF RamTyped
  <2> QED
    BY <2>2, <2>3 DEF GrowthIsValidated
<1> QED
  BY <1>1, <1>2, <1>3, <1>4, <1>5, Zenon DEF RamNext

\* What RAM grew will be checked, after every step.
LEMMA GrowthStep == TypeOK /\ GrowthIsValidated /\ [Next]_vars => GrowthIsValidated'
<1> SUFFICES ASSUME TypeOK, GrowthIsValidated, [Next]_vars PROVE GrowthIsValidated'
  OBVIOUS
<1>1. CASE RamNext
  BY <1>1, RamStep DEF TypeOK, RamTyped
<1>2. CASE BlockNext
  <2>1. UNCHANGED <<ram, validate_ram_usage, undo>>
    BY <1>2, Zenon DEF BlockNext, BillTransaction, set_account_limits, set_parameters, finalize_block
  <2> QED
    BY <2>1 DEF GrowthIsValidated
<1>3. CASE UNCHANGED vars
  BY <1>3 DEF vars, GrowthIsValidated
<1> QED
  BY <1>1, <1>2, <1>3 DEF Next

-----------------------------------------------------------------------------
\* The types and the total hold at the start.
LEMMA AccountsInit == Init => TypeOK /\ TotalIsSum
<1> SUFFICES ASSUME Init PROVE TypeOK /\ TotalIsSum
  OBVIOUS
<1>1. max \in Nat
  BY LimitsAssumption DEF Init
<1>2. TypeOK
  BY <1>1 DEF Init, TypeOK, NoUsage, Accumulators
<1>3. UNION {{a} \X (1 .. WeightOf(weight)[a]) : a \in Accounts} = {}
  BY DEF Init, WeightOf, Positive
<1>4. TotalIsSum
  BY <1>3, FS_EmptySet DEF Init, TotalIsSum, Sum
<1> QED
  BY <1>2, <1>4

\* Every step keeps them, in a state whose block is within its limits.
LEMMA AccountsStep == TypeOK /\ TotalIsSum /\ BlockInv /\ [Next]_vars => TypeOK' /\ TotalIsSum'
<1> SUFFICES ASSUME TypeOK, TotalIsSum, BlockInv, [Next]_vars PROVE TypeOK' /\ TotalIsSum'
  OBVIOUS
<1>0. /\ BlockInv'
      /\ Maxes \subseteq Nat /\ Weights \subseteq Nat \cup {-1} /\ MaxRam \in Nat
      /\ Window \in Nat \ {0} /\ max \in Nat
  BY BlockStep, LimitsAssumption, Zenon DEF BlockInv
<1>1. /\ {max, chainMax}' \subseteq Maxes /\ (pending \in Nat)' /\ (virtual \in Nat)'
      /\ (num \in Nat)' /\ (average \in Accumulators)'
  BY <1>0, Zenon DEF BlockInv
<1>2. ASSUME NEW as \in SUBSET Accounts, NEW units \in 0 .. max, NEW greylist \in {1, Multiplier},
             BillTransaction(as, units, greylist)
      PROVE  TypeOK' /\ TotalIsSum'
  <2>1. units \in Nat
    BY <1>0, SMT
  <2>2. ASSUME NEW a \in Accounts PROVE add(Updated(a), units, slot, Window) \in Accumulators
    <3>1. usage[a] \in Accumulators /\ slot \in Nat
      BY DEF TypeOK
    <3>2. Updated(a) \in Accumulators
      BY <1>0, <3>1, AddType DEF Updated
    <3> QED
      BY <1>0, <2>1, <3>1, <3>2, AddType, Zenon
  <2>3. usage' \in [Accounts -> Accumulators]
    BY <1>2, <2>2, Zenon DEF BillTransaction, TypeOK
  <2>4. UNCHANGED <<weight, newWeight, total, ram, staked, validate_ram_usage, undo, slot>>
    BY <1>2 DEF BillTransaction
  <2> QED
    BY <1>1, <2>3, <2>4 DEF TypeOK, TotalIsSum
<1>3. ASSUME NEW a \in Accounts, NEW w \in Weights, set_account_limits(a, w)
      PROVE  TypeOK' /\ TotalIsSum'
  <2>1. newWeight' \in [Accounts -> Nat \cup {-1, Same}]
    BY <1>0, <1>3 DEF set_account_limits, TypeOK
  <2>2. UNCHANGED <<usage, weight, total, ram, staked, validate_ram_usage, undo, slot>>
    BY <1>3 DEF set_account_limits
  <2> QED
    BY <1>1, <2>1, <2>2, SMTT(30) DEF TypeOK, TotalIsSum
<1>4. ASSUME NEW m \in Maxes, set_parameters(m) PROVE TypeOK' /\ TotalIsSum'
  <2>1. UNCHANGED <<usage, weight, newWeight, total, ram, staked, validate_ram_usage, undo, slot>>
    BY <1>4 DEF set_parameters
  <2> QED
    BY <1>1, <2>1 DEF TypeOK, TotalIsSum
<1>5. ASSUME NEW skipped \in 0 .. 1, finalize_block(skipped) PROVE TypeOK' /\ TotalIsSum'
  <2>1. weight' = [a \in Accounts |-> get_account_limits(a)] /\ total' = NewTotal
    BY <1>5 DEF finalize_block
  <2>2. total' \in Nat /\ TotalIsSum'
    BY <2>1, TotalAfter DEF TotalIsSum
  <2>3. weight' \in [Accounts -> Nat \cup {-1}]
    <3>1. ASSUME NEW a \in Accounts PROVE get_account_limits(a) \in Nat \cup {-1}
      BY DEF TypeOK, get_account_limits
    <3> QED
      BY <2>1, <3>1
  <2>4. newWeight' \in [Accounts -> Nat \cup {-1, Same}]
    BY <1>5 DEF finalize_block
  <2>5. slot' \in Nat
    BY <1>5, SMT DEF finalize_block, TypeOK
  <2>6. UNCHANGED <<usage, ram, staked, validate_ram_usage, undo>>
    BY <1>5 DEF finalize_block
  <2> QED
    BY <1>1, <2>2, <2>3, <2>4, <2>5, <2>6 DEF TypeOK
<1>6. CASE RamNext
  <2>1. UNCHANGED <<usage, weight, newWeight, total, slot>>
    BY <1>6, Zenon DEF RamNext, Stake, add_ram_usage, set_need_check_ram_limit, FinishTrx, UndoTrx, no_ram_vars
  <2>2. RamTyped'
    BY <1>6, RamStep DEF TypeOK, RamTyped
  <2> QED
    BY <1>1, <2>1, <2>2 DEF TypeOK, RamTyped, TotalIsSum
<1>7. CASE UNCHANGED vars
  BY <1>7 DEF vars, TypeOK, TotalIsSum
<1> QED
  BY <1>2, <1>3, <1>4, <1>5, <1>6, <1>7, Zenon DEF Next, BlockNext

-----------------------------------------------------------------------------
\* Whatever accounts, weights and parameters a chain has: every unsigned value
\* stays natural, the total weight is that of the accounts, and the limits of a
\* block hold.
THEOREM LimitsAlwaysHold == Spec => []LimitsInv
<1>1. Init => LimitsInv
  <2>1. Init => GrowthIsValidated
    BY SMT DEF Init, GrowthIsValidated
  <2> QED
    BY <2>1, BlockInit, AccountsInit DEF LimitsInv
<1>2. LimitsInv /\ [Next]_vars => LimitsInv'
  BY BlockStep, AccountsStep, GrowthStep DEF LimitsInv
<1> QED
  BY <1>1, <1>2, PTL DEF Spec

\* A transaction that is billed for what its accounts can pay, and each of them
\* can pay something, passes add_transaction_usage, also when it is billed
\* nothing, for every window that is not longer than the precision, as that of
\* the code is.
THEOREM ShouldNeverFail ==
  ASSUME Window <= Precision
  PROVE  Spec => []BillingNeverFails
<1>1. LimitsInv => BillingNeverFails
  BY BillingAccepted DEF LimitsInv
<1> QED
  BY <1>1, LimitsAlwaysHold, PTL

\* What a transaction leaves takes more RAM of an account only within the limit
\* at its end, in whatever steps it took the RAM and changed the stake: what
\* grew since the beginning is in validate_ram_usage.
THEOREM RamStaysWithinLimit == Spec => RamGrowsWithinLimit
<1> DEFINE A == \A a \in Accounts \ SystemAccounts :
                  undo'.ram[a] > undo.ram[a] => undo'.ram[a] <= undo'.staked[a] + FreeRam
<1>1. LimitsInv /\ [Next]_vars => [A]_vars
  <2> SUFFICES ASSUME LimitsInv, Next PROVE A
    OBVIOUS
  <2>1. /\ ram \in [Accounts -> Nat] /\ staked \in [Accounts -> Nat] /\ FreeRam \in Nat
        /\ undo.ram \in [Accounts -> Nat] /\ GrowthIsValidated
    BY LimitsAssumption DEF LimitsInv, TypeOK
  <2>2. CASE undo' = undo
    BY <2>1, <2>2, SMT
  <2>3. CASE FinishTrx
    <3> SUFFICES ASSUME NEW a \in Accounts \ SystemAccounts, undo'.ram[a] > undo.ram[a]
                 PROVE  undo'.ram[a] <= undo'.staked[a] + FreeRam
      OBVIOUS
    <3>1. undo'.ram[a] = ram[a] /\ undo'.staked[a] = staked[a]
      BY <2>3 DEF FinishTrx
    <3>2. a \in validate_ram_usage
      BY <2>1, <3>1 DEF GrowthIsValidated
    <3>3. RamVerified(a)
      BY <2>3, <3>2 DEF FinishTrx
    <3>4. staked[a] \in Nat
      BY <2>1
    <3> QED
      BY <2>1, <3>1, <3>3, <3>4, SMT DEF RamVerified, get_account_ram_limit
  <2> QED
    BY <2>2, <2>3, Zenon DEF Next, BlockNext, RamNext, BillTransaction, set_account_limits,
         set_parameters, finalize_block, Stake, add_ram_usage, set_need_check_ram_limit, UndoTrx
<1> QED
  BY <1>1, LimitsAlwaysHold, PTL DEF Spec, RamGrowsWithinLimit
=============================================================================
