--------------------------- MODULE ResourceLimits ---------------------------
(***************************************************************************)
(* The resource limits of a chain: what accounts and blocks used of a      *)
(* bandwidth resource (CPU time, or network bytes, which the code treats   *)
(* alike), averaged over a window in fixed-point arithmetic, the elastic   *)
(* limit of a block, the weights by which accounts share it, and RAM.      *)
(***************************************************************************)
EXTENDS Integers, FiniteSets

CONSTANTS
  Accounts,
  Precision,    \* rate_limiting_precision
  Window,       \* account_cpu_usage_average_window
  Periods,      \* elastic_limit_parameters::periods
  Multiplier,   \* maximum_elastic_resource_multiplier
  Contract,     \* contract_rate, a pair
  Expand,       \* expand_rate, a pair
  TargetPct,    \* target_block_cpu_usage_pct
  Maxes,        \* values of max_block_cpu_usage
  Weights,      \* weights given to accounts, -1 for unlimited
  SystemAccounts, \* those without a limit of RAM
  FreeRam,      \* free_ram_per_account
  MaxRam,       \* bound on the RAM an account uses and on what it stakes for it
  MaxSlot       \* bound on the time

ASSUME LimitsAssumption ==
  /\ IsFiniteSet(Accounts) /\ SystemAccounts \subseteq Accounts
  /\ {Precision, Window, Periods, Multiplier} \subseteq Nat \ {0}
  /\ Contract \in (Nat \X (Nat \ {0})) /\ Expand \in (Nat \X (Nat \ {0}))
  /\ TargetPct \in 0 .. 100
  /\ Maxes \subseteq Nat /\ Maxes # {}
  /\ Weights \subseteq Nat \cup {-1}
  /\ FreeRam \in Nat /\ MaxRam \in Nat /\ MaxSlot \in Nat

VARIABLES
  usage,      \* of an account: an accumulator, see NoUsage
  weight,     \* of an account: its limits object
  newWeight,  \* its pending limits object, Same if there is none
  total,      \* total_cpu_weight
  pending,    \* pending_cpu_usage
  average,    \* average_block_cpu_usage
  virtual,    \* virtual_cpu_limit
  max,        \* cpu_limit_parameters.max
  chainMax,   \* max_block_cpu_usage of the chain configuration
  ram,        \* of an account: what it uses
  staked,     \* of an account: what it staked for RAM
  validate_ram_usage, \* of the transaction that runs: whose RAM it increased
  undo,       \* its undo session: ram and staked before it
  slot, num   \* of the pending block

vars == <<usage, weight, newWeight, total, pending, average, virtual, max, chainMax, ram, staked, validate_ram_usage, undo, slot, num>>
-----------------------------------------------------------------------------
integer_divide_ceil(n, d) == (n \div d) + (IF n % d > 0 THEN 1 ELSE 0)

NoUsage == [last |-> 0, value |-> 0]

average_of(acc) == integer_divide_ceil(acc.value, Precision)

\* The value of an accumulator at a later ordinal.
decay(acc, ordinal, window) ==
  IF acc.last = ordinal THEN acc.value
  ELSE IF acc.last + window > ordinal
  THEN (acc.value * (window - (ordinal - acc.last))) \div window
  ELSE 0

\* exponential_moving_average_accumulator::add
add(acc, units, ordinal, window) ==
  [last |-> ordinal,
   value |-> decay(acc, ordinal, window) + integer_divide_ceil(units * Precision, window)]

Times(v, rate) == (v * rate[1]) \div rate[2]

update_elastic_limit(current, avg, m) ==
  LET target == (m * TargetPct) \div 100
      result == Times(current, IF avg > target THEN Contract ELSE Expand)
      low == IF result < m THEN m ELSE result
  IN IF low > m * Multiplier THEN m * Multiplier ELSE low
-----------------------------------------------------------------------------
Same == -2

\* get_account_limits: a pending object counts at once.
get_account_limits(a) == IF newWeight[a] # Same THEN newWeight[a] ELSE weight[a]

get_block_cpu_limit == max - pending

Unlimited(a) == get_account_limits(a) < 0 \/ total = 0

Share(a, capacity) == (capacity * (Window * get_account_limits(a))) \div total

get_account_cpu_limit_Floor(a, acc, greylist) ==
  LET capacity == IF max * greylist < virtual THEN max * greylist ELSE virtual
      used == (acc.value * Window) \div Precision
  IN IF Share(a, capacity) <= used THEN 0 ELSE Share(a, capacity) - used

\* get_account_cpu_limit_ex: what an account may still use; a greylisted one
\* has no part in the elasticity of the limit.
get_account_cpu_limit(a, acc, greylist) ==
  LET capacity == IF max * greylist < virtual THEN max * greylist ELSE virtual
      used == integer_divide_ceil(acc.value * Window, Precision)
  IN IF Share(a, capacity) <= used THEN 0 ELSE Share(a, capacity) - used

\* update_account_usage
Updated(a) == add(usage[a], 0, slot, Window)

\* max_bandwidth_billed_accounts_can_pay
CanPay(as, units, greylist) ==
  \A a \in as : ~Unlimited(a) => units <= get_account_cpu_limit(a, Updated(a), greylist)

\* What the accounts can pay and the block has left
Billable(as, units, greylist) == units <= get_block_cpu_limit /\ CanPay(as, units, greylist)

\* The assertions of add_transaction_usage
UsageAllowed(as, units) ==
  /\ \A a \in as :
       ~Unlimited(a) =>
       (add(Updated(a), units, slot, Window).value * Window) \div Precision <= Share(a, virtual)
  /\ pending + units <= max

\* A transaction that is billed: update_account_usage in init, the limits in
\* finalize, add_transaction_usage.
BillTransaction(as, units, greylist) ==
  /\ Billable(as, units, greylist) /\ UsageAllowed(as, units)
  /\ usage' = [a \in Accounts |-> IF a \in as THEN add(Updated(a), units, slot, Window) ELSE usage[a]]
  /\ pending' = pending + units
  /\ UNCHANGED <<weight, newWeight, total, average, virtual, max, chainMax, ram, staked, validate_ram_usage, undo, slot, num>>

set_account_limits(a, w) ==
  /\ newWeight' = [newWeight EXCEPT ![a] = w]
  /\ UNCHANGED <<usage, weight, total, pending, average, virtual, max, chainMax, ram, staked, validate_ram_usage, undo, slot, num>>

\* set_blockchain_parameters: the limits follow when the block is finished.
set_parameters(m) ==
  /\ m # chainMax
  /\ chainMax' = m
  /\ UNCHANGED <<usage, weight, newWeight, total, pending, average, virtual, max, ram, staked, validate_ram_usage, undo, slot, num>>

-----------------------------------------------------------------------------
(* The RAM of a transaction.  A transaction is the steps between two states
   without one; the contract of the system account changes what an account
   staked (vote4ramsum) as a step of it. *)
no_ram_vars == <<usage, weight, newWeight, total, pending, average, virtual, max, chainMax, slot, num>>

\* No transaction runs.
Idle == validate_ram_usage = {} /\ undo = [ram |-> ram, staked |-> staked]

get_account_ram_limit(a) == IF a \in SystemAccounts THEN -1 ELSE staked[a] + FreeRam

Stake(a, amount) ==
  /\ staked' = [staked EXCEPT ![a] = amount]
  /\ UNCHANGED <<no_ram_vars, ram, validate_ram_usage, undo>>

add_ram_usage_Released(a, delta) ==
  /\ ram[a] + delta \in 0 .. MaxRam
  /\ ram' = [ram EXCEPT ![a] = @ + delta]
  /\ validate_ram_usage' = IF delta > 0 THEN validate_ram_usage \cup {a} ELSE validate_ram_usage \ {a}
  /\ UNCHANGED <<no_ram_vars, staked, undo>>

\* transaction_context::add_ram_usage with add_pending_ram_usage: not below
\* zero; an increase is checked in the end.
add_ram_usage(a, delta) ==
  /\ ram[a] + delta \in 0 .. MaxRam
  /\ ram' = [ram EXCEPT ![a] = @ + delta]
  /\ validate_ram_usage' = IF delta > 0 THEN validate_ram_usage \cup {a} ELSE validate_ram_usage
  /\ UNCHANGED <<no_ram_vars, staked, undo>>

\* set_need_check_ram_limit: a privileged contract has an account checked,
\* whose stake it changed, say.
set_need_check_ram_limit(a) ==
  /\ validate_ram_usage' = validate_ram_usage \cup {a}
  /\ UNCHANGED <<no_ram_vars, ram, staked, undo>>

\* verify_account_ram_usage
RamVerified(a) == get_account_ram_limit(a) >= 0 => ram[a] <= get_account_ram_limit(a)

\* transaction_context::finalize and squash
FinishTrx ==
  /\ \A a \in validate_ram_usage : RamVerified(a)
  /\ validate_ram_usage' = {} /\ undo' = [ram |-> ram, staked |-> staked]
  /\ UNCHANGED <<no_ram_vars, ram, staked>>

\* The transaction fails, in finalize or before it.
UndoTrx ==
  /\ ram' = undo.ram /\ staked' = undo.staked /\ validate_ram_usage' = {}
  /\ UNCHANGED <<no_ram_vars, undo>>
-----------------------------------------------------------------------------
Positive(w) == IF w > 0 THEN w ELSE 0

\* The sum of the natural numbers f[a]: a has f[a] elements in the set.
Sum(f, S) == Cardinality(UNION {{a} \X (1 .. f[a]) : a \in S})

Changed == {a \in Accounts : newWeight[a] # Same}

WeightOf(w) == [a \in Accounts |-> Positive(w[a])]

\* process_account_limit_updates: unlimited accounts have no part.
NewTotal == (total - Sum(WeightOf(weight), Changed)) + Sum(WeightOf(newWeight), Changed)

AverageAfter == add(average, pending, num, Periods)

\* process_block_usage resets the pending usage.
PendingAfter == 0

VirtualAfter_OldParameters == update_elastic_limit(virtual, average_of(AverageAfter), max)

\* process_block_usage, after set_block_parameters
VirtualAfter == update_elastic_limit(virtual, average_of(AverageAfter), chainMax)

NextNum == num + 1

\* finalize_block, and the next block some slots later.
finalize_block(skipped) ==
  /\ slot + skipped < MaxSlot
  /\ weight' = [a \in Accounts |-> get_account_limits(a)]
  /\ newWeight' = [a \in Accounts |-> Same]
  /\ total' = NewTotal
  /\ max' = chainMax
  /\ average' = AverageAfter
  /\ virtual' = VirtualAfter
  /\ pending' = PendingAfter
  /\ slot' = slot + skipped + 1
  /\ num' = NextNum
  /\ UNCHANGED <<usage, chainMax, ram, staked, validate_ram_usage, undo>>

\* initialize_database and initialize_account
Init ==
  /\ usage = [a \in Accounts |-> NoUsage]
  /\ weight = [a \in Accounts |-> -1]
  /\ newWeight = [a \in Accounts |-> Same]
  /\ total = 0 /\ pending = 0 /\ average = NoUsage
  /\ max \in Maxes /\ virtual = max /\ chainMax = max
  /\ ram = [a \in Accounts |-> 0] /\ staked = [a \in Accounts |-> 0]
  /\ validate_ram_usage = {} /\ undo = [ram |-> ram, staked |-> staked]
  /\ slot = 1 /\ num = 1

BlockNext ==
  \/ \E as \in SUBSET Accounts \ {{}}, units \in 0 .. max, greylist \in {1, Multiplier} :
       BillTransaction(as, units, greylist)
  \/ \E a \in Accounts, w \in Weights : set_account_limits(a, w)
  \/ \E m \in Maxes : set_parameters(m)
  \/ \E skipped \in 0 .. 1 : finalize_block(skipped)

RamNext ==
  \/ \E a \in Accounts \ SystemAccounts, amount \in 0 .. MaxRam : Stake(a, amount)
  \/ \E a \in Accounts, delta \in -MaxRam .. MaxRam : add_ram_usage(a, delta)
  \/ \E a \in Accounts : set_need_check_ram_limit(a)
  \/ FinishTrx
  \/ UndoTrx

Next == (Idle /\ BlockNext) \/ RamNext

Spec == Init /\ [][Next]_vars
-----------------------------------------------------------------------------
Accumulators == [last : Nat, value : Nat]

\* The variables have their types; nothing unsigned goes below zero.
TypeOK ==
  /\ usage \in [Accounts -> Accumulators] /\ average \in Accumulators
  /\ weight \in [Accounts -> Nat \cup {-1}]
  /\ newWeight \in [Accounts -> Nat \cup {-1, Same}]
  /\ {total, pending, virtual, slot, num} \subseteq Nat
  /\ {max, chainMax} \subseteq Maxes
  /\ ram \in [Accounts -> Nat] /\ staked \in [Accounts -> Nat]
  /\ validate_ram_usage \subseteq Accounts
  /\ undo \in [ram : [Accounts -> Nat], staked : [Accounts -> Nat]]

\* process_account_limit_updates: the total weight is that of the accounts
\* that have one, so its underflow assertion never fires.
TotalIsSum == total = Sum(WeightOf(weight), Accounts)

\* update_elastic_limit with set_block_parameters: the virtual limit stays
\* between the maximum of a block and a multiple of it, also when the
\* maximum is changed on the chain.
VirtualInRange == virtual \in max .. (max * Multiplier)

\* get_block_cpu_limit: what is left in the block never goes below zero (it
\* is unsigned), also when the maximum is lowered on the chain.
PendingFits == pending <= max

\* add_transaction_usage: what the billed accounts can pay, and the block has
\* left, is not refused, whatever rounding did, as long as every account has
\* something left.  An account whose limit was lowered below what it used has
\* not, and is refused even zero units, which is what an objective failure of
\* a generated transaction may bill under "Should never fail".
BillingNeverFails ==
  \A as \in SUBSET Accounts \ {{}}, units \in 0 .. max, greylist \in {1, Multiplier} :
    Billable(as, units, greylist) /\ CanPay(as, 1, greylist) => UsageAllowed(as, units)

\* exponential_moving_average_accumulator::add: rounding never makes the
\* average of the blocks greater than a block can be.
AverageFits == \E m \in Maxes : average_of(average) <= m

\* verify_account_ram_usage: what a transaction leaves takes more RAM of an
\* account than there was before it only within the limit at its end, however
\* the transaction took and released RAM and changed the stake in between.  An
\* account whose stake was withdrawn may be over its limit, but not grow.
RamGrowsWithinLimit ==
  [][\A a \in Accounts \ SystemAccounts :
       undo'.ram[a] > undo.ram[a] => undo'.ram[a] <= undo'.staked[a] + FreeRam]_vars

\* add_ram_usage: what grew since the transaction began will be checked.
GrowthIsValidated == \A a \in Accounts : ram[a] > undo.ram[a] => a \in validate_ram_usage

\* What makes these inductive: blocks are added in order, so that the value
\* decays before something is added to it.
BlockInv ==
  /\ {max, chainMax} \subseteq Maxes
  /\ pending \in Nat /\ PendingFits
  /\ virtual \in Nat /\ VirtualInRange
  /\ num \in Nat /\ average \in Accumulators /\ average.last < num
  /\ \E m \in Maxes : average.value <= m * Precision

\* All limits together: the types, the total weight, and the limits of a block
\* (process_account_limit_updates, process_block_usage), and that the RAM that
\* grew will be checked (add_ram_usage).
LimitsInv == TypeOK /\ TotalIsSum /\ BlockInv /\ GrowthIsValidated
=============================================================================
