---------------------------- MODULE FeeSchedule ----------------------------
(***************************************************************************)
(* What actions cost and what their fees buy: the fees compiled in, those  *)
(* that setfee stores, the limits on CPU and NET that a transaction gets   *)
(* from them (make_limit_by_contract while a transaction pays its fee,     *)
(* add_limit_by_fee once actions do), and fees that are paid with the age  *)
(* of votes (voteagefee).                                                  *)
(***************************************************************************)
EXTENDS Integers, Sequences, FiniteSets, SequencesExt

CONSTANTS
  Actions,     \* the actions of transactions
  NativeFee,   \* what the compiled-in table has for each, 0 for none
  Fees,        \* fees that are set
  Limits,      \* limits that force.test sets: cpu, net, ram
  Ext,         \* what a transaction offers above its fee
  Rates,       \* values that res.cpufee is set to
  Voters,      \* accounts that voted for the producer
  Staked,      \* what each of them staked, in 0.0001
  Balance,     \* what each of them has available
  Unit,        \* one EOS in 0.0001: 10000
  Cent,        \* 0.01 EOS in 0.0001: 100
  VoteageRatio, \* res.votager: 10000 is one voteage for 0.0001
  MaxLen,      \* bound on the actions of a transaction
  MaxHead,     \* bound on the blocks
  OpenAt       \* f.votagen and f.onfeeact, -1 while not set

NoFee == [fee |-> 0, cpu |-> 0, net |-> 0, ram |-> 0]

FeeAssumption ==
  /\ NativeFee \in [Actions -> Nat] /\ Fees \subseteq Nat \ {0}
  /\ \A l \in Limits : l \in [cpu : Nat, net : Nat, ram : Nat]
  /\ Ext \subseteq Nat /\ Rates \subseteq Nat /\ Staked \in [Voters -> Nat]
  /\ {Balance, VoteageRatio, MaxLen, MaxHead} \subseteq Nat /\ {Unit, Cent} \subseteq Nat \ {0} /\ OpenAt \in Int

VARIABLES
  fees,    \* action_fee_object of each action, NoFee for none
  rate,    \* res.cpufee, -1 while not set
  head,    \* head_block_num
  avail,   \* what each voter has available
  votes,   \* voteage and the block it was last brought up to date, of each voter
  bp       \* the same of the producer

vars == <<fees, rate, head, avail, votes, bp>>

Transactions == SeqOf(Actions, MaxLen) \ {<<>>}

Total(s) == FoldLeft(LAMBDA x, y : x + y, 0, s)
-----------------------------------------------------------------------------
HasFee(f, a) == f[a] # NoFee

\* get_required_fee of an action: what setfee stored goes before what is
\* compiled in; with neither the transaction fails.
get_required_fee(f, a) == IF f[a].fee # 0 THEN f[a].fee ELSE NativeFee[a]

Charged(f, t) == \A i \in DOMAIN t : get_required_fee(f, t[i]) # 0

RequiredFee(f, t) == Total([i \in DOMAIN t |-> get_required_fee(f, t[i])])

CpuPerFee(r, default) == IF r = -1 THEN default ELSE r

Unlimited == [limited |-> FALSE, cpu |-> 0, net |-> 0]

AddLimit(l, cpu, net) == [limited |-> TRUE, cpu |-> l.cpu + cpu, net |-> l.net + net]

ZeroLimit_Cpu(f) == f.cpu = 0

ZeroLimit(f) == f.cpu = 0 /\ f.net = 0 /\ f.ram = 0

BuyLimit(l, fee, r) ==
  IF fee > 0 /\ l.limited
  THEN AddLimit(l, (fee \div Cent) * CpuPerFee(r, 100), (fee \div Cent) * 10000)
  ELSE l

\* make_limit_by_contract: actions without setfee add nothing; the fees of
\* those without a limit are added up with ext before they are rounded.
make_limit_by_contract(f, r, t, ext) ==
  LET step(acc, a) ==
        IF ~HasFee(f, a) THEN acc
        ELSE IF ~ZeroLimit(f[a]) THEN [acc EXCEPT !.l = AddLimit(@, f[a].cpu, f[a].net)]
        ELSE [l |-> AddLimit(acc.l, 0, 0), fee |-> acc.fee + f[a].fee]
      sum == FoldLeft(step, [l |-> Unlimited, fee |-> ext], t)
  IN BuyLimit(sum.l, sum.fee, r)

\* add_limit_by_fee of each action, with other defaults, and without a look
\* at the limit on RAM.
add_limit_by_fee(f, r, t) ==
  LET step(l, a) ==
        IF ~HasFee(f, a) THEN l
        ELSE IF f[a].cpu > 0 \/ f[a].net > 0 THEN AddLimit(l, f[a].cpu, f[a].net)
        ELSE AddLimit(l, (f[a].fee \div Cent) * CpuPerFee(r, 200), (f[a].fee \div Cent) * 512)
  IN FoldLeft(step, Unlimited, t)

\* finalize
WithinLimit(l, cpu, net) == l.limited => cpu <= l.cpu /\ net <= l.net
-----------------------------------------------------------------------------
is_func_has_open(num, h) == num >= 0 /\ h >= num

Votes(v) == Staked[v] \div Unit

SumOver(S, op(_)) == FoldLeft(LAMBDA x, v : x + op(v), 0, SetToSeq(S))

\* total_staked of the producer, which the system contract keeps in whole EOS
TotalStaked == SumOver(Voters, Votes)

Newest(rec, staked, h) == rec.voteage + staked * (h - rec.height)

Init ==
  /\ fees = [a \in Actions |-> NoFee]
  /\ rate = -1
  /\ head = 1
  /\ avail = [v \in Voters |-> Balance]
  /\ votes = [v \in Voters |-> [voteage |-> 0, height |-> 1]]
  /\ bp = [voteage |-> 0, height |-> 1]

NextBlock ==
  /\ head < MaxHead
  /\ head' = head + 1
  /\ UNCHANGED <<fees, rate, avail, votes, bp>>

\* apply_eosio_setfee: only force.test sets a limit above zero.
setfee(a, fee, l, by) ==
  /\ by = "account" => l = [cpu |-> 0, net |-> 0, ram |-> 0]
  /\ fees' = [fees EXCEPT ![a] = [fee |-> fee, cpu |-> l.cpu, net |-> l.net, ram |-> l.ram]]
  /\ UNCHANGED <<rate, head, avail, votes, bp>>

setconfig(r) == rate' = r /\ UNCHANGED <<fees, head, avail, votes, bp>>

\* A transaction that pays its own fee: onfee
PayByTransaction(v, t, ext, cpu, net) ==
  /\ ~is_func_has_open(OpenAt, head)
  /\ Charged(fees, t)
  /\ WithinLimit(make_limit_by_contract(fees, rate, t, ext), cpu, net)
  /\ avail[v] >= RequiredFee(fees, t) + ext
  /\ avail' = [avail EXCEPT ![v] = @ - RequiredFee(fees, t) - ext]
  /\ UNCHANGED <<fees, rate, head, votes, bp>>

\* onfee before each action
PayByAction(v, t, cpu, net) ==
  /\ is_func_has_open(OpenAt, head)
  /\ Charged(fees, t)
  /\ WithinLimit(add_limit_by_fee(fees, rate, t), cpu, net)
  /\ avail[v] >= RequiredFee(fees, t)
  /\ avail' = [avail EXCEPT ![v] = @ - RequiredFee(fees, t)]
  /\ UNCHANGED <<fees, rate, head, votes, bp>>

Spent(rec, staked, age) == [voteage |-> Newest(rec, staked, head) - age, height |-> head]

\* apply_eosio_voteagefee of one action's fee: what is paid leaves the voter's
\* age and the producer's total; both are brought up to date.
voteagefee(vr, v, age) ==
  /\ votes' = [votes EXCEPT ![v] = Spent(vr, Votes(v), age)]
  /\ bp' = Spent(bp, TotalStaked, age)

Age(fee) == (fee * VoteageRatio) \div 10000

Affords(age, newest) == age > 0 /\ age <= newest

PayByVoteage(v, a, cpu, net) ==
  /\ is_func_has_open(OpenAt, head)
  /\ Charged(fees, <<a>>)
  /\ WithinLimit(add_limit_by_fee(fees, rate, <<a>>), cpu, net)
  /\ Affords(Age(get_required_fee(fees, a)), Newest(votes[v], Votes(v), head))
  /\ voteagefee(votes[v], v, Age(get_required_fee(fees, a)))
  /\ UNCHANGED <<fees, rate, head, avail>>
Usage == {[cpu |-> 0, net |-> 0], [cpu |-> 1, net |-> 8]}

Next ==
  \/ NextBlock
  \/ \E a \in Actions, fee \in Fees, l \in Limits, by \in {"account", "force.test"} : setfee(a, fee, l, by)
  \/ \E r \in Rates : setconfig(r)
  \/ \E v \in Voters, t \in Transactions, u \in Usage :
       \/ \E ext \in Ext : PayByTransaction(v, t, ext, u.cpu, u.net)
       \/ PayByAction(v, t, u.cpu, u.net)
  \/ \E v \in Voters, a \in Actions, u \in Usage : PayByVoteage(v, a, u.cpu, u.net)

Spec == Init /\ [][Next]_vars
-----------------------------------------------------------------------------
\* The variables have their types: no balance and no voteage goes below zero.
TypeOK ==
  /\ head \in 1 .. MaxHead
  /\ avail \in [Voters -> 0 .. Balance]
  /\ \A rec \in Range(votes) \cup {bp} : rec.voteage \in Nat /\ rec.height \in 1 .. head

\* apply_eosio_voteagefee: the producer's voteage is the sum of its voters',
\* each brought up to date at another block.
VoteageIsSum ==
  Newest(bp, TotalStaked, head) = SumOver(Voters, LAMBDA v : Newest(votes[v], Votes(v), head))

\* "About Fee" of txfee_manager.cpp and apply_eosio_setfee: no setfee, no
\* limit; a limit (c,n,r) adds c and n; the fees of (0,0,0) and what is
\* offered above buy the rest.  The limit on RAM that it also gives is left
\* out: the code stores r and applies it nowhere.
Documented(f, t, ext, cpuRate, netRate) ==
  LET sum(S, op(_)) == MapThenSumSet(op, S)
      set == {i \in DOMAIN t : HasFee(f, t[i])}
      free == {i \in set : f[t[i]].cpu + f[t[i]].net + f[t[i]].ram = 0}
      bought == (ext + sum(free, LAMBDA i : f[t[i]].fee)) \div Cent
  IN IF set = {} THEN Unlimited
     ELSE [limited |-> TRUE,
           cpu |-> sum(set \ free, LAMBDA i : f[t[i]].cpu) + bought * cpuRate,
           net |-> sum(set \ free, LAMBDA i : f[t[i]].net) + bought * netRate]

\* make_limit_by_contract: in every fee schedule that setfee calls lead to, a
\* transaction that pays its own fee gets the limits on CPU and NET that the
\* comment says.
LimitsAsDocumented ==
  \A t \in Transactions, ext \in Ext :
    make_limit_by_contract(fees, rate, t, ext) = Documented(fees, t, ext, CpuPerFee(rate, 100), 10000)

=============================================================================
