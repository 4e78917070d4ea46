---------------------------- MODULE MCExecution ----------------------------
(***************************************************************************)
(* What transactions cost and what they leave, for TLC.  A behaviour is    *)
(* one of the parts of Parts, chosen at the start; the variables of the    *)
(* others stay as they are.  The resource limits are the module itself,    *)
(* the other parts are instances:                                          *)
(*                                                                         *)
(*  "elastic", "accounts", "ram": resource limits, of blocks with one      *)
(*      account, of two accounts, and of RAM                               *)
(*  "fees", "deferred", "opening": transactions that pay by action, that   *)
(*      send others, and that pay as a whole until f.onfeeact opens        *)
(*  "system": setconfig, setcode and the contracts functions load          *)
(*  "limits", "voteage": what setfee says and what a fee buys, and fees    *)
(*      paid with voteage                                                  *)
(***************************************************************************)
EXTENDS ResourceLimits, Sequences, TLC

CONSTANTS
  Parts,                \* the parts to explore
  alice, bob,           \* the accounts of the resource limits
  FeeTxs, FeesOpenAt,   \* what is pushed in the part "fees", and f.onfeeact at its start
  sys, msig, system0, system1, multi, nocode,
  native, custom, v1, v2

VARIABLES part, head, pend, val, chain, building, sets, fees, rate, height, avail, votes, bp

SomeWeights == {-1, 1, 2}
Half == <<1, 2>>
Growth == <<3, 2>>
Never == -1

TwoAccounts == {alice, bob}
OneSystem == {bob}

\* The blocks of the resource limits: many of them with what alice does, and two
\* with what both do.
ElasticNext ==
  \/ \E units \in 0 .. max, greylist \in {1, Multiplier} : BillTransaction({alice}, units, greylist)
  \/ set_account_limits(alice, 1)
  \/ \E m \in Maxes : set_parameters(m)
  \/ \E skipped \in 0 .. 1 : finalize_block(skipped)

AccountsNext ==
  \/ \E as \in SUBSET Accounts \ {{}}, units \in 0 .. max, greylist \in {1, Multiplier} :
       BillTransaction(as, units, greylist)
  \/ \E a \in Accounts, w \in Weights : set_account_limits(a, w)
  \/ slot = 1 /\ finalize_block(0)

-----------------------------------------------------------------------------
(* The transactions. *)
A(op) == [op |-> op, num |-> 0, tx |-> "good", replace |-> FALSE]
Send(d, r) == [A("send") EXCEPT !.tx = d, !.replace = r]

T(acts) ==
  [acts |-> acts, auth |-> TRUE, delay |-> 0, expiration |-> 3, payer |-> "alice",
   fee |-> Len(acts), limit |-> 0, size |-> 1, onerror |-> FALSE]

Defs ==
  [pay |-> T(<<A("write")>>),
   two |-> T(<<A("write"), A("fail")>>),
   cheap |-> [T(<<A("write"), A("write")>>) EXCEPT !.fee = 1],
   delayed |-> [T(<<A("write")>>) EXCEPT !.delay = 1, !.size = 2],
   send |-> T(<<Send("good", TRUE)>>),
   undelay |-> T(<<[A("canceldelay") EXCEPT !.tx = "delayed"]>>),
   again |-> T(<<Send("bad", TRUE)>>),
   swap |-> T(<<A("cancel"), Send("handled", FALSE)>>),
   open |-> T(<<[A("open") EXCEPT !.num = 2]>>),
   alarm |-> T(<<[A("emergency") EXCEPT !.num = 1]>>),
   unsigned |-> [T(<<A("write")>>) EXCEPT !.auth = FALSE],
   good |-> [T(<<A("write")>>) EXCEPT !.payer = "bob"],
   bad |-> [T(<<A("fail")>>) EXCEPT !.payer = "bob", !.size = 2],
   handled |-> [T(<<A("write"), A("fail")>>) EXCEPT !.payer = "bob", !.onerror = TRUE]]

Sent == {"good", "bad", "handled"}
DefsOf(txs) == [t \in txs \cup Sent |-> Defs[t]]

Deferrals == {"send", "again", "swap", "delayed"}
Openings == {"cheap", "two", "delayed", "open"}
FeeDefs == DefsOf(FeeTxs)
DeferralDefs == DefsOf(Deferrals)
OpeningDefs == DefsOf(Openings)

ByAction == INSTANCE TransactionExecution WITH
  Txs <- FeeTxs, Def <- FeeDefs, OpenAtStart <- FeesOpenAt, Balance <- 5, MaxBlocks <- 5,
  Deferred <- Sent, Payers <- {"alice", "bob"}, ReplaceAtStart <- FALSE, MitigationsDisabled <- TRUE,
  Window <- 1, BlockCpu <- 3, MaxCpu <- 2, MaxReceipts <- 2
Deferring == INSTANCE TransactionExecution WITH
  Txs <- Deferrals, Def <- DeferralDefs, OpenAtStart <- 0, Balance <- 4, MaxBlocks <- 4,
  Deferred <- Sent, Payers <- {"alice", "bob"}, ReplaceAtStart <- FALSE, MitigationsDisabled <- TRUE,
  Window <- 1, BlockCpu <- 3, MaxCpu <- 2, MaxReceipts <- 2
ByTransaction == INSTANCE TransactionExecution WITH
  Txs <- Openings, Def <- OpeningDefs, OpenAtStart <- Never, Balance <- 5, MaxBlocks <- 4,
  Deferred <- Sent, Payers <- {"alice", "bob"}, ReplaceAtStart <- FALSE, MitigationsDisabled <- TRUE,
  Window <- 1, BlockCpu <- 3, MaxCpu <- 2, MaxReceipts <- 2

-----------------------------------------------------------------------------
(* eosio and eosio.msig, each of which may set the code of the contracts that
   functions load. *)
CodeSize == [c \in {system0, system1, multi} |-> IF c = system0 THEN 2 ELSE 1]
OpensAt == [system01 |-> 2, msig |-> 0, prods |-> 0, ram |-> 0, eosio |-> 3, cprod |-> 0]

System == INSTANCE SystemContracts WITH
  Accounts <- {sys, msig}, Sys <- sys, Msig <- msig, Codes <- {system0, system1, multi},
  SystemCode <- system0, System01Code <- system1, MsigCode <- multi,
  AbiSizes <- {2}, SystemAbi <- 1, Mult <- 10, Default <- OpensAt, NoCode <- nocode,
  MaxBlocks <- 4, MaxSets <- 3, pend <- building

(* An action that has a compiled-in fee and one that has none; two voters with
   unequal stakes. *)
TwoActions == {native, custom}
OneVoter == {v1}
TwoVoters == {v1, v2}
SetFees == {150, 260}
SmallFees == {1, 3}
Extras == {0, 90}
NoExtra == {0}
Rate == {7}
NativeFee == [a \in TwoActions |-> IF a = native THEN 2 ELSE 0]
Zero == [cpu |-> 0, net |-> 0, ram |-> 0]
NoLimit == {Zero}
Limits == {Zero, [Zero EXCEPT !.cpu = 5], [Zero EXCEPT !.net = 8, !.cpu = 3], [Zero EXCEPT !.ram = 5]}
StakedFor(vs) == [v \in vs |-> IF v = v1 THEN 10000 ELSE 25000]
OneStaked == StakedFor(OneVoter)
BothStaked == StakedFor(TwoVoters)

Schedule == INSTANCE FeeSchedule WITH
  Actions <- TwoActions, Unit <- 10000, Cent <- 100, VoteageRatio <- 10000, Fees <- SetFees,
  Ext <- Extras, Rates <- Rate, Voters <- OneVoter, Staked <- OneStaked, Balance <- 300,
  MaxLen <- 2, MaxHead <- 1, OpenAt <- Never, head <- height
Voteage == INSTANCE FeeSchedule WITH
  Actions <- TwoActions, Unit <- 10000, Cent <- 100, VoteageRatio <- 10000, Fees <- SmallFees,
  Limits <- NoLimit, Ext <- NoExtra, Rates <- Rate, Voters <- TwoVoters, Staked <- BothStaked, Balance <- 3,
  MaxLen <- 1, MaxHead <- 4, OpenAt <- 2, head <- height

ASSUME
  /\ ByAction!TransactionAssumption /\ Deferring!TransactionAssumption
  /\ ByTransaction!TransactionAssumption /\ System!SystemAssumption
  /\ Schedule!FeeAssumption /\ Voteage!FeeAssumption

-----------------------------------------------------------------------------
limits_vars == vars
trx_vars == <<head, pend, val>>
system_vars == <<chain, building, sets>>
fee_vars == <<fees, rate, height, avail, votes, bp>>

all_vars == <<part, limits_vars, trx_vars, system_vars, fee_vars>>

\* The variables of a part that does not run.
Off == "off"
LimitsOff == Init /\ max = 2
TrxOff == head = Off /\ pend = Off /\ val = Off
SystemOff == chain = Off /\ building = Off /\ sets = Off
FeeOff == fees = Off /\ rate = Off /\ height = Off /\ avail = Off /\ votes = Off /\ bp = Off

ExecutionInit ==
  /\ part \in Parts
  /\ \/ /\ part = "elastic" /\ Init
        /\ TrxOff /\ SystemOff /\ FeeOff
     \/ /\ part = "accounts" /\ LimitsOff
        /\ TrxOff /\ SystemOff /\ FeeOff
     \/ /\ part = "ram" /\ LimitsOff
        /\ TrxOff /\ SystemOff /\ FeeOff
     \/ /\ part = "fees" /\ ByAction!Init
        /\ LimitsOff /\ SystemOff /\ FeeOff
     \/ /\ part = "deferred" /\ Deferring!Init
        /\ LimitsOff /\ SystemOff /\ FeeOff
     \/ /\ part = "opening" /\ ByTransaction!Init
        /\ LimitsOff /\ SystemOff /\ FeeOff
     \/ /\ part = "system" /\ System!Init
        /\ LimitsOff /\ TrxOff /\ FeeOff
     \/ /\ part = "limits" /\ Schedule!Init
        /\ LimitsOff /\ TrxOff /\ SystemOff
     \/ /\ part = "voteage" /\ Voteage!Init
        /\ LimitsOff /\ TrxOff /\ SystemOff

ExecutionNext ==
  \/ /\ part = "elastic" /\ ElasticNext
     /\ UNCHANGED <<part, trx_vars, system_vars, fee_vars>>
  \/ /\ part = "accounts" /\ AccountsNext
     /\ UNCHANGED <<part, trx_vars, system_vars, fee_vars>>
  \/ /\ part = "ram" /\ RamNext
     /\ UNCHANGED <<part, trx_vars, system_vars, fee_vars>>
  \/ /\ part = "fees" /\ ByAction!Next
     /\ UNCHANGED <<part, limits_vars, system_vars, fee_vars>>
  \/ /\ part = "deferred" /\ Deferring!Next
     /\ UNCHANGED <<part, limits_vars, system_vars, fee_vars>>
  \/ /\ part = "opening" /\ ByTransaction!Next
     /\ UNCHANGED <<part, limits_vars, system_vars, fee_vars>>
  \/ /\ part = "system" /\ System!Next
     /\ UNCHANGED <<part, limits_vars, trx_vars, fee_vars>>
  \/ /\ part = "limits" /\ Schedule!Next
     /\ UNCHANGED <<part, limits_vars, trx_vars, system_vars>>
  \/ /\ part = "voteage" /\ Voteage!Next
     /\ UNCHANGED <<part, limits_vars, trx_vars, system_vars>>

ExecutionSpec == ExecutionInit /\ [][ExecutionNext]_all_vars

-----------------------------------------------------------------------------
\* apply_block: a block that was produced is accepted by the other nodes and
\* leaves them in the producer's state.
ValidatorAgrees ==
  /\ part = "fees" => ByAction!ValidatorAgrees
  /\ part = "deferred" => Deferring!ValidatorAgrees

\* Once fees are paid by actions, an account pays for the actions that took
\* effect and for no other, and none takes effect in part.  While a transaction
\* pays them and when that changes, where what a failed transaction did stays,
\* no action of a pushed transaction takes effect twice or before it is paid
\* for.  The RAM billed for generated transactions is that of those that exist
\* (push_transaction, push_scheduled_transaction, make_fee_act).
EffectsArePaid ==
  /\ part = "fees" => ByAction!FeeForEffect /\ ByAction!ExecutedOnce
  /\ part = "deferred" => Deferring!FeeForEffect /\ Deferring!RamMatchesScheduled
  /\ part = "opening" =>
       /\ ByTransaction!ExecutedOnce /\ ByTransaction!EffectsArePaid
       /\ ByTransaction!RamMatchesScheduled

\* However setconfig, setcode and fork switches mix: code has its code object,
\* its account is charged for it, and in a block where a function counts as open,
\* what opens with it was done on this branch, unless setconfig gave it a block
\* that was already reached (check_func_open, initialize_contract).
OpenMeansDone ==
  part = "system" => System!CodeHasObject /\ System!RamCoversCode /\ System!OpenMeansDone

\* A transaction that pays its own fee gets the limits on CPU and NET that
\* txfee_manager.cpp documents (the one on RAM is not applied anywhere), in
\* every fee schedule setfee leads to; and the voteage of a producer is its
\* voters', each brought up to date at another block.
FeesAsDocumented ==
  /\ part = "limits" => Schedule!LimitsAsDocumented
  /\ part = "voteage" => Voteage!VoteageIsSum
=============================================================================
