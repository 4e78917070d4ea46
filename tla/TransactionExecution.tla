------------------------ MODULE TransactionExecution ------------------------
(***************************************************************************)
(* Transactions of a block on the node that produces it and on a node that *)
(* validates it: push_transaction, push_scheduled_transaction and          *)
(* apply_block of the controller with the transaction contexts they make,  *)
(* the fee that is paid by a transaction of its own (before f.onfeeact     *)
(* opens) or by an action before each action (after), and deferred         *)
(* transactions.  The time of a block is its number; every action costs 1. *)
(***************************************************************************)
EXTENDS Integers, Sequences, FiniteSets, SequencesExt

CONSTANTS
  Txs,          \* transactions that are pushed
  Deferred,     \* transactions that a contract sends
  Def,          \* what a transaction is made of, see TransactionAssumption
  Payers,       \* accounts that pay fees and RAM
  Balance,      \* what each of them has
  OpenAtStart,  \* the value of f.onfeeact at the start, -1 for none
  ReplaceAtStart, \* REPLACE_DEFERRED is active
  MitigationsDisabled, \* disable_all_subjective_mitigations
  Window,       \* deferred_trx_expiration_window
  BlockCpu,     \* max_block_cpu_usage
  MaxCpu,       \* bound on what one transaction takes
  MaxBlocks,    \* bound on the blocks
  MaxReceipts   \* bound on the receipts of a block

All == Txs \cup Deferred

TransactionAssumption ==
  /\ Def \in [All -> [acts : Seq([op : {"write", "fail", "open", "emergency", "send", "cancel",
                                        "canceldelay"},
                                  num : Int, tx : All, replace : BOOLEAN]),
                      auth : BOOLEAN, delay : Nat, expiration : Nat, payer : Payers, fee : Nat,
                      limit : Nat, size : Nat, onerror : BOOLEAN]]
  /\ {Balance, Window, BlockCpu, MaxCpu, MaxBlocks, MaxReceipts} \subseteq Nat
  /\ OpenAtStart \in Int /\ {ReplaceAtStart, MitigationsDisabled} \subseteq BOOLEAN

VARIABLES
  head,     \* the producer's last block: num, db, receipts
  pend,     \* its pending block: open, num, db, receipts, acts, activate
  val       \* the validator: ok, db

vars == <<head, pend, val>>
-----------------------------------------------------------------------------
(***************************************************************************)
(* The chain state: balances, the effects of actions in order, ids of the  *)
(* deduplication list, generated transactions, billed RAM, ram corrections.*)
(***************************************************************************)
GenesisDb ==
  [bal |-> [p \in Payers |-> Balance], log |-> <<>>, recorded |-> {}, gto |-> {},
   ram |-> [p \in Payers |-> 0], correction |-> [p \in Payers |-> 0],
   open |-> OpenAtStart, emergency |-> FALSE, replace |-> ReplaceAtStart, cpu |-> 0]

is_func_has_open(num, db) == db.open >= 0 /\ num - 1 >= db.open

\* get_block_cpu_limit
Left(db) == BlockCpu - db.cpu

\* check_action: in an emergency only setemergency passes.
check_action(db, t) ==
  db.emergency => \A i \in DOMAIN Def[t].acts : Def[t].acts[i].op = "emergency"

Effect(db, e) == [db EXCEPT !.log = Append(@, e)]

\* A generated transaction of contracts' has their sender_id, a delayed one
\* the id of the transaction.
Gto(id, t, sent, now) ==
  [id |-> id, tx |-> t, sent |-> sent, until |-> now + Def[t].delay,
   exp |-> now + Def[t].delay + Window, payer |-> Def[t].payer]

Size(g) == Def[g.tx].size

remove_scheduled_transaction(db, g) ==
  [db EXCEPT !.gto = @ \ {g}, !.ram[g.payer] = @ - Size(g)]

CreateGto(db, g) == [db EXCEPT !.gto = @ \cup {g}, !.ram[g.payer] = @ + Size(g)]

\* schedule_deferred_transaction: before REPLACE_DEFERRED the RAM of the
\* replaced one stays billed, to be corrected later, and its id is kept; a
\* producer refuses that unless its mitigations are disabled.
schedule_deferred_transaction(db, d, replace, producing, now) ==
  LET old == {g \in db.gto : g.sent}
      g == CHOOSE x \in old : TRUE
  IN IF old = {} THEN [db |-> CreateGto(db, Gto(d, d, TRUE, now)), err |-> "none"]
     ELSE IF ~replace THEN [db |-> db, err |-> "objective"]
     ELSE IF ~db.replace /\ producing /\ ~MitigationsDisabled
     THEN [db |-> db, err |-> "subjective"]
     ELSE IF db.replace
     THEN [db |-> CreateGto(remove_scheduled_transaction(db, g), Gto(d, d, TRUE, now)), err |-> "none"]
     ELSE [db |-> CreateGto([db EXCEPT !.gto = @ \ {g}, !.correction[g.payer] = @ + Size(g)],
                            Gto(g.id, d, TRUE, now)), err |-> "none"]

\* The generated transactions of contracts have one sender_id; a delayed
\* one is cancelled by its id.
cancel_deferred_transaction(db, old) ==
  IF old = {} THEN db ELSE remove_scheduled_transaction(db, CHOOSE g \in old : TRUE)

\* on_activation of REPLACE_DEFERRED: never below zero.
on_activation(db) ==
  [db EXCEPT !.replace = TRUE, !.correction = [p \in Payers |-> 0],
             !.ram = [p \in Payers |-> IF db.correction[p] > @[p] THEN 0 ELSE @[p] - db.correction[p]]]

\* exec_one of an action: what it did before it failed stays in the session.
ApplyAction(a, db, producing, now) ==
  CASE a.op \in {"write", "fail"} -> [db |-> db, err |-> IF a.op = "fail" THEN "objective" ELSE "none"]
    [] a.op = "open" -> [db |-> [db EXCEPT !.open = a.num], err |-> "none"]
    [] a.op = "emergency" -> [db |-> [db EXCEPT !.emergency = a.num = 1], err |-> "none"]
    [] a.op = "send" -> schedule_deferred_transaction(db, a.tx, a.replace, producing, now)
    [] OTHER -> [db |-> cancel_deferred_transaction(db,
                          {g \in db.gto : IF a.op = "cancel" THEN g.sent ELSE ~g.sent /\ g.id = a.tx}),
                 err |-> "none"]

exec_one(db, t, i, producing, now) ==
  ApplyAction(Def[t].acts[i],
              Effect(db, [tx |-> t, act |-> i, whole |-> Def[t].acts[i].op # "fail"]), producing, now)

FeeAct(p, amount) == [tx |-> "onfee", act |-> amount, payer |-> p]

\* apply_eosio_onfee
onfee(db, p, amount) == Effect([db EXCEPT !.bal[p] = @ - amount], FeeAct(p, amount))
-----------------------------------------------------------------------------
(***************************************************************************)
(* A transaction context.  byAction: each action is preceded by its fee    *)
(* action.  The deadline passes after the first cut actions; nothing cuts  *)
(* a transaction of a block that is validated.                             *)
(***************************************************************************)
\* execute_action: an action that fails is not in the block's actions.
Continue(acc, fee, act, r) ==
  [db |-> r.db, err |-> r.err,
   executed |-> acc.executed \o fee \o (IF r.err = "none" THEN <<act>> ELSE <<>>)]

\* exec: each action in turn, after its fee action.
exec(db, t, byAction, cut, producing, now) ==
  LET p == Def[t].payer
      step(acc, i) ==
        IF acc.err # "none" THEN acc
        ELSE IF i > cut THEN [acc EXCEPT !.err = "subjective"]
        ELSE IF byAction /\ acc.db.bal[p] < 1 THEN [acc EXCEPT !.err = "objective"]
        ELSE Continue(acc, IF byAction THEN <<FeeAct(p, 1)>> ELSE <<>>, [tx |-> t, act |-> i],
                      exec_one(IF byAction THEN onfee(acc.db, p, 1) ELSE acc.db, t, i, producing, now))
  IN FoldLeft(step, [db |-> db, err |-> "none", executed |-> <<>>], [i \in DOMAIN Def[t].acts |-> i])

\* exec of a delayed transaction: schedule_transaction
schedule_transaction(db, t, now) ==
  [db |-> CreateGto(db, Gto(t, t, FALSE, now)), err |-> "none", executed |-> <<>>]

\* finalize: the usage is billed unless it is more than the block has left.
finalize(r, cpu) ==
  IF r.err # "none" THEN r
  ELSE IF cpu > Left(r.db) THEN [r EXCEPT !.err = "subjective"]
  ELSE [r EXCEPT !.db.cpu = @ + cpu]

InputAllowed_AnyFee(n, t, cpu, producing) ==
  /\ Def[t].limit = 0 /\ Def[t].expiration >= n.num
  /\ producing \/ cpu <= Left(n.db)
  /\ \A r \in n.db.recorded : r.tx # t
  /\ Def[t].auth

\* init_for_input_trx with record_transaction, then check_authorization
\* and the check of the fee a transaction offers.
InputAllowed(n, t, cpu, producing) ==
  /\ Def[t].limit = 0
  /\ Def[t].expiration >= n.num
  /\ producing \/ cpu <= Left(n.db)
  /\ \A r \in n.db.recorded : r.tx # t
  /\ Def[t].auth
  /\ is_func_has_open(n.num, n.db) \/ Def[t].fee >= Len(Def[t].acts)

record_transaction(db, t) ==
  [db EXCEPT !.recorded = @ \cup {[tx |-> t, exp |-> Def[t].expiration]}]

\* push_receipt: an input transaction is packed, a generated one has its id.
push_receipt(t, packed, status, cpu) == [tx |-> t, packed |-> packed, status |-> status, cpu |-> cpu]

\* The implicit transaction with the onfee action, billed for 1.
CanPayFee(n, t) == n.db.bal[Def[t].payer] >= Def[t].fee /\ Left(n.db) >= 1

PayFee(n, t) ==
  [n EXCEPT !.db = [onfee(@, Def[t].payer, Def[t].fee) EXCEPT !.cpu = @ + 1],
            !.acts = Append(@, FeeAct(Def[t].payer, Def[t].fee))]

\* The inner try of push_transaction: a receipt that says 0 stands for a
\* transaction that failed at the producer, which a validator does not run.
Billed(r, cpu, producing) ==
  [run |-> finalize(r, cpu), cpu |-> IF producing /\ r.err # "none" THEN 0 ELSE cpu]

Executed(db, t, cpu, cut, byAction, producing, now) ==
  IF ~producing /\ cpu = 0
  THEN [run |-> [db |-> db, err |-> "objective", executed |-> <<>>], cpu |-> 0]
  ELSE Billed(IF Def[t].delay = 0 THEN exec(db, t, byAction, cut, producing, now)
              ELSE schedule_transaction(db, t, now), cpu, producing)

Failed(n) == [n |-> n, failed |-> TRUE]

Include(n, t, run, cpu) ==
  [n |-> [n EXCEPT !.db = run.db, !.acts = @ \o run.executed,
                   !.receipts = Append(@, push_receipt(t, TRUE, IF Def[t].delay = 0 THEN "executed"
                                                                ELSE "delayed", cpu))],
   failed |-> run.err # "none"]

Finish(n, t, e, byAction) ==
  IF e.run.err # "none" /\ byAction THEN Failed(n) ELSE Include(n, t, e.run, e.cpu)

AfterFee(n, t, cpu, cut, byAction, producing) ==
  IF ~InputAllowed(n, t, cpu, producing) THEN Failed(n)
  ELSE Finish(n, t, Executed(record_transaction(n.db, t), t, cpu, cut, byAction, producing, n.num), byAction)

\* push_transaction.  While the fee is paid by a transaction, that one stays
\* in the block whatever becomes of t, and t has its receipt, and what it
\* did, even when it failed.
push_transaction(n, t, cpu, cut, producing) ==
  LET byAction == is_func_has_open(n.num, n.db)
  IN IF ~check_action(n.db, t) \/ (~byAction /\ ~CanPayFee(n, t)) THEN Failed(n)
     ELSE AfterFee(IF byAction THEN n ELSE PayFee(n, t), t, cpu, cut, byAction, producing)

Retired(n, g, db, executed, status, cpu) ==
  [n |-> [n EXCEPT !.db = db, !.receipts = Append(@, push_receipt(g.id, FALSE, status, cpu)),
                   !.acts = @ \o executed],
   failed |-> status = "hard_fail"]

OnError(g) == [tx |-> "onerror", act |-> 0, of |-> g.id]

\* apply_onerror: the sender's handler may fail, or run into the deadline.
apply_onerror(db, g, cpu, late) ==
  IF late THEN [db |-> db, err |-> "subjective", executed |-> <<>>]
  ELSE IF Def[g.tx].onerror THEN finalize([db |-> Effect(db, OnError(g)), err |-> "none",
                                           executed |-> <<OnError(g)>>], cpu)
  ELSE [db |-> db, err |-> "objective", executed |-> <<>>]

FirstTry(n, g, db, cpu, cut, producing) ==
  IF ~producing /\ cpu > Left(db) THEN [db |-> db, err |-> "subjective", executed |-> <<>>]
  ELSE IF ~check_action(db, g.tx) THEN [db |-> db, err |-> "objective", executed |-> <<>>]
  ELSE finalize(exec(db, g.tx, is_func_has_open(n.num, n.db), cut, producing, n.num), cpu)

HardFail(n, g, db, cpu, producing) ==
  LET billed == IF producing /\ cpu > Left(db) THEN Left(db) ELSE cpu
  IN Retired(n, g, [db EXCEPT !.cpu = @ + billed], <<>>, "hard_fail", billed)

Unretired_Lost(n, g, db, cpu, handled, producing) ==
  IF handled.err = "subjective" THEN Failed([n EXCEPT !.db = db])
  ELSE HardFail(n, g, db, cpu, producing)

\* A subjective failure undoes everything, the removal included.
Unretired(n, g, db, cpu, handled, producing) ==
  IF handled.err = "subjective" THEN Failed(n) ELSE HardFail(n, g, db, cpu, producing)

AfterOnError(n, g, db, cpu, handled, producing) ==
  IF handled.err = "none" THEN Retired(n, g, handled.db, handled.executed, "soft_fail", cpu)
  ELSE Unretired(n, g, db, cpu, handled, producing)

AfterTry(n, g, db, cpu, late, run, producing) ==
  IF run.err = "none" THEN Retired(n, g, run.db, run.executed, "executed", cpu)
  ELSE AfterOnError(n, g, db, cpu, IF g.sent /\ run.err = "objective" THEN apply_onerror(db, g, cpu, late)
                                   ELSE run, producing)

RetireFrom(n, g, db, cpu, cut, late, producing) ==
  IF g.until > n.num THEN Failed(n)
  ELSE IF g.exp < n.num THEN Retired(n, g, db, <<>>, "expired", IF producing THEN 0 ELSE cpu)
  ELSE AfterTry(n, g, db, cpu, late, FirstTry(n, g, db, cpu, cut, producing), producing)

\* push_scheduled_transaction: executed, expired, soft_fail when onerror
\* handles the failure, hard_fail when it does not.
push_scheduled_transaction(n, g, cpu, cut, late, producing) ==
  RetireFrom(n, g, remove_scheduled_transaction(n.db, g), cpu, cut, late, producing)
-----------------------------------------------------------------------------
(***************************************************************************)
(* Blocks                                                                  *)
(***************************************************************************)
clear_expired_input_transactions(db, now) == [db EXCEPT !.recorded = {r \in @ : r.exp >= now}]

start_block(db, num, activate) ==
  [open |-> TRUE, num |-> num, receipts |-> <<>>, acts |-> <<>>, activate |-> activate,
   db |-> clear_expired_input_transactions(IF activate THEN on_activation(db) ELSE db, num)]

finalize_block(n) == [n.db EXCEPT !.cpu = 0]

Whole(t) == Len(Def[t].acts)

\* One receipt of apply_block: a failure is accepted for hard_fail, and for
\* every transaction while fees are paid by a transaction.
Replay(n, r) ==
  LET scheduled == {g \in n.db.gto : g.id = r.tx}
  IN IF r.packed THEN push_transaction(n, r.tx, r.cpu, Whole(r.tx), FALSE)
     ELSE IF scheduled = {} THEN Failed(n)
     ELSE LET g == CHOOSE x \in scheduled : TRUE
          IN push_scheduled_transaction(n, g, r.cpu, Whole(g.tx), FALSE, FALSE)

CheckReceipt(r, size, res) ==
  [n |-> res.n,
   ok |-> /\ \/ ~res.failed
             \/ r.status = "hard_fail" /\ ~r.packed
             \/ ~is_func_has_open(res.n.num, res.n.db)
          /\ Len(res.n.receipts) = size + 1
          /\ Last(res.n.receipts) = r]

\* apply_block: the action merkle root is part of the id.
Compare(db, b, end) ==
  IF end.ok /\ end.n.acts = b.acts THEN [ok |-> TRUE, db |-> finalize_block(end.n)]
  ELSE [ok |-> FALSE, db |-> db]

apply_block(db, b) ==
  LET step(acc, r) == IF ~acc.ok THEN acc ELSE CheckReceipt(r, Len(acc.n.receipts), Replay(acc.n, r))
  IN Compare(db, b, FoldLeft(step, [n |-> start_block(db, b.num, b.activate), ok |-> TRUE], b.receipts))

NoBlock == [open |-> FALSE]

Init ==
  /\ head = [num |-> 1, db |-> GenesisDb, receipts |-> <<>>]
  /\ pend = NoBlock
  /\ val = [ok |-> TRUE, db |-> GenesisDb]

StartBlock(activate) ==
  /\ ~pend.open /\ head.num < MaxBlocks
  /\ activate => ~head.db.replace
  /\ pend' = start_block(head.db, head.num + 1, activate)
  /\ UNCHANGED <<head, val>>

PushTransaction(t, cpu, cut) ==
  /\ pend.open /\ Len(pend.receipts) < MaxReceipts
  /\ pend' = push_transaction(pend, t, cpu, cut, TRUE).n
  /\ UNCHANGED <<head, val>>

PushScheduledTransaction(g, cpu, cut, late) ==
  /\ pend.open /\ Len(pend.receipts) < MaxReceipts
  /\ pend' = push_scheduled_transaction(pend, g, cpu, cut, late, TRUE).n
  /\ UNCHANGED <<head, val>>

AbortBlock == pend.open /\ pend' = NoBlock /\ UNCHANGED <<head, val>>

\* The block is committed, and reaches the validator.
CommitBlock ==
  /\ pend.open
  /\ head' = [num |-> pend.num, db |-> finalize_block(pend), receipts |-> pend.receipts]
  /\ val' = IF val.ok THEN apply_block(val.db, pend) ELSE val
  /\ pend' = NoBlock

Next ==
  \/ \E activate \in BOOLEAN : StartBlock(activate)
  \/ \E t \in Txs, cpu \in 1 .. MaxCpu : \E cut \in 0 .. Whole(t) : PushTransaction(t, cpu, cut)
  \/ \E g \in (IF pend.open THEN pend.db.gto ELSE {}), cpu \in 1 .. MaxCpu, late \in BOOLEAN :
       \E cut \in 0 .. Whole(g.tx) : PushScheduledTransaction(g, cpu, cut, late)
  \/ AbortBlock
  \/ CommitBlock

Spec == Init /\ [][Next]_vars
-----------------------------------------------------------------------------
Dbs == {head.db, val.db} \cup (IF pend.open THEN {pend.db} ELSE {})

\* The variables have their types: no balance, RAM usage or CPU left in the
\* block goes below zero.
TypeOK ==
  \A db \in Dbs :
    /\ \A p \in Payers : db.bal[p] \in 0 .. Balance /\ db.ram[p] \in Nat /\ db.correction[p] \in Nat
    /\ db.cpu \in 0 .. BlockCpu

\* apply_block: a block that was produced is accepted by the other nodes and
\* leaves them in the producer's state.
ValidatorAgrees == val.ok /\ val.db = head.db

Acts(db, p) ==
  {k \in DOMAIN db.log : db.log[k].tx \in All /\ Def[db.log[k].tx].payer = p}

\* make_fee_act and exec: once fees are paid by actions, an account pays for
\* the actions that took effect and for no other, and none takes effect in
\* part.
FeeForEffect ==
  \A db \in Dbs :
    /\ \A p \in Payers : db.bal[p] = Balance - Cardinality(Acts(db, p))
    /\ \A k \in DOMAIN db.log : db.log[k].tx \in All => db.log[k].whole

Paid(db, p, k) ==
  FoldLeft(LAMBDA acc, e : IF e.tx = "onfee" /\ e.payer = p THEN acc + e.act ELSE acc, 0,
           SubSeq(db.log, 1, k))

\* push_transaction, get_required_fee and onfee: whichever way fees are paid,
\* and when that changes, no action of a pushed transaction takes effect
\* before its payer has paid for it and for all those before it.
EffectsArePaid ==
  \A db \in Dbs : \A p \in Payers : \A k \in DOMAIN db.log :
    Cardinality({j \in 1 .. k : j \in Acts(db, p) /\ db.log[j].tx \in Txs}) <= Paid(db, p, k)

\* record_transaction, clear_expired_input_transactions: a transaction takes
\* effect once, whether it is pushed again, delayed or expired.
ExecutedOnce ==
  \A db \in Dbs : \A j, k \in DOMAIN db.log :
    j # k /\ db.log[j].tx \in Txs => db.log[j] # db.log[k]

\* remove_scheduled_transaction, schedule_deferred_transaction and
\* on_activation: the RAM billed for generated transactions is that of those
\* that exist, and what the correction still owes.
RamMatchesScheduled ==
  \A db \in Dbs : \A p \in Payers :
    LET mine == {g \in db.gto : g.payer = p}
    IN db.ram[p] = FoldSet(LAMBDA g, acc : acc + Size(g), 0, mine) + db.correction[p]

=============================================================================
