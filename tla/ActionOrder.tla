----------------------------- MODULE ActionOrder -----------------------------
(***************************************************************************)
(* How a transaction's actions are scheduled and executed                  *)
(* (transaction_context::exec, apply_context::exec and exec_one): the      *)
(* vector of action traces, the nested apply_contexts, notifications,      *)
(* inline and context-free inline actions, and eosforce's fee actions.     *)
(*                                                                         *)
(* A contract is any sequence of the calls it may make.  Who authorises an *)
(* inline action is in Authorization, what fees are charged is in          *)
(* TransactionExecution.                                                   *)
(***************************************************************************)
EXTENDS Naturals, Sequences, FiniteSets, SequencesExt

CONSTANTS
  Accounts,
  System,       \* config::system_account_name
  MaxDepth,     \* max_inline_action_depth
  MaxInput,     \* bound on the transaction's own actions
  MaxTraces     \* bound on action traces

ActionOrderAssumption ==
  {MaxDepth, MaxInput, MaxTraces} \subseteq Nat /\ System \notin Accounts

VARIABLES
  paid,      \* is_need_fee_action: does the fee payer pay per action?
  traces,    \* trace->action_traces; an action is named by the ordinal it was first scheduled as
  stack,     \* the apply_contexts, the outermost first
  next,      \* the loop of transaction_context::exec
  original,  \* num_original_actions_to_execute
  executed,  \* transaction_context::executed: the ordinals in the order of their receipts
  status

vars == <<paid, traces, stack, next, original, executed, status>>

Trace(act, receiver, context_free, creator, ancestor, fee) ==
  [act |-> act, receiver |-> receiver, context_free |-> context_free,
   creator |-> creator, ancestor |-> ancestor, fee |-> fee]

\* The address of a trace's action: the vector's elements move when it grows.
Pointer(o, ts) == [ord |-> o, size |-> Len(ts)]

-----------------------------------------------------------------------------
(* Scheduling *)

\* transaction_context::schedule_action of a new action.
schedule_new(ts, receiver, context_free, creator, ancestor) ==
  Append(ts, Trace(Len(ts) + 1, receiver, context_free, creator, ancestor, FALSE))

\* transaction_context::schedule_action of an action that has a trace.
schedule_copy(ts, o, receiver, creator, ancestor) ==
  Append(ts, Trace(ts[o].act, receiver, FALSE, creator, ancestor, FALSE))

schedule_fee_action(ts) ==
  IF paid THEN Append(ts, Trace(Len(ts) + 1, System, FALSE, 0, 0, TRUE)) ELSE ts

\* The action of account a after the fee action for it.
schedule_input(ts, a, context_free) ==
  schedule_new(schedule_fee_action(ts), a, context_free, 0, 0)

\* The ordinals of what was appended.
Scheduled(ts, us) == [i \in 1..(Len(us) - Len(ts)) |-> Len(ts) + i]

-----------------------------------------------------------------------------
(* apply_context *)

Context(o, depth) ==
  [receiver |-> traces[o].receiver, ord |-> o, first |-> o, act |-> Pointer(o, traces),
   notified |-> << <<traces[o].receiver, o>> >>, i |-> 1,
   cfa |-> <<>>, inline |-> <<>>, depth |-> depth, running |-> TRUE]

Top == Last(stack)
WithTop(c) == [stack EXCEPT ![Len(stack)] = c]
Running == status = "executing" /\ stack # <<>> /\ Top.running

\* Neither a context-free action nor the native onfee makes these calls.
MayCall == Running /\ ~traces[Top.ord].context_free /\ ~traces[Top.ord].fee

has_recipient(r) == \E i \in DOMAIN Top.notified : Top.notified[i][1] = r

require_recipient(r) ==
  /\ MayCall
  /\ ~has_recipient(r)
  /\ Len(traces) < MaxTraces
  /\ traces' = schedule_copy(traces, Top.ord, r, Top.ord, Top.first)
  /\ stack' = WithTop([Top EXCEPT !.notified = Append(@, <<r, Len(traces')>>),
                                  !.act = Pointer(Top.ord, traces')])
  /\ UNCHANGED <<paid, next, original, executed, status>>

execute_inline(a) ==
  /\ MayCall
  /\ traces' = schedule_new(schedule_fee_action(traces), a, FALSE, Top.ord, Top.first)
  /\ Len(traces') <= MaxTraces
  /\ stack' = WithTop([Top EXCEPT !.inline = @ \o Scheduled(traces, traces'),
                                  !.act = Pointer(Top.ord, traces')])
  /\ UNCHANGED <<paid, next, original, executed, status>>

execute_context_free_inline(a) ==
  /\ MayCall
  /\ traces' = schedule_new(schedule_fee_action(traces), a, TRUE, Top.ord, Top.first)
  /\ Len(traces') <= MaxTraces
  /\ stack' = WithTop([Top EXCEPT !.cfa = @ \o Scheduled(traces, traces'),
                                  !.act = Pointer(Top.ord, traces')])
  /\ UNCHANGED <<paid, next, original, executed, status>>

\* exec_one returns: the receipt is recorded, and exec goes on to the next
\* notification, which may itself have been asked for by a notification, or
\* to the inline actions.  act is left where it points.
exec_one ==
  /\ Running
  /\ executed' = Append(executed, Top.ord)
  /\ \/ /\ Top.i < Len(Top.notified)
        /\ LET n == Top.notified[Top.i + 1]
           IN stack' = WithTop([Top EXCEPT !.i = @ + 1, !.receiver = n[1], !.ord = n[2]])
        /\ UNCHANGED status
     \/ /\ Top.i = Len(Top.notified)
        /\ Top.cfa \o Top.inline # <<>> => Top.depth < MaxDepth
        /\ stack' = WithTop([Top EXCEPT !.running = FALSE])
        /\ UNCHANGED status
     \/ /\ Top.i = Len(Top.notified)
        /\ Top.cfa \o Top.inline # <<>> /\ Top.depth >= MaxDepth
        /\ status' = "failed"
        /\ UNCHANGED stack
  /\ UNCHANGED <<paid, traces, next, original>>

\* exec goes through _cfa_inline_actions and then _inline_actions.
execute_InlineFirst ==
  /\ status = "executing" /\ stack # <<>> /\ ~Top.running
  /\ LET rest == Top.inline \o Top.cfa
     IN IF rest = <<>> THEN stack' = Front(stack)
        ELSE stack' = Append(WithTop([Top EXCEPT
                                !.cfa = IF Top.inline = <<>> THEN Tail(Top.cfa) ELSE Top.cfa,
                                !.inline = IF Top.inline = <<>> THEN <<>> ELSE Tail(Top.inline)]),
                             Context(Head(rest), Top.depth + 1))
  /\ UNCHANGED <<paid, traces, next, original, executed, status>>

execute_inline_actions ==
  /\ status = "executing" /\ stack # <<>> /\ ~Top.running
  /\ LET rest == Top.cfa \o Top.inline
     IN IF rest = <<>> THEN stack' = Front(stack)
        ELSE stack' = Append(WithTop([Top EXCEPT
                                !.cfa = IF Top.cfa = <<>> THEN <<>> ELSE Tail(Top.cfa),
                                !.inline = IF Top.cfa = <<>> THEN Tail(Top.inline) ELSE Top.inline]),
                             Context(Head(rest), Top.depth + 1))
  /\ UNCHANGED <<paid, traces, next, original, executed, status>>

\* The contract, or a check of the chain, throws: the transaction fails.
Throw ==
  /\ Running
  /\ status' = "failed"
  /\ UNCHANGED <<paid, traces, stack, next, original, executed>>

-----------------------------------------------------------------------------
(* transaction_context::exec *)

exec ==
  /\ status = "executing" /\ stack = <<>>
  /\ IF next <= original
     THEN /\ stack' = <<Context(next, 0)>>
          /\ next' = next + 1
          /\ UNCHANGED status
     ELSE status' = "executed" /\ UNCHANGED <<stack, next>>
  /\ UNCHANGED <<paid, traces, original, executed>>

\* The context-free actions are scheduled first, each action after its fee.
schedule_context_free_action(a) ==
  /\ status = "context free" /\ Len(traces) < MaxInput
  /\ traces' = schedule_input(traces, a, TRUE)
  /\ UNCHANGED <<paid, stack, next, original, executed, status>>

schedule_action(a) ==
  /\ status \in {"context free", "actions"} /\ Len(traces) < MaxInput
  /\ traces' = schedule_input(traces, a, FALSE)
  /\ status' = "actions"
  /\ UNCHANGED <<paid, stack, next, original, executed>>

start ==
  /\ status = "actions"
  /\ status' = "executing"
  /\ original' = Len(traces)
  /\ UNCHANGED <<paid, traces, stack, next, executed>>

Init ==
  /\ paid \in BOOLEAN
  /\ traces = <<>> /\ stack = <<>> /\ next = 1 /\ original = 0
  /\ executed = <<>> /\ status = "context free"

Next ==
  \/ \E a \in Accounts :
       \/ schedule_context_free_action(a) \/ schedule_action(a)
       \/ require_recipient(a) \/ execute_inline(a) \/ execute_context_free_inline(a)
  \/ start \/ exec \/ exec_one \/ execute_inline_actions \/ Throw

Spec == Init /\ [][Next]_vars

-----------------------------------------------------------------------------
(* Properties *)

Ordinals == DOMAIN traces
Notification(o) == traces[o].act # o

TypeOK ==
  /\ \A o \in Ordinals : /\ traces[o].act \in 1..o
                         /\ traces[o].receiver \in Accounts \cup {System}
                         /\ traces[o].creator \in 0..(o - 1) /\ traces[o].ancestor \in 0..(o - 1)
  /\ \A i \in DOMAIN stack : stack[i].depth = i - 1 /\ stack[i].ord \in Ordinals
  /\ Range(executed) \subseteq Ordinals
  /\ status \in {"context free", "actions", "executing", "executed", "failed"}

\* While code runs, apply_context::act points into the vector as it is now and
\* to the action that runs, although every scheduled action moves the vector
\* and exec changes action_ordinal without setting act.
ActIsCurrent ==
  Running => /\ Top.act.size = Len(traces)
             /\ traces[Top.act.ord].act = traces[Top.ord].act

\* Every action that was scheduled is executed exactly once, whoever
\* scheduled it: the loop over the transaction's own actions does not reach
\* the traces that were appended while it ran.
EachExecutesOnce ==
  /\ IsInjective(executed)
  /\ status = "executed" => Range(executed) = Ordinals

\* The fee of an action is charged immediately before it, also for inline and
\* context-free inline actions: nothing is executed in between, and no
\* receipt of a paying transaction lacks its fee.
FeeComesFirst ==
  \A p \in DOMAIN executed :
    (paid /\ ~traces[executed[p]].fee /\ ~Notification(executed[p])) =>
      /\ p > 1
      /\ traces[executed[p - 1]].fee
      /\ executed[p - 1] = executed[p] - 1

\* What executing action o comes to: its notifications in the order they
\* were asked for, then its context-free inline actions, then its inline
\* actions, each with all that it comes to.
RECURSIVE Expand(_)
Expand(o) ==
  LET asc(S) == SetToSortSeq(S, <)
      children == {c \in Ordinals : traces[c].ancestor = o /\ ~Notification(c)}
      withFee(c) == (IF paid THEN <<c - 1>> ELSE <<>>) \o Expand(c)
      all(S) == FlattenSeq([i \in 1..Cardinality(S) |-> withFee(asc(S)[i])])
  IN <<o>> \o asc({c \in Ordinals : traces[c].ancestor = o /\ Notification(c)})
           \o all({c \in children : traces[c].context_free})
           \o all({c \in children : ~traces[c].context_free})

\* A transaction that succeeded was executed depth first: its receipts are in
\* the order of the tree of its actions, notifications before context-free
\* inline before inline actions at each one, as action_ordinal_test of
\* unittests/api_tests.cpp expects for one tree.
DepthFirst ==
  status = "executed" => executed = FlattenSeq([o \in 1..original |-> Expand(o)])

\* closest_unnotified_ancestor_action_ordinal is what its name says: going up
\* from an action that another one scheduled, the creator itself when it is not a
\* notification, and otherwise the action that the creator was notified of.
AncestorIsClosest ==
  \A o \in Ordinals : traces[o].creator > 0 =>
    /\ ~Notification(traces[o].ancestor)
    /\ traces[o].ancestor = traces[traces[o].creator].act
=============================================================================
