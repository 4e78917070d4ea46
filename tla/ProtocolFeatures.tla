-------------------------- MODULE ProtocolFeatures --------------------------
(***************************************************************************)
(* Protocol features of one node: the chain state's protocol_state_object, *)
(* the block headers, the protocol_feature_manager's lists in memory and   *)
(* the producer plugin's list of features to activate are four records of  *)
(* what is active, changed at different moments and rolled back by         *)
(* different means: an undo of the chain state, a header that is dropped,  *)
(* popped_blocks_to.                                                       *)
(*                                                                         *)
(* Blocks are those of the branch of the head; another branch comes from   *)
(* outside as the contents of its blocks.  The timestamp of block n is n.  *)
(***************************************************************************)
EXTENDS Integers, Sequences, FiniteSets, SequencesExt

CONSTANTS
  Features,       \* the recognized features, all of them builtin
  Dependencies,   \* the dependencies of a feature
  Required,       \* the features that require preactivation
  Disabled,       \* the features that are not enabled on this node
  Earliest,       \* earliest_allowed_activation_time
  Preactivate,    \* PREACTIVATE_FEATURE
  None,           \* no_previous
  MaxBlockNum,    \* bound on the length of the branch
  MaxList,        \* bound on the features a block activates and preactivates, or a request lists
  MaxReorg        \* bound on the blocks a fork switch pops

NotActive == MaxBlockNum + 2

FeaturesAssumption ==
  /\ Dependencies \in [Features -> SUBSET Features]
  /\ Required \subseteq Features /\ Disabled \subseteq Features
  /\ Earliest \in [Features -> Nat]
  /\ Preactivate \in Features /\ None \notin Features
  /\ MaxBlockNum \in Nat \ {0} /\ MaxList \in Nat /\ MaxReorg \in Nat

VARIABLES
  n,            \* the controller: blocks, db, pfm, pending
  mode,         \* _pending_block_mode
  due,          \* the timer is set for maybe_produce_block
  to_activate,  \* _protocol_features_to_activate
  signaled      \* _protocol_features_signaled

vars == <<n, mode, due, to_activate, signaled>>
-----------------------------------------------------------------------------
(***************************************************************************)
(* protocol_feature_manager.  The builtin entries form a list through      *)
(* previous, headed by the feature activated last.                         *)
(***************************************************************************)
NoEntry == [previous |-> None, num |-> NotActive]

NewManager == [activated |-> <<>>, entry |-> [f \in Features |-> NoEntry], list |-> None]

CanActivate(m, f, num) ==
  /\ m.activated # <<>> => Last(m.activated).num <= num
  /\ m.entry[f].num = NotActive

activate_feature(m, f, num) ==
  [activated |-> Append(m.activated, [f |-> f, num |-> num]),
   entry |-> [m.entry EXCEPT ![f] = [previous |-> m.list, num |-> num]],
   list |-> f]

RECURSIVE Unwind(_, _)
Unwind(m, num) ==
  IF m.list = None \/ m.entry[m.list].num <= num THEN m
  ELSE Unwind([m EXCEPT !.list = m.entry[m.list].previous, !.entry[m.list] = NoEntry], num)

popped_blocks_to_ListOnly(m, num) == Unwind(m, num)

popped_blocks_to(m, num) ==
  LET u == Unwind(m, num)
      kept == CHOOSE k \in 0 .. Len(m.activated) :
                /\ k > 0 => m.activated[k].num <= num
                /\ \A j \in k + 1 .. Len(m.activated) : m.activated[j].num > num
  IN [u EXCEPT !.activated = SubSeq(@, 1, kept)]

init(db) ==
  FoldLeft(LAMBDA m, e : activate_feature(m, e.f, e.num), NewManager, db.activated)

is_recognized(f, time) ==
  IF f \notin Features THEN "unrecognized"
  ELSE IF f \in Disabled THEN "disabled"
  ELSE IF Earliest[f] > time THEN "too_early" ELSE "ready"
-----------------------------------------------------------------------------
(***************************************************************************)
(* The controller.  A block is what it activates, what its transactions    *)
(* preactivate, the features its header state says are active and the      *)
(* chain state after it.                                                   *)
(***************************************************************************)
Genesis ==
  [acts |-> <<>>, pre |-> <<>>, activated |-> {},
   db |-> [activated |-> <<>>, preactivated |-> <<>>, intrinsic |-> FALSE]]

NoPending == [open |-> FALSE, acts |-> <<>>, pre |-> <<>>]

head(c) == Last(c.blocks)
HeadNum(c) == Len(c.blocks)

\* A feature's dependencies are active or come before it in the same block.
check_protocol_features(time, activated, new) ==
  \A i \in DOMAIN new :
    /\ is_recognized(new[i], time) = "ready"
    /\ new[i] \notin activated
    /\ Dependencies[new[i]] \subseteq activated \cup {new[j] : j \in 1 .. i - 1}

\* The block header extension holds no digest twice.
HeaderValid(num, activated, acts) ==
  IsInjective(acts) /\ check_protocol_features(num, activated, acts)

validate_protocol_features(c, list) ==
  check_protocol_features(HeadNum(c), head(c).activated, list)

abort_block(c) ==
  IF ~c.pending.open THEN c
  ELSE [c EXCEPT !.pending = NoPending, !.db = head(c).db,
                 !.pfm = popped_blocks_to(@, HeadNum(c))]

pop_block(c) ==
  LET rest == Front(c.blocks)
  IN [c EXCEPT !.blocks = rest, !.db = Last(rest).db, !.pfm = popped_blocks_to(@, Len(rest))]

\* One round of the loop of start_block: flags is the map
\* activated_protocol_features, ok is FALSE once an assertion has thrown.
ActivateNext(acc, f) ==
  LET num == HeadNum(acc.c) + 1
      preactivated == f \in DOMAIN acc.flags
      allowed == IF preactivated THEN ~acc.flags[f] ELSE f \notin Required
  IN IF ~acc.ok \/ ~allowed \/ ~CanActivate(acc.c.pfm, f, num) THEN [acc EXCEPT !.ok = FALSE]
     ELSE [acc EXCEPT !.flags = [g \in DOMAIN @ \cup {f} |-> IF g = f THEN TRUE ELSE @[g]],
                      !.count = IF preactivated THEN @ + 1 ELSE @,
                      !.c.db.intrinsic = @ \/ f = Preactivate,
                      !.c.pfm = activate_feature(@, f, num)]

Activated(c, acts) ==
  [c EXCEPT !.db.preactivated = <<>>,
            !.db.activated = @ \o [i \in DOMAIN acts |-> [f |-> acts[i], num |-> HeadNum(c) + 1]]]

\* start_block: whatever throws, the scoped exit takes back what was
\* activated and drops the pending block.
start_block(c, acts) ==
  LET pre == c.db.preactivated
      end == FoldLeft(ActivateNext,
                      [c |-> [c EXCEPT !.pending = [open |-> TRUE, acts |-> acts, pre |-> <<>>]],
                       ok |-> TRUE, count |-> 0, flags |-> [f \in Range(pre) |-> FALSE]], acts)
      handled == pre = <<>> \/ (acts # <<>> /\ end.count = Len(pre))
  IN IF ~end.ok \/ ~handled THEN abort_block(end.c)
     ELSE IF acts = <<>> THEN end.c ELSE Activated(end.c, acts)

\* is_protocol_feature_activated, during a block
IsActivated(c, f) == f \in head(c).activated \/ f \in Range(c.pending.acts)

CanPreactivate(c, f) ==
  /\ c.pending.open /\ c.db.intrinsic
  /\ is_recognized(f, HeadNum(c) + 1) = "ready"
  /\ ~IsActivated(c, f)
  /\ f \notin Range(c.db.preactivated)
  /\ \A d \in Dependencies[f] : IsActivated(c, d) \/ d \in Range(c.db.preactivated)

preactivate_feature(c, f) ==
  [c EXCEPT !.db.preactivated = Append(@, f), !.pending.pre = Append(@, f)]

\* finalize_block and commit_block
commit_block(c) ==
  [c EXCEPT !.blocks = Append(@, [acts |-> c.pending.acts, pre |-> c.pending.pre,
                                  activated |-> head(c).activated \cup Range(c.pending.acts),
                                  db |-> c.db]),
            !.pending = NoPending]

\* apply_block: a transaction that fails makes the block invalid.
apply_block(c, b) ==
  LET started == start_block(c, b.acts)
      run(acc, f) == IF acc.ok /\ CanPreactivate(acc.c, f)
                     THEN [acc EXCEPT !.c = preactivate_feature(@, f)] ELSE [acc EXCEPT !.ok = FALSE]
      end == FoldLeft(run, [c |-> started, ok |-> started.pending.open], b.pre)
  IN IF end.ok THEN [c |-> commit_block(end.c), ok |-> TRUE]
     ELSE [c |-> abort_block(end.c), ok |-> FALSE]

ApplyAll(c, branch) ==
  FoldLeft(LAMBDA acc, b : IF acc.ok THEN apply_block(acc.c, b) ELSE acc,
           [c |-> c, ok |-> TRUE], branch)

\* Every block back to the first k
PopTo(c, k) == FoldLeft(LAMBDA acc, i : pop_block(acc), c, [i \in 1 .. HeadNum(c) - k |-> i])

\* maybe_switch_forks: when a block of the new branch fails, the old branch
\* is applied again.
maybe_switch_forks(c, k, branch) ==
  LET old == SubSeq(c.blocks, k + 1, HeadNum(c))
      end == ApplyAll(PopTo(c, k), branch)
  IN IF end.ok THEN end.c ELSE ApplyAll(PopTo(end.c, k), old).c

\* A block is in the fork database when its header state could be made from
\* the one before.
BranchValid(c, k, branch) ==
  \A i \in DOMAIN branch :
    HeaderValid(k + i, c.blocks[k].activated \cup UNION {Range(branch[j].acts) : j \in 1 .. i - 1},
                branch[i].acts)
-----------------------------------------------------------------------------
(***************************************************************************)
(* The producer plugin                                                     *)
(***************************************************************************)
s0 == [n |-> n, mode |-> mode, due |-> due, to_activate |-> to_activate, signaled |-> signaled]

Becomes(s) ==
  n' = s.n /\ mode' = s.mode /\ due' = s.due /\ to_activate' = s.to_activate /\ signaled' = s.signaled

Merged(list, pre) == list \o SelectSeq(pre, LAMBDA f : f \notin Range(list))

\* controller::start_block: the list is checked against the head before
\* anything is changed.
StartBlock(c, list) == IF validate_protocol_features(c, list) THEN start_block(c, list) ELSE c

\* start_block of the plugin, in the mode the schedule gives.
plugin_start_block(s, m) ==
  LET c == abort_block(s.n)
      pre == c.db.preactivated
      asks == m = "producing" /\ s.to_activate # <<>>
      valid == validate_protocol_features(c, s.to_activate)
      started == StartBlock(c, IF asks /\ valid THEN Merged(s.to_activate, pre) ELSE pre)
  IN [n |-> started, mode |-> m, due |-> m = "producing" /\ started.pending.open,
      to_activate |-> IF asks /\ ~valid THEN <<>> ELSE s.to_activate,
      signaled |-> s.signaled \/ (asks /\ valid)]

Modes == {"producing", "speculating"}

\* schedule_production_loop: the mode is set, then it may not yet be time to
\* start a block, and what is pending stays pending.
Rescheduled(s, m, waits) ==
  IF waits \/ HeadNum(s.n) = MaxBlockNum THEN [s EXCEPT !.mode = m, !.due = FALSE]
  ELSE plugin_start_block(s, m)

ScheduleProductionLoop(m, waits) == Becomes(Rescheduled(s0, m, waits))

\* A transaction of the pending block.
PreactivateFeature(f) ==
  /\ CanPreactivate(n, f) /\ Len(n.pending.pre) < MaxList
  /\ n' = preactivate_feature(n, f)
  /\ UNCHANGED <<mode, due, to_activate, signaled>>

\* schedule_protocol_feature_activations
ScheduleActivations(list) ==
  /\ IsInjective(list) /\ validate_protocol_features(n, list)
  /\ Range(list) \cap Required = {}
  /\ to_activate' = list /\ signaled' = FALSE
  /\ UNCHANGED <<n, mode, due>>

Cleared(s) == IF s.signaled THEN [s EXCEPT !.to_activate = <<>>, !.signaled = FALSE] ELSE s

\* maybe_produce_block
ProduceBlock(m, waits) ==
  /\ due
  /\ Becomes(Rescheduled([Cleared(s0) EXCEPT !.n = commit_block(@)], m, waits))

\* It throws before the list is cleared, for want of a key, or after, when
\* a signature provider fails.
ProduceBlockFails(m, waits) ==
  /\ due
  /\ \E s \in {s0, Cleared(s0)} : Becomes(Rescheduled([s EXCEPT !.n = abort_block(@)], m, waits))

\* on_incoming_block: a block that extends the head, or the last block of a
\* branch that is longer than the node's.
OnIncomingBlock(k, branch) ==
  /\ mode # "producing"
  /\ k + Len(branch) <= MaxBlockNum
  /\ \E c \in {maybe_switch_forks(abort_block(n), k, branch)} :
       \E m \in Modes, waits \in BOOLEAN : Becomes(Rescheduled([s0 EXCEPT !.n = c], m, waits))

\* The node stops and starts again: what was pending is undone, the manager
\* is made from the chain state, the plugin's list is lost.
Restart ==
  /\ n' = [n EXCEPT !.db = head(n).db, !.pending = NoPending, !.pfm = init(head(n).db)]
  /\ mode' = "speculating" /\ due' = FALSE /\ to_activate' = <<>> /\ signaled' = FALSE

Lists == UNION {[1 .. k -> Features] : k \in 0 .. MaxList}
Contents == {b \in [acts : Lists, pre : Lists] : Len(b.acts) + Len(b.pre) <= MaxList}
Branches(k) == {b \in [1 .. HeadNum(n) + 1 - k -> Contents] : BranchValid(n, k, b)}

Init ==
  /\ n = [blocks |-> <<Genesis>>, db |-> Genesis.db, pfm |-> NewManager, pending |-> NoPending]
  /\ mode = "speculating" /\ due = FALSE /\ to_activate = <<>> /\ signaled = FALSE

Next ==
  \/ \E f \in Features : PreactivateFeature(f)
  \/ \E list \in Lists : ScheduleActivations(list)
  \/ \E m \in Modes, waits \in BOOLEAN :
       \/ ScheduleProductionLoop(m, waits)
       \/ ProduceBlock(m, waits)
       \/ ProduceBlockFails(m, waits)
  \/ \E k \in {j \in 1 .. HeadNum(n) : HeadNum(n) - j <= MaxReorg} :
       \E branch \in Branches(k) : OnIncomingBlock(k, branch)
  \/ Restart

Spec == Init /\ [][Next]_vars
-----------------------------------------------------------------------------
\* Every variable has its type.
TypeOK ==
  /\ mode \in Modes /\ due \in BOOLEAN /\ to_activate \in Lists /\ signaled \in BOOLEAN
  /\ HeadNum(n) \in 1 .. MaxBlockNum
  /\ n.pfm.list \in Features \cup {None}
  /\ \A f \in Features : n.pfm.entry[f].num \in 1 .. MaxBlockNum + 2

RECURSIVE ListFrom(_, _)
ListFrom(m, f) == IF f = None THEN <<>> ELSE Append(ListFrom(m, m.entry[f].previous), f)

\* protocol_feature_manager: through aborted blocks, start_block failing half
\* way, fork switches that are reverted and restarts, the manager's vector
\* and its list of builtin entries say what the chain state says.
ManagerMatchesState ==
  LET m == n.pfm
      order == [i \in DOMAIN m.activated |-> m.activated[i].f]
  IN /\ m.activated = n.db.activated
     /\ ListFrom(m, m.list) = order
     /\ \A f \in Features :
          m.entry[f].num = IF f \in Range(order)
                           THEN (CHOOSE e \in Range(m.activated) : e.f = f).num ELSE NotActive

\* controller::is_builtin_activated asks the manager,
\* is_protocol_feature_activated the headers and the pending block: they
\* agree on every feature at every moment.
ViewsAgree ==
  LET current == HeadNum(n) + (IF n.pending.open THEN 1 ELSE 0)
  IN \A f \in Features : (n.pfm.entry[f].num <= current) <=> IsActivated(n, f)

\* preactivate_feature and start_block: what a block preactivates is active
\* in the block after it, in every branch.
PreactivatedNext ==
  \A i \in 1 .. HeadNum(n) - 1 :
    Range(n.blocks[i].db.preactivated) \subseteq Range(n.blocks[i + 1].acts)

\* No block can be committed on which no block can be built: the features it
\* leaves preactivated, merged with those the operator scheduled at whatever
\* head, pass every check of the plugin's and the controller's start_block.
NextBlockPossible == \A m \in Modes : plugin_start_block(s0, m).n.pending.open

=============================================================================
