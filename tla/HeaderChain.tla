----------------------------- MODULE HeaderChain -----------------------------
(***************************************************************************)
(* One branch of the chain as the headers and the producer schedule see    *)
(* it: every block makes a header state from its parent's (next), promotes *)
(* the proposed schedule to pending when it is irreversible                *)
(* (controller_impl::start_block), and may hold a transaction that         *)
(* proposes a schedule (controller::set_proposed_producers).  Producers    *)
(* miss slots, and confirm as many blocks as the header rules let them.    *)
(***************************************************************************)
EXTENDS BlockHeaderState

CONSTANTS
  InitialSchedule,   \* the schedule of the genesis state
  Schedules,         \* the schedules that are proposed
  MaxForgone,        \* bound: how many blocks less than it may a producer confirms
  MaxMissed,         \* bound: slots without a block on this branch
  MaxNum             \* bound: the branch ends at this block number

ASSUME ChainBounds ==
  /\ InitialSchedule \in Seq(Producers) /\ InitialSchedule # << >>
  /\ Schedules \subseteq Seq(Producers)
  /\ MaxForgone \in Nat /\ MaxMissed \in Nat /\ MaxNum \in Nat

VARIABLES
  h,          \* the header state of the head of the branch
  proposed,   \* gpo.proposed_schedule and proposed_schedule_block_num, or None
  made,       \* for each block number, who produced it and how many it confirmed
  versionOK   \* the schedule version checks of start_block and _finish_next held

vars == <<h, proposed, made, versionOK>>

None == [block_num |-> 0, producers |-> << >>, version |-> 0]

\* start_block promotes the proposed schedule to pending.
PromotesProposal(slot) ==
  /\ proposed # None
  /\ proposed.block_num <= calc_dpos_last_irreversible(h, get_scheduled_producer(h, slot))
  /\ h.pending.producers = << >>

\* What a transaction of the block leaves as the proposed schedule, from what
\* start_block left of it (rest) and the pending schedule the block will have.
set_proposed_producers(rest, pending, S) ==
  LET current == IF pending.producers = << >> THEN h.active ELSE pending
  IN  IF \/ rest # None /\ (rest.block_num # h.num + 1 \/ rest.producers = S)
         \/ current.producers = S
      THEN rest
      ELSE [block_num |-> h.num + 1, producers |-> S, version |-> current.version + 1]

-----------------------------------------------------------------------------
Init ==
  /\ h = genesis_header(InitialSchedule)
  /\ proposed = None
  /\ made = << >>
  /\ versionOK = TRUE

\* The block at a slot, with or without a transaction that proposes S.
NextBlock(slot, confirmed, S) ==
  LET p        == get_scheduled_producer(h, slot)
      promotes == PromotesProposal(slot)
      new      == IF promotes THEN proposed.producers ELSE << >>
      rest     == IF promotes THEN None ELSE proposed
      pending  == IF promotes THEN proposed ELSE h.pending
  IN  /\ h.num < MaxNum
      /\ CanNext(h, slot, confirmed)
      /\ h' = next(h, slot, confirmed, new)
      /\ proposed' = IF S = << >> THEN rest ELSE set_proposed_producers(rest, pending, S)
      /\ made' = Append(made, [producer |-> p, confirmed |-> confirmed])
      /\ versionOK' = (versionOK /\ (promotes => proposed.version = h.active.version + 1))

\* What producer_plugin_impl::start_block lets the producer confirm: the blocks
\* since its watermark, which is its last block on this branch or a later one on
\* another branch, and none that is irreversible.
MayConfirm(slot) ==
  LET p == get_scheduled_producer(h, slot)
      w == IF p \in DOMAIN h.last_produced THEN h.last_produced[p] ELSE h.num
  IN  Min({h.num - w, h.num - h.irb})

Next ==
  \E slot \in h.slot + 1 .. h.num + MaxMissed, S \in Schedules \cup {<< >>} :
    \E forgone \in 0 .. Min({MaxForgone, MayConfirm(slot)}) :
      NextBlock(slot, MayConfirm(slot) - forgone, S)

Spec == Init /\ [][Next]_vars

-----------------------------------------------------------------------------
\* The producer of block number m, and the numbers it confirms with it.
ProducerOf(m) == made[m - 1].producer

ConfirmedBy(m) == m - made[m - 1].confirmed .. m

Confirmers(k) == {ProducerOf(m) : m \in {m \in k .. h.num : k \in ConfirmedBy(m)}}

\* Every variable has the shape the code gives it; what is tracked still needs
\* confirmations and is above the proposed irreversible block.
TypeOK ==
  /\ h.num \in 1 .. MaxNum /\ h.slot \in Nat
  /\ h.irb \in Nat /\ h.proposed_irb \in Nat
  /\ h.confirm_count \in Seq(Nat \ {0}) /\ Len(h.confirm_count) <= MaxTracked
  /\ Members(h.active.producers) \cup Members(h.pending.producers) \subseteq Producers
  /\ DOMAIN h.implied_irb \subseteq DOMAIN h.last_produced
  /\ versionOK \in BOOLEAN

\* No block is irreversible before it is proposed irreversible, and no block
\* confirms itself: irb <= proposed_irb < num, and every block between the
\* proposed one and the head is tracked unless the vector overflowed.
IrreversibleBehindHead ==
  /\ h.irb <= h.proposed_irb /\ h.proposed_irb + Len(h.confirm_count) <= h.num
  /\ \A p \in DOMAIN h.implied_irb : h.implied_irb[p] <= h.proposed_irb
  /\ \A p \in DOMAIN h.last_produced : h.last_produced[p] <= h.num

\* A block becomes proposed irreversible only when enough different producers,
\* two thirds and one of some schedule that was active on this branch, have
\* confirmed it or a block built on it.  The confirmations are counted in
\* confirm_count, without names: it is the double-confirm check of next(),
\* carried over schedule changes by producer_to_last_produced, that keeps one
\* producer from being counted twice.
ProposedHasQuorum ==
  h.proposed_irb > 1 =>
    LET sizes == {Len(S) : S \in Schedules \cup {InitialSchedule}}
    IN  \E s \in sizes : Cardinality(Confirmers(h.proposed_irb)) >= ((s * 2) \div 3) + 1

\* A producer never confirms a block number of this branch twice, whichever
\* schedules came and went in between.
NoDoubleConfirm ==
  \A m1, m2 \in 2 .. h.num :
    m1 < m2 /\ ProducerOf(m1) = ProducerOf(m2) => ConfirmedBy(m1) \cap ConfirmedBy(m2) = {}

\* A schedule proposed by a transaction has the version that start_block
\* (controller.cpp:1759) and _finish_next (block_header_state.cpp:254) require
\* when it is promoted, however many schedules were promoted in between.
ProposalVersionFits == versionOK

\* All of them: a block is proposed irreversible only with the confirmations of
\* two thirds and one of the producers of a schedule that was active on its
\* branch, none of whom is counted twice, behind the head, and with schedule
\* versions that start_block and _finish_next accept.
ProposedIsFinal ==
  ProposedHasQuorum /\ NoDoubleConfirm /\ IrreversibleBehindHead /\ ProposalVersionFits

\* The irreversible block number never decreases from a block to its child.
\* The fork database relies on it: otherwise the child is not preferred to its
\* parent, and commit_block's assertion that the committed block becomes the
\* head (controller.cpp:1879) fails.
IrreversibleNeverDecreases == [][h'.irb >= h.irb /\ h'.proposed_irb >= h.proposed_irb]_vars
=============================================================================
