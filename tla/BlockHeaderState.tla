-------------------------- MODULE BlockHeaderState --------------------------
(***************************************************************************)
(* libraries/chain/block_header_state.cpp: what a block header adds to the *)
(* header state of its parent, as a function of the parent's header state. *)
(* A header state is a record with                                         *)
(*   num, slot       block_num and header.timestamp,                       *)
(*   active          active_schedule: its version and its producers,       *)
(*   pending         pending_schedule: version, producers, schedule_lib_num*)
(*   last_produced   producer_to_last_produced,                            *)
(*   implied_irb     producer_to_last_implied_irb,                         *)
(*   confirm_count   the confirmations each tracked block still needs,     *)
(*   proposed_irb    dpos_proposed_irreversible_blocknum,                  *)
(*   irb             dpos_irreversible_blocknum.                           *)
(* Hashes, merkle roots, signatures and protocol features are left out.    *)
(***************************************************************************)
EXTENDS Integers, Sequences, FiniteSets, FiniteSetsExt

CONSTANTS
  Producers,             \* producer account names
  ProducerRepetitions,   \* config::producer_repetitions
  MaxTracked             \* config::maximum_tracked_dpos_confirmations

ASSUME HeaderAssumption ==
  /\ IsFiniteSet(Producers)
  /\ ProducerRepetitions \in Nat \ {0}
  /\ MaxTracked \in Nat \ {0}

Members(schedule) == {schedule[i] : i \in 1 .. Len(schedule)}

\* The genesis header: the initial schedule is active, and pending as well, so
\* that the first block promotes it and fills the maps.
genesis_header(schedule) ==
  [ num |-> 1, slot |-> 0,
    active |-> [version |-> 0, producers |-> schedule],
    pending |-> [version |-> 0, producers |-> schedule, lib_num |-> 0],
    last_produced |-> << >>, implied_irb |-> << >>,
    confirm_count |-> << >>, proposed_irb |-> 0, irb |-> 0 ]

get_scheduled_producer(h, slot) ==
  LET n == Len(h.active.producers)
  IN  h.active.producers[((slot % (n * ProducerRepetitions)) \div ProducerRepetitions) + 1]

-----------------------------------------------------------------------------
(* Confirmations.                                                          *)

\* Mutant: one third and one instead of two thirds and one.
required_confs_Third(h) == (Len(h.active.producers) \div 3) + 1

required_confs(h) == ((Len(h.active.producers) * 2) \div 3) + 1

\* The new block is tracked too; the oldest one goes when the vector is full.
Tracked(h) ==
  LET c == IF Len(h.confirm_count) < MaxTracked THEN h.confirm_count
           ELSE Tail(h.confirm_count)
  IN  Append(c, required_confs(h))

\* The loop goes down from the new block over it and the "confirmed" blocks
\* before it, takes one confirmation off each and stops at the first that needs
\* no more: the positions where it may stop.
Completed(c, confirmed) ==
  {i \in 1 .. Len(c) : i >= Len(c) - confirmed /\ c[i] = 1}

\* That block becomes proposed irreversible, and it and the ones before it are
\* no longer tracked.
next_confirm_count(h, confirmed) ==
  LET c == Tracked(h)
      Z == Completed(c, confirmed)
      low == IF Z = {} THEN 0 ELSE Max(Z)
      Taken(i) == IF i >= Len(c) - confirmed THEN c[i] - 1 ELSE c[i]
  IN  [j \in 1 .. Len(c) - low |-> Taken(low + j)]

next_proposed(h, confirmed) ==
  LET c == Tracked(h)
      Z == Completed(c, confirmed)
  IN  IF Z = {} THEN h.proposed_irb ELSE h.num + 1 - (Len(c) - Max(Z))

\* The element at index (size - 1) / 3 of the values of f in ascending order.
nth_element(f) ==
  LET index == (Cardinality(DOMAIN f) - 1) \div 3
  IN  CHOOSE v \in {f[p] : p \in DOMAIN f} :
        /\ Cardinality({p \in DOMAIN f : f[p] < v}) <= index
        /\ Cardinality({p \in DOMAIN f : f[p] <= v}) > index

calc_dpos_last_irreversible(h, next_producer) ==
  LET P == DOMAIN h.implied_irb
  IN  IF P = {} THEN 0
      ELSE nth_element([p \in P |-> IF p = next_producer THEN h.proposed_irb
                                    ELSE h.implied_irb[p]])

-----------------------------------------------------------------------------
(* The next header.                                                        *)

\* m[p] = v
Assign(m, p, v) == [q \in DOMAIN m \cup {p} |-> IF q = p THEN v ELSE m[q]]

\* Mutant: new producers start at block 0.
Carried_Zero(m, schedule, default) ==
  [q \in Members(schedule) |-> IF q \in DOMAIN m THEN m[q] ELSE 0]

\* The map of a promoted schedule: known producers keep their entry, new ones
\* start at the last irreversible block.
Carried(m, schedule, default) ==
  [q \in Members(schedule) |-> IF q \in DOMAIN m THEN m[q] ELSE default]

\* The EOS_ASSERTs of next: time goes forward, and a producer does not confirm
\* a range that reaches down to its last block.
CanNext(h, slot, confirmed) ==
  LET p == get_scheduled_producer(h, slot)
  IN  /\ slot > h.slot
      /\ p \in DOMAIN h.last_produced =>
           h.last_produced[p] < h.num + 1 - confirmed

\* The pending schedule is promoted once it is irreversible.
Promotes(h, irb) == h.pending.producers # << >> /\ irb >= h.pending.lib_num

next_last_produced(h, p, irb) ==
  Assign(IF Promotes(h, irb) THEN Carried(h.last_produced, h.pending.producers, irb)
         ELSE h.last_produced, p, h.num + 1)

\* A producer that leaves with the promotion gets no entry.
next_implied_irb(h, p, irb) ==
  LET m == Carried(h.implied_irb, h.pending.producers, irb)
  IN  IF ~Promotes(h, irb) THEN Assign(h.implied_irb, p, h.proposed_irb)
      ELSE IF p \in DOMAIN m THEN Assign(m, p, h.proposed_irb)
      ELSE m

next_active(h, irb) ==
  IF Promotes(h, irb)
  THEN [version |-> h.pending.version, producers |-> h.pending.producers]
  ELSE h.active

\* _finish_next: new_producers become pending; a promoted schedule leaves.
next_pending(h, irb, new_producers) ==
  IF new_producers # << >>
  THEN [version |-> h.active.version + 1, producers |-> new_producers,
        lib_num |-> h.num + 1]
  ELSE IF Promotes(h, irb) THEN [h.pending EXCEPT !.producers = << >>]
  ELSE h.pending

\* next(when, confirmed) and _finish_next with new_producers (<< >> for none).
next(h, slot, confirmed, new_producers) ==
  LET p   == get_scheduled_producer(h, slot)
      irb == calc_dpos_last_irreversible(h, p)
  IN  [ num           |-> h.num + 1,
        slot          |-> slot,
        active        |-> next_active(h, irb),
        pending       |-> next_pending(h, irb, new_producers),
        last_produced |-> next_last_produced(h, p, irb),
        implied_irb   |-> next_implied_irb(h, p, irb),
        confirm_count |-> next_confirm_count(h, confirmed),
        proposed_irb  |-> next_proposed(h, confirmed),
        irb           |-> irb ]
=============================================================================
