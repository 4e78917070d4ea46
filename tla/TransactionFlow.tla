-------------------------- MODULE TransactionFlow --------------------------
(***************************************************************************)
(* The way of a transaction through a node: the incoming queue, the        *)
(* pending block, the unapplied_transaction_queue and the blocks, as       *)
(* producer_plugin moves it when it starts, aborts and produces blocks and *)
(* when blocks and forks arrive.  Handlers run one at a time on the main   *)
(* thread; start_block is long, so its loops over transactions are steps   *)
(* here, between which no other handler runs (phase is then "unapplied" or *)
(* "incoming").                                                            *)
(*                                                                         *)
(* What executing a transaction gives is a choice: it is applied, fails,   *)
(* or does not fit (a subjective failure).  A transaction that is expired  *)
(* or already in the chain or in the pending block always fails.  The      *)
(* queue keeps a type for each transaction; transactions of one type are   *)
(* taken in any order.                                                     *)
(***************************************************************************)
EXTENDS Integers, Sequences, FiniteSets

CONSTANTS
  Trxs,          \* transactions (ids)
  IsProducer,    \* speculative_producer or speculative_non_producer
  MaxBlocks,     \* bound on the number of reversible blocks
  MaxIncoming,   \* transactions that fit in max_incoming_transaction_queue_size
  MaxSubmits,    \* bound on the number of submissions
  MaxForks       \* bound on the number of fork switches

ASSUME FlowAssumption ==
  /\ IsProducer \in BOOLEAN
  /\ {MaxBlocks, MaxIncoming, MaxSubmits, MaxForks} \subseteq Nat

VARIABLES
  phase,      \* where the main thread is: "idle", "unapplied", "incoming", "ready"
  block_mode, \* _pending_block_mode
  pending,    \* transactions of the pending block
  queue,      \* _unapplied_transactions: the type of each transaction in it
  todo,       \* what process_unapplied_trxs has still to visit
  incoming,   \* _pending_incoming_transactions
  limit,      \* pending_incoming_process_limit
  blocks,     \* transactions of the reversible blocks, oldest first
  expired,    \* transactions that are expired at the pending block's time
  submits,    \* submissions so far
  owed,       \* submissions of each transaction that were not answered
  accepted,   \* transactions whose submitter was told that they were applied
  wanted,     \* those of them that are to be persisted until they expire
  dropped,    \* transactions that failed, or were discarded with a bad fork
  forks       \* fork switches so far

nodeVars == <<phase, block_mode, pending, queue, todo, incoming, limit, blocks>>
ghosts == <<submits, owed, accepted, wanted, dropped, forks>>
flow_vars == <<nodeVars, expired, ghosts>>

Types == {"persisted", "forked", "aborted"}
Entry == [trx : Trxs, persist : BOOLEAN]
Included == UNION {blocks[i] : i \in DOMAIN blocks}
Building == phase # "idle"
-----------------------------------------------------------------------------
(* unapplied_transaction_queue *)

Queued == DOMAIN queue

Erase(q, trxs) == [t \in DOMAIN q \ trxs |-> q[t]]

Insert(q, trxs, type) == [t \in DOMAIN q \cup trxs |-> IF t \in DOMAIN q THEN q[t] ELSE type]

clear_applied(q, trxs) == Erase(q, {t \in trxs \cap DOMAIN q : q[t] # "persisted"})

add_forked(q, trxs) == IF IsProducer THEN Insert(q, trxs, "forked") ELSE q

add_aborted_Never(q, trxs) == q

add_aborted(q, trxs) == IF IsProducer THEN Insert(q, trxs, "aborted") ELSE q

add_persisted(q, t) == [u \in DOMAIN q \cup {t} |-> IF u = t THEN "persisted" ELSE q[u]]

\* The first of the transactions by type: persisted, forked, aborted.
IsFirst(t, trxs) ==
  \/ queue[t] = "persisted"
  \/ queue[t] = "forked" /\ \A u \in trxs : queue[u] # "persisted"
  \/ \A u \in trxs : queue[u] = "aborted"
-----------------------------------------------------------------------------
(* start_block.  What pushing a transaction can give is a choice. *)

Outcomes(t) ==
  IF t \in expired \cup Included \cup pending THEN {"fails"} ELSE {"applied", "fails", "does not fit", "throws"}

\* start_block: expired transactions leave the queue, then the unapplied ones
\* are visited: all of them when producing, otherwise the persisted ones.
ToVisit(md, q) == IF md = "producing" THEN DOMAIN q ELSE {t \in DOMAIN q : q[t] = "persisted"}

StartBlock(md) ==
  /\ phase = "idle"
  /\ md = "producing" => IsProducer
  /\ LET q == Erase(queue, expired)
     IN queue' = q /\ todo' = ToVisit(md, q)
  /\ phase' = "unapplied"
  /\ block_mode' = md
  /\ pending' = {}
  /\ limit' = Len(incoming)
  /\ UNCHANGED <<incoming, blocks, expired, ghosts>>

\* The deadline passes when only some of the expired transactions are gone.
StartExhausted(md, gone) ==
  /\ phase = "idle" /\ gone \subseteq expired \cap Queued
  /\ md = "producing" => IsProducer
  /\ queue' = Erase(queue, gone)
  /\ phase' = "ready" /\ block_mode' = md
  /\ limit' = 0
  /\ UNCHANGED <<pending, todo, incoming, blocks, expired, ghosts>>

\* One turn of process_unapplied_trxs.  push_transaction reports failures in
\* its trace; when it throws, the transaction stays in the queue.
ProcessUnapplied(t, outcome) ==
  /\ phase = "unapplied" /\ t \in todo /\ IsFirst(t, todo) /\ outcome \in Outcomes(t)
  /\ IF outcome = "does not fit"
     THEN phase' = "ready" /\ todo' = {} /\ UNCHANGED queue
     ELSE /\ todo' = todo \ {t}
          /\ queue' = IF outcome = "throws" THEN queue ELSE Erase(queue, {t})
          /\ UNCHANGED phase
  /\ pending' = IF outcome = "applied" THEN pending \cup {t} ELSE pending
  /\ dropped' = IF outcome = "fails" THEN dropped \cup ({t} \ (Included \cup pending)) ELSE dropped
  /\ UNCHANGED <<block_mode, incoming, limit, blocks, expired, submits, owed, accepted, wanted, forks>>

UnappliedDone ==
  /\ phase = "unapplied" /\ todo = {}
  /\ phase' = "incoming"
  /\ UNCHANGED <<block_mode, pending, queue, todo, incoming, limit, blocks, expired, ghosts>>

\* The deadline of the block passes in one of the loops of start_block.
Exhaust ==
  /\ phase \in {"unapplied", "incoming"}
  /\ phase' = "ready" /\ todo' = {}
  /\ UNCHANGED <<block_mode, pending, queue, incoming, limit, blocks, expired, ghosts>>

IncomingDone ==
  /\ phase = "incoming" /\ (limit = 0 \/ incoming = <<>>)
  /\ phase' = "ready"
  /\ UNCHANGED <<block_mode, pending, queue, todo, incoming, limit, blocks, expired, ghosts>>
-----------------------------------------------------------------------------
(* process_incoming_transaction_async, with rest in the incoming queue; due
   is 1 for a new submission and 0 for one that waited. *)

Owe(t, n) == owed' = [owed EXCEPT ![t] = @ + n]

Reject(e, rest, due) ==
  /\ Owe(e.trx, due - 1)
  /\ incoming' = rest
  /\ UNCHANGED <<pending, queue, accepted, wanted, dropped>>

\* incoming_transaction_queue::add throws when the queue is full, and the
\* exception is the answer.
Postpone(e, rest, due) ==
  IF Len(rest) < MaxIncoming
  THEN /\ incoming' = Append(rest, e)
       /\ Owe(e.trx, due)
       /\ UNCHANGED <<pending, queue, accepted, wanted, dropped>>
  ELSE Reject(e, rest, due)

Apply(e, rest, due) ==
  /\ pending' = pending \cup {e.trx}
  /\ queue' = IF e.persist THEN add_persisted(queue, e.trx) ELSE queue
  /\ Owe(e.trx, due - 1)
  /\ accepted' = accepted \cup {e.trx}
  /\ wanted' = IF e.persist THEN wanted \cup {e.trx} ELSE wanted
  /\ dropped' = dropped \ {e.trx}
  /\ incoming' = rest

process_incoming_transaction(e, rest, due) ==
  IF e.trx \in expired \cup Included \cup pending THEN Reject(e, rest, due)
  ELSE IF ~Building THEN Postpone(e, rest, due)
  ELSE \/ Reject(e, rest, due)
       \/ Postpone(e, rest, due)
       \/ Apply(e, rest, due)

\* One turn of process_incoming_trxs.
ProcessIncoming ==
  /\ phase = "incoming" /\ limit > 0 /\ incoming # <<>>
  /\ limit' = limit - 1
  /\ process_incoming_transaction(Head(incoming), Tail(incoming), 0)
  /\ UNCHANGED <<phase, block_mode, todo, blocks, expired, submits, forks>>

\* A transaction arrives, from the network or from a client.
Submit(t, persist) ==
  /\ phase \in {"idle", "ready"} /\ submits < MaxSubmits
  /\ submits' = submits + 1
  /\ process_incoming_transaction([trx |-> t, persist |-> persist], incoming, 1)
  /\ UNCHANGED <<phase, block_mode, todo, limit, blocks, expired, forks>>
-----------------------------------------------------------------------------
(* Blocks *)

\* produce_block: commit_block emits accepted_block, on_block clears the queue.
ProduceBlock ==
  /\ phase = "ready" /\ block_mode = "producing" /\ Len(blocks) < MaxBlocks
  /\ blocks' = Append(blocks, pending)
  /\ queue' = clear_applied(queue, pending)
  /\ pending' = {} /\ phase' = "idle"
  /\ UNCHANGED <<block_mode, todo, incoming, limit, expired, ghosts>>

\* maybe_produce_block after an error, resume, update_runtime_options,
\* get_integrity_hash, create_snapshot, and start_block of a new block.
AbortBlock ==
  /\ phase = "ready"
  /\ queue' = add_aborted(queue, pending)
  /\ pending' = {} /\ phase' = "idle"
  /\ UNCHANGED <<block_mode, todo, incoming, limit, blocks, expired, ghosts>>

\* on_incoming_block is ignored while the node produces.
MayReceive == phase \in {"idle", "ready"} /\ ~(Building /\ block_mode = "producing")

\* The transactions a valid block on top of those may hold.
Valid(trxs, included) == trxs \subseteq Trxs \ (expired \cup included)

ReceiveBlockOf(trxs) ==
  /\ MayReceive /\ Len(blocks) < MaxBlocks /\ Valid(trxs, Included)
  /\ queue' = clear_applied(add_aborted(queue, pending), trxs)
  /\ blocks' = Append(blocks, trxs)
  /\ pending' = {} /\ phase' = "idle"
  /\ UNCHANGED <<block_mode, todo, incoming, limit, expired, ghosts>>

Holds(bs, from) == UNION {bs[i] : i \in from .. Len(bs)}

\* push_block switches forks: the blocks after n leave the chain and their
\* transactions join the queue, then the blocks of the new branch are accepted.
SwitchForks(n, branch) ==
  /\ forks < MaxForks /\ n < Len(blocks) /\ n + Len(branch) <= MaxBlocks /\ MayReceive
  /\ \A i \in 1 .. Len(branch) :
       Valid(branch[i], Holds(SubSeq(blocks, 1, n), 1) \cup UNION {branch[j] : j \in 1 .. i - 1})
  /\ queue' = clear_applied(add_forked(add_aborted(queue, pending), Holds(blocks, n + 1)),
                            Holds(branch, 1))
  /\ blocks' = SubSeq(blocks, 1, n) \o branch
  /\ pending' = {} /\ phase' = "idle"
  /\ forks' = forks + 1
  /\ UNCHANGED <<block_mode, todo, incoming, limit, expired, submits, owed, accepted, wanted, dropped>>

\* The switch fails after good blocks of the new branch: "pop all blocks from
\* the bad fork, discarding their transactions", and the old branch is
\* accepted again.
FailSwitch(n, good) ==
  /\ forks < MaxForks /\ n < Len(blocks) /\ MayReceive
  /\ Valid(good, Holds(SubSeq(blocks, 1, n), 1))
  /\ LET q == clear_applied(add_forked(add_aborted(queue, pending), Holds(blocks, n + 1)), good)
     IN /\ dropped' = dropped \cup good
        /\ queue' = clear_applied(q, Holds(blocks, n + 1))
  /\ pending' = {} /\ phase' = "idle"
  /\ forks' = forks + 1
  /\ UNCHANGED <<block_mode, todo, incoming, limit, blocks, expired, submits, owed, accepted, wanted>>

\* Time passes between two blocks.
Expire(t) ==
  /\ phase = "idle" /\ t \notin expired
  /\ expired' = expired \cup {t}
  /\ UNCHANGED <<nodeVars, ghosts>>
-----------------------------------------------------------------------------
FlowInit ==
  /\ phase = "idle" /\ block_mode = "speculating" /\ pending = {}
  /\ queue = <<>> /\ todo = {} /\ incoming = <<>> /\ limit = 0 /\ blocks = <<>>
  /\ expired = {}
  /\ submits = 0 /\ owed = [t \in Trxs |-> 0]
  /\ accepted = {} /\ wanted = {} /\ dropped = {} /\ forks = 0

Branches == UNION {[1 .. n -> SUBSET Trxs] : n \in 1 .. MaxBlocks}

FlowNext ==
  \/ \E md \in {"producing", "speculating"} : StartBlock(md)
  \/ \E md \in {"producing", "speculating"}, gone \in SUBSET Trxs : StartExhausted(md, gone)
  \/ \E t \in Trxs, outcome \in {"applied", "fails", "does not fit", "throws"} :
       ProcessUnapplied(t, outcome)
  \/ UnappliedDone
  \/ Exhaust
  \/ IncomingDone
  \/ ProcessIncoming
  \/ \E t \in Trxs, persist \in BOOLEAN : Submit(t, persist)
  \/ ProduceBlock
  \/ AbortBlock
  \/ \E trxs \in SUBSET Trxs : ReceiveBlockOf(trxs)
  \/ \E n \in 0 .. MaxBlocks, branch \in Branches : SwitchForks(n, branch)
  \/ \E n \in 0 .. MaxBlocks, good \in SUBSET Trxs : FailSwitch(n, good)
  \/ \E t \in Trxs : Expire(t)

FlowSpec == FlowInit /\ [][FlowNext]_flow_vars
-----------------------------------------------------------------------------
FlowTypeOK ==
  /\ phase \in {"idle", "unapplied", "incoming", "ready"}
  /\ block_mode \in {"producing", "speculating"}
  /\ pending \subseteq Trxs /\ (pending # {} => Building)
  /\ queue \in UNION {[s -> Types] : s \in SUBSET Trxs}
  /\ todo \subseteq Queued
  /\ incoming \in Seq(Entry) /\ Len(incoming) <= MaxIncoming
  /\ blocks \in Seq(SUBSET Trxs) /\ Len(blocks) <= MaxBlocks

\* A node that can produce never loses a transaction it accepted: until the
\* transaction expires or fails, it is in a block, in the pending block or in
\* the unapplied queue, whatever blocks are aborted, produced or switched
\* (add_aborted, add_forked, clear_applied, process_unapplied_trxs).  The one
\* exception is a transaction of a fork that turned out bad.
NoneLost ==
  IsProducer => accepted \ (expired \cup dropped) \subseteq Included \cup pending \cup Queued

Count(q, t) == Cardinality({i \in 1 .. Len(q) : q[i].trx = t})
Waiting(t) == Count(incoming, t)

\* Every submission is answered once, or waits in the incoming queue: a
\* transaction that does not fit, a full queue, a block without room and an
\* aborted block neither forget the submitter nor answer twice
\* (process_incoming_transaction_async, incoming_transaction_queue).
AnsweredOnce == \A t \in Trxs : owed[t] = Waiting(t)

\* Both together: whatever becomes of the blocks, no accepted transaction and no
\* submitter is forgotten.
SubmissionsKept == NoneLost /\ AnsweredOnce
=============================================================================
