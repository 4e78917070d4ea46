----------------------------- MODULE Connection -----------------------------
(***************************************************************************)
(* One outgoing connection of the net plugin: its write queues, its        *)
(* socket, closing and reconnecting, and the connection monitor's timer.   *)
(*                                                                         *)
(* Handlers run one at a time on the connection's strand; what other       *)
(* threads and completed socket operations hand over is appended to it.    *)
(* An operation belongs to the socket it was started on: it is current     *)
(* while the connection still has that socket, and viable until the socket *)
(* is closed under it.                                                     *)
(***************************************************************************)
EXTENDS Naturals, Sequences, SequencesExt

CONSTANTS
  MaxQueue,      \* def_max_write_queue_size
  MaxImmediate,  \* def_max_consecutive_immediate_connection_close
  MaxBlocks,     \* bound on the blocks of a sync request
  MaxSends,      \* bound on messages and handshakes other threads send
  MaxReads,      \* bound on messages of the peer
  MaxErrors,     \* bound on network errors
  ResolveFails,  \* may the network errors be failures to resolve the host?
  Received,      \* the messages the peer sends
  MaxOverlaps    \* bound on reconnections that start before what went before has ended

\* The reasons of a go_away_message; "fatal_other" stands for all after which
\* the connection is not tried again.
GoAways == {"wrong_version", "benign_other", "fatal_other"}

ConnectionAssumption ==
  /\ {MaxQueue, MaxImmediate, MaxBlocks, MaxSends, MaxReads, MaxErrors, MaxOverlaps} \subseteq Nat
  /\ ResolveFails \in BOOLEAN
  /\ Received \subseteq {"handshake", "wrong_chain", "sync_request", "sync_cancel", "bad"} \cup GoAways

VARIABLES
  strand,       \* the handlers posted and not run
  ops,          \* the operations under way
  socket_open, connecting,
  no_retry,     \* "no_reason" or one of GoAways
  queue,        \* queued_buffer: the write, sync and out queues and _write_queue_size
  handshakes,   \* sent_handshake_count
  told,         \* the head in last_handshake_sent, 0: none
  requested,    \* blocks of peer_requested to be sent
  fetching,     \* calls on the main thread's queue that fetch a block to send
  immediate,    \* consecutive_immediate_connection_close, up to MaxImmediate + 1
  last_close,   \* "never", "recent" (within connector_period) or "old"
  monitor,      \* the monitor's timer and the handlers it called
  listed,       \* is the connection in connections?
  first,        \* the first message the socket took in this session
  head, sends, reads, errors,
  overlaps      \* history: reconnections that started before what went before had ended

conn == <<socket_open, connecting, no_retry, immediate, last_close, told, handshakes>>
bounds == <<head, sends, reads, errors, overlaps>>
vars == <<strand, ops, socket_open, connecting, no_retry, queue, handshakes, told, requested,
          fetching, immediate, last_close, monitor, listed, first, head, sends, reads, errors, overlaps>>

None == [kind |-> "none", generation |-> 0]
Message(kind) == [kind |-> kind, generation |-> 0]
Handshake(n) == [kind |-> "handshake", generation |-> n]

Bytes(m) == IF m.kind = "block" THEN 2 ELSE 1
Size(ms) == FoldLeft(LAMBDA n, m : n + Bytes(m), 0, ms)

\* Handlers on the strand.
Close(reconnect) == [task |-> "close", reconnect |-> reconnect]
Write(ms) == [task |-> "write", buffers |-> ms]
Send(m) == [task |-> "send", message |-> m]
SendHandshake == [task |-> "send_handshake"]
Resolve == [task |-> "resolve"]
Done(op, ok) == [task |-> "done", op |-> op, ok |-> ok]

\* Operations.
Op(type, ms) == [type |-> type, buffers |-> ms, current |-> TRUE, viable |-> TRUE]

Task(t) == strand # <<>> /\ Head(strand).task = t
Posts(tasks) == strand' = Tail(strand) \o tasks
Completed(type) == Task("done") /\ Head(strand).op.type = type
Current == Head(strand).op.current

-----------------------------------------------------------------------------
(* queued_buffer *)

EmptyQueue == [write |-> <<>>, sync |-> <<>>, out |-> <<>>, size |-> 0]

clear_write_queue(q) == [q EXCEPT !.write = <<>>, !.sync = <<>>, !.size = 0]
clear_out_queue(q) == [q EXCEPT !.out = <<>>]

ready_to_send_Always(q) == q.sync # <<>> \/ q.write # <<>>
ready_to_send(q) == (q.sync # <<>> \/ q.write # <<>>) /\ q.out = <<>>

add_write_queue(q, m) ==
  IF m.kind = "block"
  THEN [q EXCEPT !.sync = Append(@, m), !.size = @ + Bytes(m)]
  ELSE [q EXCEPT !.write = Append(@, m), !.size = @ + Bytes(m)]

fill_out_buffer(q) ==
  IF q.sync # <<>>
  THEN [q EXCEPT !.out = @ \o q.sync, !.sync = <<>>, !.size = @ - Size(q.sync)]
  ELSE [q EXCEPT !.out = @ \o q.write, !.write = <<>>, !.size = @ - Size(q.write)]

\* The queue after do_queue_write and the handler it posts.
do_queue_write(q) ==
  IF ready_to_send(q)
  THEN [queue |-> fill_out_buffer(q),
        posts |-> <<Write(IF q.sync # <<>> THEN q.sync ELSE q.write)>>]
  ELSE [queue |-> q, posts |-> <<>>]

Added(q) == IF q.size > 2 * MaxQueue THEN [queue |-> q, posts |-> <<Close(TRUE)>>] ELSE do_queue_write(q)
queue_write(q, m) == Added(add_write_queue(q, m))

-----------------------------------------------------------------------------
(* The monitor's timer *)

\* A new wait aborts the one under way.
start_conn_timer(mon) ==
  [mon EXCEPT !.checks = @ + 1, !.timer = TRUE, !.aborted = IF mon.timer THEN @ + 1 ELSE @]

\* What was started before has ended.
Settled == strand = <<>> /\ fetching = 0 /\ \A i \in DOMAIN ops : ops[i].viable /\ ops[i].type # "resolve"

\* The timer ends.
Expire ==
  /\ monitor.timer
  /\ monitor' = [monitor EXCEPT !.timer = FALSE, !.fired = @ + 1]
  /\ UNCHANGED <<strand, ops, queue, requested, fetching, listed, first, conn, bounds>>

\* A connection that was sent away for good is not tried again.
MayRetry == no_retry \in {"no_reason", "wrong_version", "benign_other"}

\* Too many sessions ended at once: resolve_and_connect backs off.
Waits == (immediate > MaxImmediate \/ no_retry = "benign_other") /\ last_close \in {"never", "recent"}

\* The handler of a wait that ended: connection_monitor with resolve_and_connect.
\* Nothing in it waits for what was posted or started before the close.
connection_monitor ==
  /\ monitor.fired > 0
  /\ monitor' = [monitor EXCEPT !.fired = @ - 1, !.checks = @ - 1,
                                !.passes = IF monitor.checks = 1 THEN @ + 1 ELSE @]
  /\ IF ~listed \/ socket_open \/ connecting THEN UNCHANGED <<strand, listed, overlaps>>
     ELSE IF ~MayRetry THEN listed' = FALSE /\ UNCHANGED <<strand, overlaps>>
     ELSE IF Waits THEN UNCHANGED <<strand, listed, overlaps>>
     ELSE /\ Settled \/ overlaps < MaxOverlaps
          /\ strand' = Append(strand, Resolve)
          /\ overlaps' = IF Settled THEN overlaps ELSE overlaps + 1
          /\ UNCHANGED listed
  /\ UNCHANGED <<ops, queue, requested, fetching, first, conn, head, sends, reads, errors>>

\* The end of a pass that reschedules.
Reschedule ==
  /\ monitor.passes > 0
  /\ monitor' = start_conn_timer([monitor EXCEPT !.passes = @ - 1])
  /\ UNCHANGED <<strand, ops, queue, requested, fetching, listed, first, conn, bounds>>

\* The handler of an aborted wait.
AbortedWait ==
  /\ monitor.aborted > 0
  /\ LET m == [monitor EXCEPT !.aborted = @ - 1, !.checks = @ - 1]
     IN monitor' = IF m.checks = 0 THEN start_conn_timer(m) ELSE m
  /\ UNCHANGED <<strand, ops, queue, requested, fetching, listed, first, conn, bounds>>

PeriodPasses ==
  /\ last_close = "recent" /\ last_close' = "old"
  /\ UNCHANGED <<strand, ops, queue, requested, fetching, monitor, listed, first,
                 socket_open, connecting, no_retry, immediate, told, handshakes, bounds>>

-----------------------------------------------------------------------------
(* Handlers on the strand *)

Capped(n) == IF n > MaxImmediate THEN n ELSE n + 1

Aborted(op) == IF op.type = "resolve" THEN op ELSE [op EXCEPT !.viable = FALSE]
Stale(op) == IF op.type = "resolve" THEN op ELSE [op EXCEPT !.viable = FALSE, !.current = FALSE]
StaleTask(t) == IF t.task = "done" THEN [t EXCEPT !.op = Stale(@)] ELSE t
Each(F(_), seq) == [i \in DOMAIN seq |-> F(seq[i])]

\* The socket is connected.
Up ==
  /\ \A i \in DOMAIN ops : ~(ops[i].type = "connect" /\ ops[i].current)
  /\ LET ends == {i \in DOMAIN strand : /\ strand[i].task = "done"
                                        /\ strand[i].op.type = "connect" /\ strand[i].op.current}
     IN /\ \A i \in ends : strand[i].ok
        /\ socket_open \/ ends # {}

_close ==
  /\ Task("close")
  /\ strand' = Each(StaleTask, Tail(strand))
  /\ ops' = Each(Stale, ops)
  /\ socket_open' = FALSE /\ connecting' = FALSE
  /\ queue' = clear_write_queue(queue)
  /\ immediate' = Capped(immediate)
  /\ last_close' = "recent"
  /\ told' = 0 /\ handshakes' = 0
  /\ requested' = 0 /\ first' = None
  /\ monitor' = IF Head(strand).reconnect THEN start_conn_timer(monitor) ELSE monitor
  /\ UNCHANGED <<no_retry, fetching, listed, bounds>>

async_write ==
  /\ Task("write")
  /\ ops' = Append(ops, [Op("write", Head(strand).buffers) EXCEPT !.viable = Up])
  /\ Posts(<<>>)
  /\ UNCHANGED <<queue, requested, fetching, monitor, listed, first, conn, bounds>>

async_resolve ==
  /\ Task("resolve")
  /\ ops' = Append(ops, Op("resolve", <<>>))
  /\ Posts(<<>>)
  /\ UNCHANGED <<queue, requested, fetching, monitor, listed, first, conn, bounds>>

\* async_connect closes the socket it is given before it tries an endpoint.
connect ==
  /\ Completed("resolve") /\ Head(strand).ok
  /\ IF MayRetry
     THEN /\ connecting' = TRUE
          /\ queue' = clear_out_queue(queue)
          /\ ops' = Append(Each(Aborted, ops), Op("connect", <<>>))
     ELSE UNCHANGED <<connecting, queue, ops>>
  /\ Posts(<<>>)
  /\ UNCHANGED <<requested, fetching, monitor, listed, first, bounds,
                 socket_open, no_retry, immediate, last_close, told, handshakes>>

resolve_failed ==
  /\ Completed("resolve") /\ ~Head(strand).ok
  /\ connecting' = FALSE
  /\ immediate' = Capped(immediate)
  /\ Posts(<<>>)
  /\ UNCHANGED <<ops, queue, requested, fetching, monitor, listed, first, bounds,
                 socket_open, no_retry, last_close, told, handshakes>>

\* start_read_message after a handler that leaves the queue q and the posts.
start_read_message(q, posts) ==
  IF q.size > MaxQueue THEN Posts(Append(posts, Close(FALSE))) /\ UNCHANGED ops
  ELSE Posts(posts) /\ ops' = Append(ops, [Op("read", <<>>) EXCEPT !.viable = Up])

start_session ==
  /\ Completed("connect") /\ Head(strand).ok /\ Current
  /\ socket_open' = TRUE
  /\ IF queue.size > MaxQueue THEN Posts(<<Close(FALSE), SendHandshake>>) /\ UNCHANGED ops
     ELSE Posts(<<SendHandshake>>) /\ ops' = Append(ops, Op("read", <<>>))
  /\ UNCHANGED <<queue, requested, fetching, monitor, listed, first, bounds,
                 connecting, no_retry, immediate, last_close, told, handshakes>>

connection_failed ==
  /\ Completed("connect") /\ ~(Head(strand).ok /\ Current)
  /\ Posts(<<Close(FALSE)>>)
  /\ UNCHANGED <<ops, queue, requested, fetching, monitor, listed, first, conn, bounds>>

\* enqueue_sync_block: the next block the peer asked for is fetched.
enqueue_sync_block(n) ==
  /\ requested' = IF n > 0 THEN n - 1 ELSE n
  /\ fetching' = IF n > 0 THEN fetching + 1 ELSE fetching

\* The callback of async_write.  The out queue is cleared before the callbacks
\* of its messages are called, so none is.
written ==
  /\ Completed("write")
  /\ IF socket_open /\ Current /\ Head(strand).ok
     THEN LET w == do_queue_write(clear_out_queue(queue)) IN
            /\ queue' = w.queue
            /\ Posts(w.posts)
            /\ enqueue_sync_block(requested)
     ELSE /\ queue' = clear_out_queue(queue)
          /\ Posts(<<Close(TRUE)>>)
          /\ UNCHANGED <<requested, fetching>>
  /\ UNCHANGED <<ops, monitor, listed, first, conn, bounds>>

\* The callback of async_read, with the message it has read.
Reads(kind) ==
  /\ Completed("read") /\ Head(strand).ok /\ Current /\ socket_open
  /\ Head(strand).op.buffers = <<Message(kind)>>
  /\ immediate' = 0
  /\ UNCHANGED <<monitor, listed, first, bounds, socket_open, last_close, told, handshakes>>

handle_handshake ==
  /\ Reads("handshake")
  /\ connecting' = FALSE
  /\ start_read_message(queue, IF handshakes = 0 THEN <<SendHandshake>> ELSE <<>>)
  /\ UNCHANGED <<queue, requested, fetching, no_retry>>

handle_wrong_chain ==
  /\ Reads("wrong_chain")
  /\ connecting' = FALSE
  /\ LET w == queue_write(queue, Message("go_away")) IN
       queue' = w.queue /\ start_read_message(w.queue, w.posts)
  /\ UNCHANGED <<requested, fetching, no_retry>>

handle_sync_request ==
  /\ Reads("sync_request")
  /\ enqueue_sync_block(MaxBlocks)
  /\ start_read_message(queue, <<>>)
  /\ UNCHANGED <<queue, connecting, no_retry>>

\* A sync request with end_block 0.
handle_sync_cancel ==
  /\ Reads("sync_cancel")
  /\ requested' = 0
  /\ queue' = clear_write_queue(queue)
  /\ start_read_message(clear_write_queue(queue), <<>>)
  /\ UNCHANGED <<fetching, connecting, no_retry>>

\* Only the first wrong_version is followed by another try.
handle_go_away ==
  \E reason \in GoAways :
    LET retry == no_retry = "no_reason" /\ reason = "wrong_version" IN
      /\ Reads(reason)
      /\ no_retry' = IF reason = "wrong_version" /\ ~retry THEN "fatal_other" ELSE reason
      /\ queue' = clear_write_queue(queue)
      /\ start_read_message(clear_write_queue(queue), <<Close(retry)>>)
      /\ UNCHANGED <<requested, fetching, connecting>>

handle_bad ==
  /\ Reads("bad")
  /\ Posts(<<Close(TRUE)>>)
  /\ UNCHANGED <<ops, queue, requested, fetching, connecting, no_retry>>

read_failed ==
  /\ Completed("read")
  /\ ~(Head(strand).ok /\ Current /\ socket_open)
  /\ Posts(IF Current /\ socket_open THEN <<Close(TRUE)>> ELSE <<>>)
  /\ UNCHANGED <<ops, queue, requested, fetching, monitor, listed, first, conn, bounds>>

\* enqueue and enqueue_block
enqueue ==
  /\ Task("send")
  /\ LET w == queue_write(queue, Head(strand).message) IN
       queue' = w.queue /\ Posts(w.posts)
  /\ UNCHANGED <<ops, requested, fetching, monitor, listed, first, conn, bounds>>

\* send_handshake with populate_handshake: nothing is sent unless the head differs.
send_handshake ==
  /\ Task("send_handshake")
  /\ IF told = head
     THEN Posts(<<>>) /\ UNCHANGED <<queue, told, handshakes>>
     ELSE /\ told' = head /\ handshakes' = handshakes + 1
          /\ LET w == queue_write(queue, Handshake(handshakes + 1)) IN
               queue' = w.queue /\ Posts(w.posts)
  /\ UNCHANGED <<ops, requested, fetching, monitor, listed, first, bounds,
                 socket_open, connecting, no_retry, immediate, last_close>>

-----------------------------------------------------------------------------
(* The network and the other threads *)

Without(i) == ops' = RemoveAt(ops, i)

Succeeds(i) ==
  /\ ops[i].viable /\ ops[i].type # "read"
  /\ Without(i)
  /\ strand' = Append(strand, Done(ops[i], TRUE))
  /\ first' = IF ops[i].type = "write" /\ first = None THEN Head(ops[i].buffers) ELSE first
  /\ UNCHANGED <<queue, requested, fetching, monitor, listed, conn, bounds>>

PeerSends(i) ==
  /\ ops[i].viable /\ ops[i].type = "read" /\ reads < MaxReads
  /\ Without(i)
  /\ \E r \in Received : strand' = Append(strand, Done([ops[i] EXCEPT !.buffers = <<Message(r)>>], TRUE))
  /\ reads' = reads + 1
  /\ UNCHANGED <<queue, requested, fetching, monitor, listed, first, conn, head, sends, errors, overlaps>>

\* An operation whose socket was closed ends with an error.
EndsAborted(i) ==
  /\ ~ops[i].viable
  /\ Without(i)
  /\ strand' = Append(strand, Done(ops[i], FALSE))
  /\ UNCHANGED <<queue, requested, fetching, monitor, listed, first, conn, bounds>>

Fails(i) ==
  /\ ops[i].viable /\ errors < MaxErrors
  /\ ops[i].type = "resolve" => ResolveFails
  /\ Without(i)
  /\ strand' = Append(strand, Done(ops[i], FALSE))
  /\ errors' = errors + 1
  /\ UNCHANGED <<queue, requested, fetching, monitor, listed, first, conn, head, sends, reads, overlaps>>

\* The main thread has fetched a block to send.
Fetched ==
  /\ fetching > 0
  /\ fetching' = fetching - 1
  /\ strand' = Append(strand, Send(Message("block")))
  /\ UNCHANGED <<ops, queue, requested, monitor, listed, first, conn, bounds>>

\* Other threads send to a connection they find current.
Broadcast ==
  /\ socket_open /\ ~connecting /\ sends < MaxSends
  /\ sends' = sends + 1
  /\ strand' = Append(strand, Send(Message("message")))
  /\ UNCHANGED <<ops, queue, requested, fetching, monitor, listed, first, conn, head, reads, errors, overlaps>>

send_handshakes ==
  /\ socket_open /\ ~connecting /\ sends < MaxSends
  /\ sends' = sends + 1 /\ head' \in {head, head + 1}
  /\ strand' = Append(strand, SendHandshake)
  /\ UNCHANGED <<ops, queue, requested, fetching, monitor, listed, first, conn, reads, errors, overlaps>>

-----------------------------------------------------------------------------
Init ==
  /\ strand = <<Resolve>> /\ ops = <<>>
  /\ socket_open = FALSE /\ connecting = TRUE /\ no_retry = "no_reason"
  /\ queue = EmptyQueue /\ handshakes = 0 /\ told = 0
  /\ requested = 0 /\ fetching = 0
  /\ immediate = 0 /\ last_close = "never"
  /\ monitor = [timer |-> TRUE, checks |-> 1, fired |-> 0, aborted |-> 0, passes |-> 0]
  /\ listed = TRUE /\ first = None
  /\ head = 1 /\ sends = 0 /\ reads = 0 /\ errors = 0 /\ overlaps = 0

Strand ==
  \/ _close \/ async_write \/ async_resolve \/ connect \/ resolve_failed
  \/ start_session \/ connection_failed \/ written \/ read_failed
  \/ handle_handshake \/ handle_wrong_chain \/ handle_sync_request \/ handle_sync_cancel
  \/ handle_go_away \/ handle_bad
  \/ enqueue \/ send_handshake

Network == \E i \in DOMAIN ops : Succeeds(i) \/ EndsAborted(i)

Monitor == Expire \/ connection_monitor \/ Reschedule \/ AbortedWait

Next ==
  \/ Strand \/ Network \/ Monitor \/ PeriodPasses \/ Fetched
  \/ \E i \in DOMAIN ops : PeerSends(i) \/ Fails(i)
  \/ Broadcast \/ send_handshakes

Spec == Init /\ [][Next]_vars

FairSpec ==
  /\ Spec
  /\ WF_vars(Strand) /\ WF_vars(Network) /\ WF_vars(Fetched) /\ WF_vars(PeriodPasses)
  /\ WF_vars(Expire) /\ WF_vars(connection_monitor) /\ WF_vars(Reschedule) /\ WF_vars(AbortedWait)

-----------------------------------------------------------------------------
(* Properties *)

Messages == {"handshake", "message", "block", "go_away"}

\* The queues hold messages, what is on the strand is a handler of the
\* connection, and the counters keep their ranges.
TypeOK ==
  /\ \A i \in DOMAIN strand :
       strand[i].task \in {"close", "write", "send", "send_handshake", "resolve", "done"}
  /\ \A i \in DOMAIN ops : ops[i].type \in {"resolve", "connect", "write", "read"}
  /\ {socket_open, connecting, listed} \subseteq BOOLEAN
  /\ \A q \in {queue.write, queue.sync, queue.out} : \A i \in DOMAIN q : q[i].kind \in Messages
  /\ queue.size \in Nat /\ immediate \in 0..MaxImmediate + 1
  /\ last_close \in {"never", "recent", "old"}

\* "write queue size expected to be zero" (the assertion of fill_out_buffer,
\* which takes all of a queue): _write_queue_size is what both queues hold.
SizeIsQueued == queue.size = Size(queue.write) + Size(queue.sync)

\* "if out_queue is not empty then async_write is in progress" and the other
\* way round: a message is handed to the socket while no other write is under
\* way, so that messages do not get mixed.  Not so once a reconnection has
\* started before the callback of a write on the old socket ran: the callback
\* clears the out queue of the new session.
OneWriteInFlight ==
  LET writes == {i \in DOMAIN ops : ops[i].type = "write" /\ ops[i].current}
      posted == {i \in DOMAIN strand : strand[i].task = "write"}
  IN overlaps = 0 =>
       /\ \A i, j \in writes : i = j
       /\ \A i, j \in posted : i = j
       /\ writes # {} => queue.out # <<>> /\ posted = {}

\* At most one read is under way on the connection's socket, as long as no
\* reconnection has started before the one before it had ended.
OneReader ==
  LET reading == {i \in DOMAIN ops : ops[i].type = "read" /\ ops[i].current}
      read == {i \in DOMAIN strand : strand[i].task = "done" /\ strand[i].op.type = "read" /\ strand[i].op.current}
  IN overlaps = 0 => (\A i, j \in reading : i = j) /\ (reading # {} => read = {})

\* A session starts with the first handshake: generation 1 is what the peer
\* checks the chain and the protocol version on, and answers.  Under the same
\* condition: what was queued for the old session goes into the new one
\* otherwise.
FirstIsHandshake == overlaps = 0 => first \in {None, Handshake(1)}

\* connector_checks_in_flight counts the waits whose handlers have not run,
\* and there is always one, or a pass that starts another one: the monitor
\* never stops.
MonitorAlive ==
  /\ monitor.checks = (IF monitor.timer THEN 1 ELSE 0) + monitor.fired + monitor.aborted
  /\ monitor.checks + monitor.passes > 0

=============================================================================
