------------------------------ MODULE NetSync ------------------------------
(***************************************************************************)
(* The sync manager of the net plugin: a node that is behind fetches the   *)
(* irreversible blocks of its peers in chunks, from one peer at a time,    *)
(* and then the rest of their branch.                                      *)
(*                                                                         *)
(* The node has one connection to each peer.  The handlers of a connection *)
(* run one at a time on its strand, in any order with those of the other   *)
(* connections and with the main thread, which applies blocks.  strand[c]  *)
(* holds what was posted to the strand; a posted continuation stands for   *)
(* the rest of a handler that let go of sync_mtx.  There is one chain, so  *)
(* a block is its number and a block id too; the peers hold a prefix of it *)
(* that does not change while the node catches up.                         *)
(***************************************************************************)
EXTENDS Integers, Sequences, FiniteSets, SequencesExt

CONSTANTS
  Ring,         \* the connections, in the order of the set of connections
  PeerLib,      \* the last irreversible block of each peer
  PeerHead,     \* the head of each peer
  Span,         \* sync-fetch-span
  Lag,          \* how far the node's last irreversible block is behind its head
  MaxRejected,  \* def_max_consecutive_rejected_blocks
  MaxLate,      \* bound on the timers that expire although an answer is on its way
  MaxDrops,     \* bound on the connections that break
  MaxFailures,  \* bound on the blocks the controller fails to accept
  MaxIgnored,   \* bound on the blocks dropped because the node is producing
  NoPeer        \* no connection

Peers == Range(Ring)

NetSyncAssumption ==
  /\ {Span, Lag, MaxRejected, MaxLate, MaxDrops, MaxFailures, MaxIgnored} \subseteq Nat
  /\ Span > 0
  /\ \A c \in Peers : PeerLib[c] \in 1 .. PeerHead[c]
  /\ NoPeer \notin Peers

VARIABLES
  head,      \* number of the head block, and of the head of the fork database
  sm,        \* the sync manager: known, last, next, source, state
  con,       \* a connection: socket, connecting, syncing, recv_lib, sent, fork_head, rejected, timer
  strand,    \* what is posted to the strand of a connection
  app,       \* blocks posted to the main thread
  pool,      \* add_peer_block calls posted to the thread pool
  seen,      \* blocks of blk_state
  to_peer,   \* messages on their way to a peer
  to_me,     \* messages of a peer on their way
  peer,      \* a peer's end: up, greeted, lib (as the node told it), peer_requested
  late, drops, failures, ignored  \* faults so far

faults == <<late, drops, failures, ignored>>
links == <<to_peer, to_me, peer>>
vars == <<head, sm, con, strand, app, pool, seen, links, faults>>
-----------------------------------------------------------------------------
Larger(a, b) == IF a > b THEN a ELSE b
Smaller(a, b) == IF a < b THEN a ELSE b

NoHandshake == [lib |-> 0, head |-> 0]
NothingAsked == [last |-> 0, end |-> 0]

\* A connection as _close leaves it, or before its first connect; fork_head
\* is not part of what is reset.
Closed(fork_head) ==
  [open |-> FALSE, connecting |-> FALSE, syncing |-> FALSE, recv_lib |-> 0,
   sent |-> NoHandshake, fork_head |-> fork_head, rejected |-> 0, timer |-> FALSE]

NewPeer == [up |-> FALSE, greeted |-> FALSE, lib |-> 0, requested |-> NothingAsked]

LibOf(h) == Larger(1, h - Lag)
lib == LibOf(head)

Init ==
  /\ head = 1
  /\ sm = [known |-> 0, last |-> 0, next |-> 1, source |-> NoPeer, state |-> "in_sync"]
  /\ con = [c \in Peers |-> Closed(0)]
  /\ strand = [c \in Peers |-> <<>>]
  /\ app = <<>> /\ pool = {} /\ seen = {}
  /\ to_peer = [c \in Peers |-> <<>>]
  /\ to_me = [c \in Peers |-> <<>>]
  /\ peer = [c \in Peers |-> NewPeer]
  /\ late = 0 /\ drops = 0 /\ failures = 0 /\ ignored = 0

Current(c) == c.open /\ ~c.connecting /\ ~c.syncing
-----------------------------------------------------------------------------
(***************************************************************************)
(* Tasks and messages.  w is the part of the state a handler works on: the *)
(* sync manager, the connections, their strands and the messages sent.     *)
(***************************************************************************)
w0 == [sm |-> sm, con |-> con, strand |-> strand, out |-> to_peer]

Task(kind, a, b) == [kind |-> kind, a |-> a, b |-> b]

Post(w, c, task) == [w EXCEPT !.strand[c] = Append(@, task)]

\* connection::close posts _close.
close(w, c) == Post(w, c, Task("close", 0, 0))

\* enqueue: what is written to a socket that was closed comes back as an
\* error, and the connection is closed again.
enqueue(w, c, message) ==
  IF w.con[c].open THEN [w EXCEPT !.out[c] = Append(@, message)] ELSE close(w, c)

send_handshake(w, c, force) == Post(w, c, Task("handshake", IF force THEN 1 ELSE 0, 0))

\* send_handshakes, to every connection that is current.
send_handshakes(w) ==
  [w EXCEPT !.strand = [c \in Peers |-> IF Current(w.con[c])
                                       THEN Append(@[c], Task("handshake", 0, 0)) ELSE @[c]]]

Timer(w, c, on) == [w EXCEPT !.con[c].timer = on]
sync_wait(w, c) == Timer(w, c, TRUE)
cancel_wait(w, c) == Timer(w, c, FALSE)
-----------------------------------------------------------------------------
(***************************************************************************)
(* request_next_chunk                                                      *)
(***************************************************************************)
\* The connections in the order they are tried: from the one after the
\* source, round robin.
FromNext(source) ==
  LET i == IF source = NoPeer THEN 0 ELSE CHOOSE j \in 1 .. Len(Ring) : Ring[j] = source
      n == Len(Ring)
  IN [k \in 1 .. n |-> Ring[((i + k - 1) % n) + 1]]

\* The first of them that is current; the source is kept when there is none.
\* With one connection the source is only set when there was none.
FirstCurrent(w, source) ==
  LET tried == SelectSeq(FromNext(source), LAMBDA c : Current(w.con[c]))
  IN IF Len(Ring) = 1 THEN Ring[1]
     ELSE IF tried = <<>> THEN source ELSE Head(tried)

Source(w, c) ==
  IF c # NoPeer /\ Current(w.con[c]) THEN c ELSE FirstCurrent(w, w.sm.source)

AwaitsChunk(m, cons) == head < m.last /\ m.source # NoPeer /\ Current(cons[m.source])

GiveUp(w, source) ==
  [w EXCEPT !.sm = [@ EXCEPT !.source = source, !.known = lib, !.last = 0, !.state = "in_sync"]]

\* The next chunk of at most Span blocks; a handshake when there is nothing
\* to ask for.
AskSource(w, source) ==
  LET m == [w.sm EXCEPT !.source = source]
      start == m.next
      end == Smaller(start + Span - 1, m.known)
  IN IF m.last # m.known /\ end > 0 /\ end >= start
     THEN Post([w EXCEPT !.sm = [m EXCEPT !.last = end]], source, Task("request", start, end))
     ELSE send_handshake([w EXCEPT !.sm = m], source, FALSE)

request_next_chunk(w, c) ==
  LET source == Source(w, c)
  IN IF AwaitsChunk(w.sm, w.con) THEN w
     ELSE IF source = NoPeer \/ ~Current(w.con[source]) THEN GiveUp(w, source)
     ELSE AskSource(w, source)
-----------------------------------------------------------------------------
(***************************************************************************)
(* The other operations of the sync manager                                *)
(***************************************************************************)
\* The source was lost: what it was asked for is asked of another one.
LoseSource(w) == request_next_chunk([w EXCEPT !.sm.last = 0], NoPeer)

sync_reset_lib_num(w, c) ==
  LET v == IF w.sm.state = "in_sync" THEN [w EXCEPT !.sm.source = NoPeer] ELSE w
  IN IF Current(v.con[c]) THEN [v EXCEPT !.sm.known = Larger(@, v.con[c].recv_lib)]
     ELSE IF c = v.sm.source THEN LoseSource(v) ELSE v

is_sync_required(m) == m.last < m.known \/ head < m.last

start_sync(w, c, target) ==
  LET v == [w EXCEPT !.sm.known = Larger(@, target)]
      m == [v.sm EXCEPT !.state = IF @ = "in_sync" THEN "lib_catchup" ELSE @,
                        !.next = Larger(lib + 1, @)]
  IN IF ~is_sync_required(v.sm) \/ target <= lib THEN v
     ELSE request_next_chunk([v EXCEPT !.sm = m], c)

sync_reassign_fetch(w, c) ==
  IF c = w.sm.source
  THEN LoseSource(enqueue(cancel_wait(w, c), c, Task("sync_request", 0, 0)))
  ELSE w

\* verify_catchup: nothing is asked of a peer when another connection leads
\* to the same block or further.  The state is read here and set by the
\* continuation, without sync_mtx.
verify_catchup(w, c, num) ==
  IF \E d \in Peers : w.con[d].fork_head > num \/ w.con[d].fork_head = num
  THEN enqueue([w EXCEPT !.con[c].fork_head = 0], c, Task("stop_send", 0, 0))
  ELSE IF w.sm.state = "lib_catchup" \/ num < lib THEN w
  ELSE [w EXCEPT !.strand[c] = <<Task("head_catchup", num, head)>> \o @]

HeadCatchup(w, c, num, from) ==
  enqueue([w EXCEPT !.sm.state = "head_catchup", !.con[c].fork_head = num],
          c, Task("catch_up", from, 0))

recv_handshake(w, c, msg) ==
  LET v == sync_reset_lib_num(w, c)
      syncing(b) == [v EXCEPT !.con[c].syncing = b]
  IN IF head = msg.b THEN syncing(FALSE)
     ELSE IF head < msg.a THEN syncing(FALSE)
     ELSE IF lib > msg.b THEN syncing(TRUE)
     ELSE IF head < msg.b THEN verify_catchup(syncing(FALSE), c, msg.b)
     ELSE syncing(FALSE)

sync_recv_notice(w, c, msg) ==
  IF msg.kind = "last_irr_catch_up"
  THEN start_sync(sync_reset_lib_num([w EXCEPT !.con[c].recv_lib = msg.a], c), c, msg.a)
  ELSE IF msg.b \in seen THEN send_handshake(w, c, FALSE) ELSE verify_catchup(w, c, msg.b)

rejected_block(w, c) ==
  LET v == [w EXCEPT !.con[c].rejected = @ + 1]
  IN IF v.con[c].rejected > MaxRejected
     THEN close([v EXCEPT !.sm.last = 0, !.sm.source = NoPeer], c)
     ELSE send_handshake(v, c, TRUE)

sync_update_expected(m, num, applied) ==
  IF num <= m.last /\ (num = m.next \/ applied) THEN [m EXCEPT !.next = num + 1] ELSE m

\* In head_catchup the decision is taken by the continuation, without
\* sync_mtx.
sync_recv_block(w, c, num, applied) ==
  LET m == sync_update_expected(w.sm, num, applied)
      v == [w EXCEPT !.con[c].rejected = 0, !.sm = m]
  IN CASE m.state = "head_catchup" ->
            [v EXCEPT !.sm.source = NoPeer,
                      !.strand[c] = <<Task("fork_heads", num, 0)>> \o @]
       [] m.state = "lib_catchup" /\ num = m.known ->
            send_handshakes([v EXCEPT !.sm.state = "in_sync"])
       [] m.state = "lib_catchup" /\ num # m.known /\ num = m.last ->
            request_next_chunk(v, NoPeer)
       [] m.state = "lib_catchup" /\ num # m.known /\ num # m.last -> sync_wait(v, c)
       [] m.state = "in_sync" -> v

\* The loop over the connections: a fork head that is reached clears the
\* fork head of the connection the block came from.
ForkHeads(w, c, num) ==
  LET visit(acc, d) ==
        LET f == acc.con[d].fork_head
        IN CASE f = 0 -> acc
             [] f > num -> [acc EXCEPT !.more = TRUE]
             [] f \in 1 .. num -> [acc EXCEPT !.con[c].fork_head = 0]
      end == FoldLeft(visit, [con |-> w.con, more |-> FALSE], Ring)
      v == [w EXCEPT !.con = end.con]
  IN IF end.more THEN [v EXCEPT !.sm.state = "head_catchup"]
     ELSE send_handshakes([v EXCEPT !.sm.state = "in_sync"])
-----------------------------------------------------------------------------
(***************************************************************************)
(* The strand of a connection                                              *)
(***************************************************************************)
Continuations == {"head_catchup", "fork_heads"}

Continues(c) == strand[c] # <<>> /\ Head(strand[c]).kind \in Continuations

Becomes(w) == sm' = w.sm /\ con' = w.con /\ strand' = w.strand /\ to_peer' = w.out

\* populate_handshake: nothing is sent when nothing changed since the last
\* handshake, unless it is forced.
SendHandshake(w, c, force) ==
  LET hello == [lib |-> lib, head |-> head]
  IN IF force \/ hello # w.con[c].sent
     THEN enqueue([w EXCEPT !.con[c].sent = hello], c, Task("handshake", lib, head))
     ELSE w

Run(w, c, t) ==
  CASE t.kind = "handshake" -> SendHandshake(w, c, t.a = 1)
    [] t.kind = "request" -> sync_wait(enqueue(w, c, Task("sync_request", t.a, t.b)), c)
    [] t.kind = "applied" -> sync_recv_block(cancel_wait(w, c), c, t.a, TRUE)
    [] t.kind = "known" -> sync_recv_block(w, c, t.a, FALSE)
    [] t.kind = "rejected" -> rejected_block(w, c)
    [] t.kind = "head_catchup" -> HeadCatchup(w, c, t.a, t.b)
    [] t.kind = "fork_heads" -> ForkHeads(w, c, t.a)

\* A posted handler runs.
RunTask(c) ==
  /\ strand[c] # <<>> /\ Head(strand[c]).kind # "close"
  /\ LET t == Head(strand[c])
     IN /\ Becomes(Run([w0 EXCEPT !.strand[c] = Tail(@)], c, t))
        /\ seen' = IF t.kind = "known" THEN seen \cup {t.a} ELSE seen
  /\ UNCHANGED <<head, app, pool, to_me, peer, faults>>

_close_KeepsSource(w, c) == [w EXCEPT !.con[c] = Closed(@.fork_head)]

_close(w, c) == cancel_wait(sync_reset_lib_num([w EXCEPT !.con[c] = Closed(@.fork_head)], c), c)

\* _close runs: both ends forget what was on its way.
Close(c) ==
  /\ strand[c] # <<>> /\ Head(strand[c]).kind = "close"
  /\ Becomes(_close([w0 EXCEPT !.strand[c] = Tail(@), !.out[c] = <<>>], c))
  /\ to_me' = [to_me EXCEPT ![c] = <<>>]
  /\ peer' = [peer EXCEPT ![c] = NewPeer]
  /\ UNCHANGED <<head, app, pool, seen, faults>>

\* connection_monitor, connect and start_session.  A closed connection is
\* opened again 100 ms later at the earliest, when what was posted to its
\* strand has run.
Connect(c) ==
  /\ ~con[c].open /\ strand[c] = <<>>
  /\ Becomes(send_handshake([w0 EXCEPT !.con[c].open = TRUE, !.con[c].connecting = TRUE], c, FALSE))
  /\ peer' = [peer EXCEPT ![c].up = TRUE]
  /\ UNCHANGED <<head, app, pool, seen, to_me, faults>>

Answered(w, c) == [w EXCEPT !.con[c].connecting = FALSE]

\* A block that is known is not passed on.  One below the last irreversible
\* block is refused unless the node is catching up: the peer does not know
\* what the node has.
ReceiveBlock(w, c, num) ==
  IF num \in seen THEN cancel_wait(sync_recv_block(w, c, num, FALSE), c)
  ELSE IF num < w.con[c].sent.lib THEN close(w, c)
  ELSE cancel_wait(send_handshake(enqueue(w, c, Task("sync_request", 0, 0)), c, FALSE), c)

PassedOn(num) == num \notin seen /\ (sm.state = "lib_catchup" \/ num >= lib)

ReceiveMessage(w, c, msg) ==
  CASE msg.kind = "handshake" ->
         LET v == Answered(w, c)
             greeted == IF v.con[c].sent = NoHandshake THEN send_handshake(v, c, FALSE) ELSE v
         IN recv_handshake([greeted EXCEPT !.con[c].recv_lib = msg.a], c, msg)
    [] msg.kind \in {"last_irr_catch_up", "catch_up"} -> sync_recv_notice(Answered(w, c), c, msg)
    [] msg.kind = "block" /\ PassedOn(msg.a) -> w
    [] msg.kind = "block" /\ ~PassedOn(msg.a) -> ReceiveBlock(w, c, msg.a)

\* process_next_message
Receive(c) ==
  /\ to_me[c] # <<>> /\ con[c].open /\ ~Continues(c)
  /\ LET msg == Head(to_me[c])
     IN /\ Becomes(ReceiveMessage(w0, c, msg))
        /\ app' = IF msg.kind = "block" /\ PassedOn(msg.a) THEN Append(app, [c |-> c, num |-> msg.a])
                  ELSE app
  /\ to_me' = [to_me EXCEPT ![c] = Tail(@)]
  /\ UNCHANGED <<head, pool, seen, peer, faults>>
-----------------------------------------------------------------------------
(***************************************************************************)
(* The main thread and the thread pool                                     *)
(***************************************************************************)
\* process_signed_block.  A block that the producer plugin drops while it
\* produces one is not heard of again.
ProcessSignedBlock ==
  /\ app # <<>>
  /\ app' = Tail(app)
  /\ LET c == Head(app).c
         num == Head(app).num
         then(kind) == strand' = [strand EXCEPT ![c] = Append(@, Task(kind, num, 0))]
         rejected == then("rejected") /\ UNCHANGED <<head, pool>>
     IN \/ /\ ~con[c].open
           /\ UNCHANGED <<head, pool, strand, failures, ignored>>
        \/ /\ con[c].open /\ num <= head
           /\ then("known")
           /\ UNCHANGED <<head, pool, failures, ignored>>
        \/ /\ con[c].open /\ num = head + 1
           /\ head' = num
           /\ pool' = pool \cup {num}
           /\ then("applied")
           /\ UNCHANGED <<failures, ignored>>
        \/ /\ con[c].open /\ num > head + 1
           /\ rejected
           /\ UNCHANGED <<failures, ignored>>
        \/ /\ con[c].open /\ num = head + 1 /\ failures < MaxFailures
           /\ rejected
           /\ failures' = failures + 1
           /\ UNCHANGED ignored
        \/ /\ con[c].open /\ num > head /\ ignored < MaxIgnored
           /\ ignored' = ignored + 1
           /\ UNCHANGED <<head, pool, strand, failures>>
  /\ UNCHANGED <<sm, con, seen, links, late, drops>>

\* add_peer_block runs on the thread pool.
AddPeerBlock ==
  \E num \in pool :
    /\ pool' = pool \ {num}
    /\ seen' = seen \cup {num}
    /\ UNCHANGED <<head, sm, con, strand, app, links, faults>>

\* expire_blocks
ExpireBlocks ==
  /\ \E num \in seen : num <= lib
  /\ seen' = {num \in seen : num > lib}
  /\ UNCHANGED <<head, sm, con, strand, app, pool, links, faults>>
-----------------------------------------------------------------------------
(***************************************************************************)
(* The peers.  A peer runs the same code; what it does with a handshake of *)
(* a node that is behind it is recv_handshake with the roles exchanged.    *)
(* That a peer which is behind fetches blocks of the node is left out.     *)
(***************************************************************************)
Notice(c, msg) ==
  IF PeerLib[c] > msg.b THEN <<Task("last_irr_catch_up", PeerLib[c], PeerHead[c])>>
  ELSE IF PeerHead[c] > msg.b THEN <<Task("catch_up", 0, PeerHead[c])>>
  ELSE <<>>

Hello(c) == IF peer[c].greeted THEN <<>> ELSE <<Task("handshake", PeerLib[c], PeerHead[c])>>

\* blk_send_branch: from the head the node named, or from the irreversible
\* block of its last handshake when the peer does not have that head.
Branch(c, from) ==
  LET r == peer[c].requested
      last == IF from <= PeerHead[c] THEN from
              ELSE IF r = NothingAsked THEN peer[c].lib ELSE Smaller(r.last, peer[c].lib)
      end == Larger(r.end, PeerHead[c])
  IN IF last + 1 <= end THEN [last |-> last, end |-> end] ELSE NothingAsked

PeerReceive(c) ==
  /\ peer[c].up /\ to_peer[c] # <<>>
  /\ to_peer' = [to_peer EXCEPT ![c] = Tail(@)]
  /\ LET msg == Head(to_peer[c])
     IN \/ /\ msg.kind = "handshake"
           /\ peer' = [peer EXCEPT ![c].greeted = TRUE, ![c].lib = msg.a]
           /\ to_me' = [to_me EXCEPT ![c] = @ \o Notice(c, msg) \o Hello(c)]
        \/ /\ msg.kind = "sync_request"
           /\ peer' = [peer EXCEPT ![c].requested =
                         IF msg.b = 0 THEN NothingAsked ELSE [last |-> msg.a - 1, end |-> msg.b]]
           /\ UNCHANGED to_me
        \/ /\ msg.kind = "catch_up"
           /\ peer' = [peer EXCEPT ![c].requested = Branch(c, msg.a)]
           /\ UNCHANGED to_me
        \/ /\ msg.kind = "stop_send"
           /\ UNCHANGED <<peer, to_me>>
  /\ UNCHANGED <<head, sm, con, strand, app, pool, seen, faults>>

\* enqueue_sync_block: the next block of the request.  One the peer does not
\* have ends the sending: the handshake it sends instead says nothing new
\* and is not sent.
PeerSend(c) ==
  /\ peer[c].up /\ peer[c].requested # NothingAsked
  /\ LET r == peer[c].requested
         num == r.last + 1
         has == num <= PeerHead[c]
     IN /\ peer' = [peer EXCEPT ![c].requested =
                      IF num = r.end \/ ~has THEN NothingAsked ELSE [r EXCEPT !.last = num]]
        /\ to_me' = IF has THEN [to_me EXCEPT ![c] = Append(@, Task("block", num, 0))] ELSE to_me
  /\ UNCHANGED <<head, sm, con, strand, app, pool, seen, to_peer, faults>>

\* The connection breaks; the node learns of it from its read.
Drop(c) ==
  /\ con[c].open /\ peer[c].up /\ drops < MaxDrops
  /\ drops' = drops + 1
  /\ peer' = [peer EXCEPT ![c] = NewPeer]
  /\ to_me' = [to_me EXCEPT ![c] = <<>>]
  /\ Becomes(close(w0, c))
  /\ UNCHANGED <<head, app, pool, seen, late, failures, ignored>>
-----------------------------------------------------------------------------
Quiet ==
  /\ app = <<>> /\ pool = {}
  /\ \A c \in Peers :
       /\ strand[c] = <<>> /\ to_me[c] = <<>>
       /\ peer[c].up => to_peer[c] = <<>> /\ peer[c].requested = NothingAsked

\* sync_timeout: the time to answer is over.  It is long enough for what is
\* on its way, but for MaxLate times.
SyncTimeout(c) ==
  /\ con[c].timer /\ ~Continues(c)
  /\ Quiet \/ late < MaxLate
  /\ late' = IF Quiet THEN late ELSE late + 1
  /\ Becomes(sync_reassign_fetch(cancel_wait(w0, c), c))
  /\ UNCHANGED <<head, app, pool, seen, to_me, peer, drops, failures, ignored>>

Strand(c) == RunTask(c) \/ Close(c) \/ Receive(c)
Network(c) == PeerReceive(c) \/ PeerSend(c)

Next ==
  \/ \E c \in Peers : Strand(c) \/ Network(c) \/ Connect(c) \/ Drop(c) \/ SyncTimeout(c)
  \/ ProcessSignedBlock \/ AddPeerBlock \/ ExpireBlocks

\* What was posted is run, a connection delivers, a closed connection is
\* opened again and a timer goes off.
Fairness ==
  /\ WF_vars(ProcessSignedBlock) /\ WF_vars(AddPeerBlock)
  /\ \A c \in Peers : WF_vars(Strand(c)) /\ WF_vars(Network(c)) /\ WF_vars(Connect(c))
  /\ \A c \in Peers : WF_vars(SyncTimeout(c) /\ Quiet)

Spec == Init /\ [][Next]_vars /\ Fairness
-----------------------------------------------------------------------------
MaxOf(f) == CHOOSE n \in Range(f) : \A k \in Range(f) : n >= k
BestHead == MaxOf(PeerHead)
BestLib == MaxOf(PeerLib)

\* Every variable has its type; the node never asks for, or believes in, more
\* than its peers have.
TypeOK ==
  /\ head \in 1 .. BestHead
  /\ sm.known \in 0 .. BestHead /\ sm.last \in 0 .. sm.known
  /\ sm.next \in 1 .. BestHead + 1
  /\ sm.source \in Peers \cup {NoPeer}
  /\ sm.state \in {"in_sync", "lib_catchup", "head_catchup"}
  /\ \A c \in Peers : con[c].fork_head \in 0 .. BestHead /\ con[c].rejected \in Nat

\* sync_update_expected and request_next_chunk: blocks of several peers may
\* arrive in any order, yet the next chunk never starts behind a block the
\* node does not have, so no answer is unlinkable.
NoGap ==
  /\ sm.next <= head + 1
  /\ \A c \in Peers : \A i \in DOMAIN to_peer[c] :
       to_peer[c][i].kind = "sync_request" => to_peer[c][i].a <= head + 1

\* The sync manager as a whole: through broken connections, peers that are
\* themselves behind, late answers and blocks that come twice, the node ends
\* up with the irreversible blocks of every peer.
CatchesUp == <>[](head >= BestLib)

=============================================================================
