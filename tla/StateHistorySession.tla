------------------------ MODULE StateHistorySession ------------------------
(***************************************************************************)
(* A session of the state history plugin: the node streams the blocks of   *)
(* its chain to a client that grants it messages.  The node's side is      *)
(* struct session and on_accepted_block; the client is external: it reads  *)
(* every message in order, keeps the chain it was told of, acknowledges    *)
(* each result, and after a disconnection asks for what it misses, with    *)
(* the positions it has.                                                   *)
(*                                                                         *)
(* A block is a number, its id; chain is the node's chain by block number. *)
(* A fork switch is one handler of the node's main thread: while todo is   *)
(* not empty no session callback runs.  The controller emits               *)
(* accepted_block for a block it was sent before it makes the block its    *)
(* head, and for a block it produced after that.                           *)
(***************************************************************************)
EXTENDS Integers, Sequences, FiniteSets

CONSTANTS
  MaxBlockNum,     \* bound on the length of the chain
  MaxBlocks,       \* bound on the number of blocks ever accepted
  MaxMessages,     \* max_messages_in_flight of the client's request
  Modes,           \* what a client may ask for: irreversible_only and end_block_num
  MaxConnections,  \* bound on the number of connections
  MaxStatus,       \* bound on the status requests of the client
  NoRequest        \* current_request is not set

SessionAssumption ==
  /\ {MaxBlockNum, MaxBlocks, MaxMessages, MaxConnections, MaxStatus} \subseteq Nat
  /\ Modes \subseteq [irreversible_only : BOOLEAN, end : Nat]
  /\ MaxMessages > 0

VARIABLES
  chain,       \* ids of the blocks the node's log records, by block number
  head,        \* head_block_num
  lib,         \* last_irreversible_block_num
  todo,        \* blocks the running fork switch still has to apply
  base, old,   \* the fork point of that switch and the branch it left
  made,        \* number of ids used
  ses,         \* the session: sending, send_queue, current_request, need_to_send_update
  connections, \* connections made so far
  connected,   \* is the session's socket open?
  wire,        \* messages written to the socket and not read
  asked,       \* the client's request waits to be handled
  mode,        \* what the client asks for: irreversible_only and end_block_num
  mine,        \* the client's chain
  acks,        \* acknowledgements on their way
  statuses     \* status requests made

nodeVars == <<chain, head, lib, todo, base, old, made>>
clientVars == <<mode, mine, statuses>>
vars == <<nodeVars, ses, connections, connected, wire, asked, clientVars, acks>>
-----------------------------------------------------------------------------
Smaller(a, b) == IF a < b THEN a ELSE b

Message(type, num, id, prev) == [type |-> type, num |-> num, id |-> id, prev |-> prev]

NewSession == [sending |-> FALSE, queue |-> <<>>, request |-> NoRequest, need |-> FALSE]

\* get_blocks_result_v0 for block num: this_block and prev_block come from
\* the log the accepted block was just written to.
ResultFor(num, log) ==
  Message("result", num, log[num], IF num = 1 THEN 0 ELSE log[num - 1])

EmptyResult == Message("result", 0, 0, 0)

\* session::send: the message joins the queue, and the front of the queue is
\* written unless a message is being written.
send(s, message) == [s EXCEPT !.queue = Append(@, message), !.sending = TRUE]

\* The condition send_update returns on.
Blocked(s) ==
  \/ s.queue # <<>>
  \/ ~s.need
  \/ s.request = NoRequest
  \/ s.request.credits = 0

Spent(credits) == credits - 1

Wanted(request, current) == request.start <= current /\ request.start < request.end

\* session::send_update, for a node whose log is log and whose head (or last
\* irreversible block) is current.
send_update(s, changed, log, current) ==
  LET t == [s EXCEPT !.need = changed \/ @]
      wanted == Wanted(t.request, current)
      request == [t.request EXCEPT !.start = IF wanted THEN @ + 1 ELSE @,
                                   !.credits = Spent(@)]
      result == IF wanted THEN ResultFor(t.request.start, log) ELSE EmptyResult
  IN IF Blocked(t) THEN t
     ELSE [send(t, result) EXCEPT !.request = request, !.need = Wanted(request, current)]

\* How far the client is to be told: to the last irreversible block or to the
\* head.
Current(request, h, l) ==
  IF request # NoRequest /\ request.irreversible_only THEN l ELSE h
-----------------------------------------------------------------------------
\* The front of the queue is on the wire from the moment it is the front: a
\* message that finds the queue empty is written at once.
Written(s) == IF ses.queue = <<>> /\ s.queue # <<>> THEN Append(wire, Head(s.queue)) ELSE wire

Rewind_Forgotten(s, num) == s

\* on_accepted_block for the session: a block below start_block_num moves it
\* back.
Rewind(s, num) ==
  IF s.request # NoRequest /\ num < s.request.start
  THEN [s EXCEPT !.request.start = num] ELSE s

\* A block is accepted: commit_block emits accepted_block while head_block_num
\* is still h.
Accept(log, h) ==
  LET s == Rewind(ses, Len(log))
      t == IF connected THEN send_update(s, TRUE, log, Current(s.request, h, lib)) ELSE ses
  IN /\ chain' = log
     /\ head' = Len(log)
     /\ ses' = t
     /\ wire' = Written(t)

NewLib(h) == \E l \in lib .. h : lib' = l

\* The node produces a block: head is set before accepted_block is emitted.
ProduceBlock ==
  /\ todo = <<>> /\ head < MaxBlockNum /\ made < MaxBlocks
  /\ made' = made + 1
  /\ Accept(Append(chain, made + 1), head + 1)
  /\ NewLib(head)
  /\ UNCHANGED <<todo, base, old, connections, connected, asked, clientVars, acks>>

\* A block that extends the head is pushed: head is set after apply_block.
PushBlock ==
  /\ todo = <<>> /\ head < MaxBlockNum /\ made < MaxBlocks
  /\ made' = made + 1
  /\ Accept(Append(chain, made + 1), head)
  /\ NewLib(head)
  /\ UNCHANGED <<todo, base, old, connections, connected, asked, clientVars, acks>>

\* maybe_switch_forks pops the blocks after num, down to a reversible one.
\* The log is cut when the first block of the new branch is accepted; no
\* session callback reads it before that.
SwitchForks(num, n) ==
  /\ todo = <<>> /\ num \in lib .. head - 1
  /\ num + n <= MaxBlockNum /\ made + n <= MaxBlocks
  /\ todo' = [i \in 1 .. n |-> made + i]
  /\ base' = num
  /\ old' = SubSeq(chain, num + 1, head)
  /\ made' = made + n
  /\ chain' = SubSeq(chain, 1, num)
  /\ head' = num
  /\ UNCHANGED <<lib, ses, connections, connected, wire, asked, clientVars, acks>>

\* The next block of the branch is applied; log_irreversible comes last, but
\* not after a switch that was reverted: the exception is thrown on.
ApplyNext ==
  /\ todo # <<>>
  /\ todo' = Tail(todo)
  /\ Accept(Append(chain, Head(todo)), head)
  /\ IF Len(todo) = 1 /\ old # <<>> THEN NewLib(head) ELSE UNCHANGED lib
  /\ UNCHANGED <<base, old, made, connections, connected, asked, clientVars, acks>>

\* A block of the new branch is bad: the blocks applied from that branch are
\* popped and the old branch is applied again.
RevertSwitch ==
  /\ todo # <<>> /\ old # <<>>
  /\ todo' = old
  /\ old' = <<>>
  /\ chain' = SubSeq(chain, 1, base)
  /\ head' = base
  /\ UNCHANGED <<lib, base, made, ses, connections, connected, wire, asked, clientVars, acks>>
-----------------------------------------------------------------------------
\* Session callbacks run between the handlers of the main thread.
NotSwitching == todo = <<>>

\* do_accept and session::start: the ABI is the first message.  The client
\* sends its request.
Connect ==
  /\ NotSwitching /\ ~connected /\ connections < MaxConnections
  /\ connected' = TRUE
  /\ connections' = connections + 1
  /\ asked' = TRUE
  /\ ses' = send(NewSession, Message("abi", 0, 0, 0))
  /\ wire' = <<Message("abi", 0, 0, 0)>>
  /\ acks' = 0
  /\ UNCHANGED <<nodeVars, mode, mine, statuses>>

\* A read or a write fails: on_fail closes and drops the session.
Disconnect ==
  /\ NotSwitching /\ connected /\ connections < MaxConnections
  /\ connected' = FALSE
  /\ ses' = NewSession
  /\ wire' = <<>> /\ asked' = FALSE /\ acks' = 0
  /\ UNCHANGED <<nodeVars, connections, mode, mine, statuses>>

\* Where a client that has these blocks has to start: at the first position
\* the node does not share.
StartFor(positions, start) ==
  LET differing == {n \in 1 .. Len(positions) :
                      n < start /\ (n > Len(chain) \/ chain[n] # positions[n])}
  IN IF differing = {} THEN start
     ELSE CHOOSE n \in differing : \A k \in differing : n <= k

\* operator()(get_blocks_request_v0&)
HandleRequest ==
  /\ NotSwitching /\ connected /\ asked
  /\ asked' = FALSE
  /\ LET request == [start |-> StartFor(mine, Len(mine) + 1), end |-> mode.end,
                     irreversible_only |-> mode.irreversible_only,
                     credits |-> MaxMessages]
         s == send_update([ses EXCEPT !.request = request], TRUE, chain,
                          Current(request, head, lib))
     IN ses' = s /\ wire' = Written(s)
  /\ UNCHANGED <<nodeVars, connections, connected, clientVars, acks>>

\* operator()(get_blocks_ack_request_v0&) for one message.
HandleAck ==
  /\ NotSwitching /\ connected /\ acks > 0
  /\ acks' = acks - 1
  /\ LET s == IF ses.request = NoRequest THEN ses
              ELSE send_update([ses EXCEPT !.request.credits = @ + 1], FALSE, chain,
                               Current(ses.request, head, lib))
     IN ses' = s /\ wire' = Written(s)
  /\ UNCHANGED <<nodeVars, connections, connected, asked, clientVars>>

\* operator()(get_status_request_v0&)
HandleStatus ==
  /\ NotSwitching /\ connected /\ statuses < MaxStatus
  /\ statuses' = statuses + 1
  /\ LET s == send(ses, Message("status", 0, 0, 0))
     IN ses' = s /\ wire' = Written(s)
  /\ UNCHANGED <<nodeVars, connections, connected, asked, mode, mine, acks>>

\* The callback of async_write: the message leaves the queue, then the next
\* one is written or an update is made.
AfterWrite(s) ==
  LET t == [s EXCEPT !.queue = Tail(@), !.sending = FALSE]
  IN IF t.queue = <<>>
     THEN send_update(t, FALSE, chain, Current(t.request, head, lib))
     ELSE [t EXCEPT !.sending = TRUE]

WriteDone ==
  /\ NotSwitching /\ connected /\ ses.sending
  /\ LET s == AfterWrite(ses)
     IN /\ ses' = s
        /\ wire' = IF s.queue = <<>> THEN wire ELSE Append(wire, Head(s.queue))
  /\ UNCHANGED <<nodeVars, connections, connected, asked, clientVars, acks>>
-----------------------------------------------------------------------------
\* The client reads a message, acknowledges a result, and replaces what it had
\* from the number of a block it is told of.
Read ==
  /\ connected /\ wire # <<>>
  /\ wire' = Tail(wire)
  /\ LET message == Head(wire)
     IN /\ acks' = IF message.type = "result" THEN acks + 1 ELSE acks
        /\ mine' = IF message.num = 0 THEN mine
                   ELSE Append(SubSeq(mine, 1, Smaller(message.num - 1, Len(mine))), message.id)
  /\ UNCHANGED <<nodeVars, ses, connections, connected, asked, mode, statuses>>

Init ==
  /\ chain = <<1>> /\ head = 1 /\ lib = 0 /\ todo = <<>> /\ base = 0 /\ old = <<>> /\ made = 1
  /\ ses = NewSession /\ connections = 0 /\ connected = FALSE
  /\ wire = <<>> /\ asked = FALSE
  /\ mode \in Modes
  /\ mine = <<>> /\ acks = 0 /\ statuses = 0

SessionStep == HandleRequest \/ HandleAck \/ WriteDone

Next ==
  \/ ProduceBlock
  \/ PushBlock
  \/ \E num \in 0 .. MaxBlockNum, n \in 1 .. MaxBlocks : SwitchForks(num, n)
  \/ ApplyNext
  \/ RevertSwitch
  \/ Connect
  \/ Disconnect
  \/ HandleStatus
  \/ SessionStep
  \/ Read

\* The main thread runs every handler it started and every callback that was
\* posted to it; the client reconnects, reads what arrives and acknowledges
\* it as it reads.  Nothing makes blocks, forks, status requests or failures happen.
Fairness ==
  /\ WF_vars(ApplyNext)
  /\ WF_vars(Connect)
  /\ WF_vars(HandleRequest) /\ WF_vars(HandleAck) /\ WF_vars(WriteDone)
  /\ WF_vars(Read)

Spec == Init /\ [][Next]_vars /\ Fairness
-----------------------------------------------------------------------------
Requests == [start : 1 .. MaxBlockNum + 1, end : {m.end : m \in Modes}, irreversible_only : BOOLEAN,
             credits : 0 .. MaxMessages]

TypeOK ==
  /\ head \in 0 .. MaxBlockNum /\ lib \in 0 .. head
  /\ ses.request \in Requests \cup {NoRequest}
  /\ ses.sending = (ses.queue # <<>>)
  /\ Len(ses.queue) <= MaxStatus + 2
  /\ acks \in 0 .. MaxMessages

\* Every block a client is told of continues the chain it has: either it is
\* the next one, or it replaces a block and follows the client's block before
\* it, whatever forks, write completions and acknowledgements came in between
\* (send_update's prev_block, on_accepted_block's rewind, have_positions).
Links ==
  \A n \in 1 .. Len(mine') :
    (n = Len(mine') /\ mine' # mine) =>
       /\ n <= Len(mine) + 1
       /\ n > 1 => mine'[n - 1] = mine[n - 1] /\ Head(wire).prev = mine[n - 1]
\* A client that asked for irreversible blocks only is never told to undo
\* one (send_update's irreversible_only).
KeepsIrreversible ==
  mode.irreversible_only => \A n \in 1 .. Len(mine) : n <= Len(mine') /\ mine'[n] = mine[n]
Outstanding ==
  LET results(q) == Cardinality({i \in 1 .. Len(q) : q[i].type = "result"})
  IN results(wire) + results(IF ses.queue = <<>> THEN <<>> ELSE Tail(ses.queue)) + acks

\* The messages the client granted are either still to be used or outstanding:
\* send_update and the acknowledgements neither lose nor invent one, so no more
\* than max_messages_in_flight results wait for an acknowledgement.
CreditsConserved ==
  ses.request # NoRequest => ses.request.credits + Outstanding = MaxMessages

\* When blocks stop coming, the client ends up with every block of the node's
\* chain that it asked for, but the last: accepted_block is emitted for a
\* block that was pushed before it is the head, so that block is sent with
\* the next one.
CaughtUp ==
  ~mode.irreversible_only =>
     \A n \in 1 .. head - 1 : n < mode.end => n <= Len(mine) /\ mine[n] = chain[n]
CatchesUp == <>[]CaughtUp
=============================================================================
