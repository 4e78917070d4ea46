--------------------------- MODULE DuplicatePeers ---------------------------
(***************************************************************************)
(* Two nodes that each connect to the other, and the choice between the    *)
(* two connections when the first handshakes arrive                        *)
(* (connection::handle_message(handshake_message) of the net plugin).      *)
(*                                                                         *)
(* Each end of a connection has its strand; the strands of a node's two    *)
(* connections run in parallel.  A node is known by the address in its     *)
(* handshakes, so a connection is found to lead to the same peer once      *)
(* last_handshake_recv is set.                                             *)
(***************************************************************************)
EXTENDS Naturals, Sequences

CONSTANTS
  A, B,       \* the nodes
  MaxClock    \* bound on handshakes sent; each has its own time

DuplicateAssumption == A # B /\ MaxClock \in Nat

Both == {A, B}
Conns == {1, 2}
Initiator(c) == IF c = 1 THEN A ELSE B
Other(n) == IF n = A THEN B ELSE A
Twin(c) == 3 - c
Ends == Both \X Conns

VARIABLES
  session,     \* end -> "none", "open" or "closed"
  connecting,  \* end -> connection::connecting
  sent, recv,  \* end -> the times of last_handshake_sent and last_handshake_recv, 0: none
  count,       \* end -> sent_handshake_count
  posted,      \* end -> is send_handshake on the strand?
  checked,     \* end -> the first handshake between the duplicate check and the end of the handler
  no_retry,    \* end -> did a go_away with reason duplicate cross this end?
  channel,     \* end -> the messages on their way to it
  clock,
  crossed      \* history: was a first handshake checked while the node owed a reply on the other connection?

vars == <<session, connecting, sent, recv, count, posted, checked, no_retry, channel, clock, crossed>>

Handshake(generation, time) == [type |-> "handshake", generation |-> generation, time |-> time]
GoAway == [type |-> "go_away", generation |-> 0, time |-> 0]

To(e, m, ch) == [ch EXCEPT ![<<Other(e[1]), e[2]>>] = Append(@, m)]

-----------------------------------------------------------------------------
\* start_session at both ends; the one that connected posts its handshake.
Connect(c) ==
  /\ session[<<A, c>>] = "none" /\ session[<<B, c>>] = "none"
  /\ session' = [e \in Ends |-> IF e[2] = c THEN "open" ELSE session[e]]
  /\ posted' = [posted EXCEPT ![<<Initiator(c), c>>] = TRUE]
  /\ UNCHANGED <<connecting, sent, recv, count, checked, no_retry, channel, clock, crossed>>

send_handshake(e) ==
  /\ session[e] = "open" /\ posted[e] /\ clock < MaxClock
  /\ posted' = [posted EXCEPT ![e] = FALSE]
  /\ clock' = clock + 1
  /\ sent' = [sent EXCEPT ![e] = clock + 1]
  /\ count' = [count EXCEPT ![e] = @ + 1]
  /\ channel' = To(e, Handshake(count[e] + 1, clock + 1), channel)
  /\ UNCHANGED <<session, connecting, recv, checked, no_retry, crossed>>

\* send_handshakes, once the head has changed: another handshake to a connected peer.
NewHead(e) ==
  /\ session[e] = "open" /\ ~connecting[e] /\ count[e] > 0 /\ ~posted[e]
  /\ clock < MaxClock
  /\ posted' = [posted EXCEPT ![e] = TRUE]
  /\ UNCHANGED <<session, connecting, sent, recv, count, checked, no_retry, channel, clock, crossed>>

Receives(e, type) == session[e] = "open" /\ channel[e] # <<>> /\ Head(channel[e]).type = type

\* The other connection leads to the same peer.
Duplicate(e) ==
  LET d == <<e[1], Twin(e[2])>>
  IN session[d] = "open" /\ ~connecting[d] /\ recv[d] # 0

\* The other connection's handshakes are older than this one's.
Newer(e, m) ==
  LET d == <<e[1], Twin(e[2])>> IN m.time + sent[e] > sent[d] + recv[d]

\* The node has the peer's first handshake on this connection and has not
\* replied to it, so that the other connection's sum of times lacks its own.
Owes(d) == checked[d] # 0 \/ (recv[d] # 0 /\ count[d] = 0)

\* The first handshake of the peer, up to the duplicate check.  The check is
\* made unless this end connected and has a handshake of the peer already.
check_duplicate(e) ==
  /\ Receives(e, "handshake") /\ checked[e] = 0
  /\ LET m == Head(channel[e]) IN
       /\ m.generation = 1
       /\ crossed' = (crossed \/ Owes(<<e[1], Twin(e[2])>>))
       /\ connecting' = [connecting EXCEPT ![e] = FALSE]
       /\ IF (Initiator(e[2]) # e[1] \/ recv[e] = 0) /\ Duplicate(e) /\ Newer(e, m)
          THEN /\ no_retry' = [no_retry EXCEPT ![e] = TRUE]
               /\ channel' = To(e, GoAway, [channel EXCEPT ![e] = Tail(@)])
               /\ UNCHANGED checked
          ELSE /\ checked' = [checked EXCEPT ![e] = m.time]
               /\ channel' = [channel EXCEPT ![e] = Tail(@)]
               /\ UNCHANGED no_retry
  /\ UNCHANGED <<session, sent, recv, count, posted, clock>>

\* The rest of the handler.
accept_handshake(e) ==
  /\ session[e] = "open" /\ checked[e] # 0
  /\ checked' = [checked EXCEPT ![e] = 0]
  /\ posted' = [posted EXCEPT ![e] = @ \/ count[e] = 0]
  /\ recv' = [recv EXCEPT ![e] = checked[e]]
  /\ UNCHANGED <<session, connecting, sent, count, no_retry, channel, clock, crossed>>

\* A later handshake is only noted.
note_handshake(e) ==
  /\ Receives(e, "handshake") /\ checked[e] = 0
  /\ Head(channel[e]).generation > 1
  /\ connecting' = [connecting EXCEPT ![e] = FALSE]
  /\ recv' = [recv EXCEPT ![e] = Head(channel[e]).time]
  /\ channel' = [channel EXCEPT ![e] = Tail(@)]
  /\ UNCHANGED <<session, sent, count, posted, checked, no_retry, clock, crossed>>

Closed(e) ==
  /\ session' = [session EXCEPT ![e] = "closed"]
  /\ connecting' = [connecting EXCEPT ![e] = FALSE]
  /\ sent' = [sent EXCEPT ![e] = 0]
  /\ recv' = [recv EXCEPT ![e] = 0]
  /\ count' = [count EXCEPT ![e] = 0]
  /\ posted' = [posted EXCEPT ![e] = FALSE]
  /\ channel' = [channel EXCEPT ![e] = <<>>]
  /\ UNCHANGED <<checked, clock, crossed>>

handle_go_away(e) ==
  /\ Receives(e, "go_away") /\ checked[e] = 0
  /\ no_retry' = [no_retry EXCEPT ![e] = TRUE]
  /\ Closed(e)

\* The peer has closed: reading fails.
PeerClosed(e) ==
  /\ session[e] = "open" /\ checked[e] = 0 /\ channel[e] = <<>>
  /\ session[<<Other(e[1]), e[2]>>] = "closed"
  /\ Closed(e)
  /\ UNCHANGED no_retry

Init ==
  /\ session = [e \in Ends |-> "none"]
  /\ connecting = [e \in Ends |-> TRUE]
  /\ sent = [e \in Ends |-> 0] /\ recv = [e \in Ends |-> 0] /\ count = [e \in Ends |-> 0]
  /\ posted = [e \in Ends |-> FALSE] /\ checked = [e \in Ends |-> 0]
  /\ no_retry = [e \in Ends |-> FALSE]
  /\ channel = [e \in Ends |-> <<>>]
  /\ clock = 0 /\ crossed = FALSE

Strand(e) ==
  \/ send_handshake(e) \/ check_duplicate(e) \/ accept_handshake(e)
  \/ note_handshake(e) \/ handle_go_away(e) \/ PeerClosed(e)

Next == (\E c \in Conns : Connect(c)) \/ (\E e \in Ends : Strand(e) \/ NewHead(e))

Spec == Init /\ [][Next]_vars

-----------------------------------------------------------------------------
(* Properties *)

\* The times are those of handshakes sent, the flags are flags.
TypeOK ==
  /\ session \in [Ends -> {"none", "open", "closed"}]
  /\ connecting \in [Ends -> BOOLEAN] /\ posted \in [Ends -> BOOLEAN] /\ no_retry \in [Ends -> BOOLEAN]
  /\ \A f \in {sent, recv, checked, count} : f \in [Ends -> 0..MaxClock]
  /\ clock \in 0..MaxClock

\* "we need to avoid the case where they would both tell a different
\* connection to go away" (net_plugin.cpp:2554-2557): of the two connections
\* at least one is kept, as long as no first handshake is checked while the
\* node owes a reply on the other connection.  The sums of times then lack a
\* handshake, and the nodes may choose differently.
OneIsKept == crossed \/ \E c \in Conns : \A n \in Both : ~no_retry[<<n, c>>]
=============================================================================
