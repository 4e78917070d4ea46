----------------------------- MODULE MCNetwork -----------------------------
(***************************************************************************)
(* A node and its peers and clients, for TLC.  A behaviour is one of the   *)
(* parts of Parts, chosen at the start; the variables of the others stay   *)
(* as they are.  The relay of blocks and transactions and the HTTP plugin  *)
(* are the modules themselves, the other parts are instances:              *)
(*                                                                         *)
(*  "relay", "busy", "triangle": a transaction and blocks between two      *)
(*      nodes, one of which may refuse it; two transactions between them,  *)
(*      one at a time; and a transaction among three nodes                 *)
(*  "http": the requests of http_plugin                                    *)
(*  "connection", "broken", "hasty": one connection of net_plugin; one     *)
(*      with an error of the network; and one that is opened again before  *)
(*      what went before has ended                                         *)
(*  "twins": two nodes that connect to each other at the same time         *)
(***************************************************************************)
EXTENDS Relay, HttpRequests, TLC

CONSTANTS
  Parts,     \* the parts to explore
  node1, node2, peer1, peer2, trx1, trx2

VARIABLES
  part,
  tasks, ops, socket_open, connecting, no_retry, queue, handshakes, told, requested, fetching,
  immediate, last_close, monitor, listed, first, head, sends, reads, errors, overlaps,
  ends, joining, sent, received, count, posted, checked, gone, channel, clock, crossed

Pair == {<<node1, node2>>, <<node2, node1>>}
Three == {node1, peer1, peer2}
All == {l \in Three \X Three : l[1] # l[2]}
OneTrx == {trx1}
TwoTrxs == {trx1, trx2}
NoRefusal == {}
FromFirst == [t \in TwoTrxs |-> node1]
SecondRefuses == {<<node2, trx1>>}

InOrder == INSTANCE Relay WITH Trxs <- TwoTrxs, MaxBlock <- 0, MaxInProgress <- 0
Triangle == INSTANCE Relay WITH
  Nodes <- Three, Links <- All, Trxs <- OneTrx, Refuses <- NoRefusal, MaxBlock <- 0,
  Lag <- 1, MaxInProgress <- 1

\* Two nodes that only relay.
Alike == Permutations({peer1, peer2})

Messages == {"handshake", "wrong_chain", "sync_request", "sync_cancel", "bad", "wrong_version", "benign_other"}
Usual == {"handshake", "sync_request", "wrong_version"}
Refusals == {"wrong_chain", "bad", "wrong_version"}

One == INSTANCE Connection WITH
  MaxQueue <- 2, MaxImmediate <- 0, MaxBlocks <- 2, MaxSends <- 1, MaxReads <- 2, MaxErrors <- 0,
  ResolveFails <- TRUE, MaxOverlaps <- 0, strand <- tasks, Received <- Messages
Broken == INSTANCE Connection WITH
  MaxQueue <- 2, MaxImmediate <- 0, MaxBlocks <- 2, MaxSends <- 0, MaxReads <- 2, MaxErrors <- 1,
  ResolveFails <- TRUE, MaxOverlaps <- 0, strand <- tasks, Received <- Usual
Hasty == INSTANCE Connection WITH
  MaxQueue <- 2, MaxImmediate <- 0, MaxBlocks <- 1, MaxSends <- 0, MaxReads <- 1, MaxErrors <- 0,
  ResolveFails <- FALSE, MaxOverlaps <- 1, strand <- tasks, Received <- Refusals

Twins == INSTANCE DuplicatePeers WITH
  A <- node1, B <- node2, MaxClock <- 6,
  session <- ends, connecting <- joining, recv <- received, no_retry <- gone

ASSUME InOrder!RelayAssumption /\ Triangle!RelayAssumption /\ One!ConnectionAssumption /\ Twins!DuplicateAssumption

-----------------------------------------------------------------------------
conn_vars == <<tasks, ops, socket_open, connecting, no_retry, queue, handshakes, told,
               requested, fetching, immediate, last_close, monitor, listed, first, head, sends,
               reads, errors, overlaps>>
twin_vars == <<ends, joining, sent, received, count, posted, checked, gone, channel, clock, crossed>>

all_vars == <<part, vars, http_vars, conn_vars, twin_vars>>

\* The variables of a part that does not run.
Off == "off"
RelayOff == Init
HttpOff == HttpInit
ConnOff == /\ tasks = Off /\ ops = Off /\ socket_open = Off /\ connecting = Off /\ no_retry = Off
           /\ queue = Off /\ handshakes = Off /\ told = Off /\ requested = Off /\ fetching = Off
           /\ immediate = Off /\ last_close = Off /\ monitor = Off /\ listed = Off /\ first = Off
           /\ head = Off /\ sends = Off /\ reads = Off /\ errors = Off /\ overlaps = Off
TwinOff == /\ ends = Off /\ joining = Off /\ sent = Off /\ received = Off /\ count = Off
           /\ posted = Off /\ checked = Off /\ gone = Off /\ channel = Off /\ clock = Off
           /\ crossed = Off

NetworkInit ==
  /\ part \in Parts
  /\ \/ /\ part = "relay" /\ Init
        /\ HttpOff /\ ConnOff /\ TwinOff
     \/ /\ part = "busy" /\ InOrder!Init
        /\ HttpOff /\ ConnOff /\ TwinOff
     \/ /\ part = "triangle" /\ Triangle!Init
        /\ HttpOff /\ ConnOff /\ TwinOff
     \/ /\ part = "http" /\ HttpInit
        /\ RelayOff /\ ConnOff /\ TwinOff
     \/ /\ part = "connection" /\ One!Init
        /\ RelayOff /\ HttpOff /\ TwinOff
     \/ /\ part = "broken" /\ Broken!Init
        /\ RelayOff /\ HttpOff /\ TwinOff
     \/ /\ part = "hasty" /\ Hasty!Init
        /\ RelayOff /\ HttpOff /\ TwinOff
     \/ /\ part = "twins" /\ Twins!Init
        /\ RelayOff /\ HttpOff /\ ConnOff

NetworkNext ==
  \/ /\ part = "relay" /\ Next
     /\ UNCHANGED <<part, http_vars, conn_vars, twin_vars>>
  \/ /\ part = "busy" /\ InOrder!Next
     /\ UNCHANGED <<part, http_vars, conn_vars, twin_vars>>
  \/ /\ part = "triangle" /\ Triangle!Next
     /\ UNCHANGED <<part, http_vars, conn_vars, twin_vars>>
  \/ /\ part = "http" /\ HttpNext
     /\ UNCHANGED <<part, vars, conn_vars, twin_vars>>
  \/ /\ part = "connection" /\ One!Next
     /\ UNCHANGED <<part, vars, http_vars, twin_vars>>
  \/ /\ part = "broken" /\ Broken!Next
     /\ UNCHANGED <<part, vars, http_vars, twin_vars>>
  \/ /\ part = "hasty" /\ Hasty!Next
     /\ UNCHANGED <<part, vars, http_vars, twin_vars>>
  \/ /\ part = "twins" /\ Twins!Next
     /\ UNCHANGED <<part, vars, http_vars, conn_vars>>

NetworkSpec == NetworkInit /\ [][NetworkNext]_all_vars

-----------------------------------------------------------------------------
\* However sends, socket errors, closes and the monitor's timers interleave:
\* the size of the write queue is what it holds and the monitor never stops.
\* Up to the first reconnection that starts before what was posted or started
\* for the session before it has ended, one write and one read are under way
\* on a socket and a session starts with the first handshake (connection,
\* queued_buffer, connection_monitor).  Two nodes that connect to each other
\* keep at least one of the connections, unless one of them checks a first
\* handshake while it owes the reply to another (handle_message).
ConnectionsSound ==
  /\ part \in {"connection", "broken", "hasty"} =>
       /\ One!SizeIsQueued /\ One!OneWriteInFlight /\ One!OneReader
       /\ One!FirstIsHandshake /\ One!MonitorAlive
  /\ part = "twins" => Twins!OneIsKept
=============================================================================
