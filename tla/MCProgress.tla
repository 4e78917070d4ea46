---------------------------- MODULE MCProgress ----------------------------
(***************************************************************************)
(* What must happen one day, for TLC.  A behaviour is one of the parts of  *)
(* Parts, chosen at the start; the parts share the variables whose names   *)
(* their modules share, and leave the others as they are.                  *)
(*                                                                         *)
(*  "sync", "faults", "refused", "heads": a node that catches up with two  *)
(*      peers, one of them behind the other; with a connection that breaks *)
(*      and a block that is refused; with one that is refused and one that *)
(*      is ignored; and with the peers' heads                              *)
(*  "session", "status": a client of the state history plugin, one that    *)
(*      connects again, and one that asks for the status in between        *)
(*  "line", "triangle": a transaction and a block relayed by three nodes   *)
(*  "connection": a connection that fails and is opened again              *)
(*  "cache": contract code on its way to the optimized compiler            *)
(*  "http": two clients of the HTTP plugin at its limit                    *)
(***************************************************************************)
EXTENDS Integers, Sequences, TLC

CONSTANTS
  Parts,     \* the parts to explore
  p1, p2, node1, node2, node3, trx1, client1, client2, a1, c1, c2, s1, s2, s3,
  MaxLate,   \* timers of part "sync" that expire although an answer is on its way
  NoPeer, NoRequest, NoCode, Free, IndexData, Idle

VARIABLES
  part, head, sm, con, strand, app, pool, seen, to_peer, to_me, peer, late, drops, failures,
  ignored, chain, lib, todo, base, old, made, ses, connections, connected, wire, asked, mode,
  mine, acks, statuses, contents, expired, local_txns, blk_state, recv, progress, disp, got,
  ops, socket_open, connecting, no_retry, queue, handshakes, told, requested, fetching,
  immediate, last_close, monitor, listed, first, sends, reads, errors, overlaps, code_hash, modules, cc,
  results, toMonitor, toNode, session, mem, header, node, stops, lost, bytes_in_flight, request,
  callback, size, answer, main

Each(m, n) == [c \in {p1, p2} |-> IF c = p1 THEN m ELSE n]

Peers == <<p1, p2>>
Libs32 == Each(3, 2)
Heads42 == Each(4, 2)
Both2 == Each(2, 2)
Both1 == Each(1, 1)
Each21 == Each(2, 1)

Sync == INSTANCE NetSync WITH
  Ring <- Peers, PeerLib <- Libs32, PeerHead <- Heads42, Span <- 2, Lag <- 1,
  MaxRejected <- 1, MaxDrops <- 0, MaxFailures <- 0, MaxIgnored <- 0
Faults == INSTANCE NetSync WITH
  Ring <- Peers, PeerLib <- Each21, PeerHead <- Each21, Span <- 2, Lag <- 1,
  MaxRejected <- 0, MaxLate <- 0, MaxDrops <- 1, MaxFailures <- 1, MaxIgnored <- 0
Refused == INSTANCE NetSync WITH
  Ring <- Peers, PeerLib <- Each21, PeerHead <- Each21, Span <- 2, Lag <- 1,
  MaxRejected <- 0, MaxLate <- 0, MaxDrops <- 0, MaxFailures <- 1, MaxIgnored <- 1
Heads == INSTANCE NetSync WITH
  Ring <- Peers, PeerLib <- Both1, PeerHead <- Both2, Span <- 2, Lag <- 1,
  MaxRejected <- 1, MaxLate <- 0, MaxDrops <- 0, MaxFailures <- 1, MaxIgnored <- 0

Asks(irreversible, end) == [irreversible_only |-> irreversible, end |-> end]
BothModes == {Asks(FALSE, 4), Asks(TRUE, 4)}
OneMode == {Asks(FALSE, 2)}
Session == INSTANCE StateHistorySession WITH
  MaxBlockNum <- 3, MaxBlocks <- 4, MaxMessages <- 1, MaxConnections <- 2, MaxStatus <- 0,
  Modes <- BothModes
Status == INSTANCE StateHistorySession WITH
  MaxBlockNum <- 3, MaxBlocks <- 3, MaxMessages <- 2, MaxConnections <- 1, MaxStatus <- 1,
  Modes <- OneMode

Three == {node1, node2, node3}
All == {l \in Three \X Three : l[1] # l[2]}
Chained == {l \in All : node2 \in {l[1], l[2]}}
OneTrx == {trx1}
Nothing == {}
FromFirst == [t \in OneTrx |-> node1]
FromNone == [t \in Nothing |-> node1]
Line == INSTANCE Relay WITH
  Nodes <- Three, Producer <- node1, Links <- Chained, Trxs <- OneTrx,
  Origin <- FromFirst, Refuses <- Nothing, MaxBlock <- 0, Lag <- 1, MaxInProgress <- 1
Triangle == INSTANCE Relay WITH
  Nodes <- Three, Producer <- node1, Links <- All, Trxs <- Nothing,
  Origin <- FromNone, Refuses <- Nothing, MaxBlock <- 1, Lag <- 1, MaxInProgress <- 1

Messages == {"handshake", "wrong_version", "benign_other", "fatal_other"}
One == INSTANCE Connection WITH
  MaxQueue <- 2, MaxImmediate <- 0, MaxBlocks <- 0, MaxSends <- 0, MaxReads <- 1, MaxErrors <- 1,
  ResolveFails <- TRUE, Received <- Messages, MaxOverlaps <- 0

TwoCodes == {c1, c2}
OneAccount == {a1}
ThreeSlots == {s1, s2, s3}
Cache == INSTANCE CodeCache WITH
  Accounts <- OneAccount, Codes <- TwoCodes, Slots <- ThreeSlots, Threads <- 1, Threshold <- 0,
  EvictBatch <- 25, MaxBlock <- 2, MaxStops <- 0, MonitorMayDie <- FALSE

Clients == {client1, client2}
Sizes == {1, 2}
JsonSizes == {0, 2}
Http == INSTANCE HttpRequests WITH
  Connections <- Clients, Threads <- 2, LimitOption <- 2, Bodies <- Sizes, Responses <- Sizes,
  Jsons <- JsonSizes

ASSUME
  /\ Sync!NetSyncAssumption /\ Faults!NetSyncAssumption /\ Refused!NetSyncAssumption /\ Heads!NetSyncAssumption
  /\ Session!SessionAssumption /\ Status!SessionAssumption /\ Cache!CodeCacheAssumption /\ One!ConnectionAssumption
  /\ Line!RelayAssumption /\ Triangle!RelayAssumption /\ Http!HttpAssumption

-----------------------------------------------------------------------------
sync_vars == <<head, sm, con, strand, app, pool, seen, to_peer, to_me, peer, late, drops,
              failures, ignored>>
session_vars == <<chain, head, lib, todo, base, old, made, ses, connections, connected, wire,
                 asked, mode, mine, acks, statuses>>
relay_vars == <<chain, contents, expired, local_txns, blk_state, strand, recv, progress, app,
               disp, pool, wire, got>>
connection_vars == <<strand, ops, socket_open, connecting, no_retry, queue, handshakes, told,
                    requested, fetching, immediate, last_close, monitor, listed, first, head,
                    sends, reads, errors, overlaps>>
cache_vars == <<code_hash, head, lib, modules, cc, results, toMonitor, toNode, session, mem,
               header, node, stops, lost>>
http_vars == <<bytes_in_flight, request, callback, size, answer, main>>

\* What a part does not use.
not_sync == <<chain, lib, todo, base, old, made, ses, connections, connected, wire, asked, mode,
              mine, acks, statuses, contents, expired, local_txns, blk_state, recv, progress,
              disp, got, ops, socket_open, connecting, no_retry, queue, handshakes, told,
              requested, fetching, immediate, last_close, monitor, listed, first, sends, reads,
              errors, overlaps, code_hash, modules, cc, results, toMonitor, toNode, session, mem, header,
              node, stops, lost, bytes_in_flight, request, callback, size, answer, main>>
not_session == <<sm, con, strand, app, pool, seen, to_peer, to_me, peer, late, drops, failures,
                 ignored, contents, expired, local_txns, blk_state, recv, progress, disp, got,
                 ops, socket_open, connecting, no_retry, queue, handshakes, told, requested,
                 fetching, immediate, last_close, monitor, listed, first, sends, reads, errors, overlaps,
                 code_hash, modules, cc, results, toMonitor, toNode, session, mem, header, node,
                 stops, lost, bytes_in_flight, request, callback, size, answer, main>>
not_relay == <<head, sm, con, seen, to_peer, to_me, peer, late, drops, failures, ignored, lib,
               todo, base, old, made, ses, connections, connected, asked, mode, mine, acks,
               statuses, ops, socket_open, connecting, no_retry, queue, handshakes, told,
               requested, fetching, immediate, last_close, monitor, listed, first, sends, reads,
               errors, overlaps, code_hash, modules, cc, results, toMonitor, toNode, session, mem, header,
               node, stops, lost, bytes_in_flight, request, callback, size, answer, main>>
not_connection == <<sm, con, app, pool, seen, to_peer, to_me, peer, late, drops, failures,
                    ignored, chain, lib, todo, base, old, made, ses, connections, connected,
                    wire, asked, mode, mine, acks, statuses, contents, expired, local_txns,
                    blk_state, recv, progress, disp, got, code_hash, modules, cc, results,
                    toMonitor, toNode, session, mem, header, node, stops, lost, bytes_in_flight,
                    request, callback, size, answer, main>>
not_cache == <<sm, con, strand, app, pool, seen, to_peer, to_me, peer, late, drops, failures,
               ignored, chain, todo, base, old, made, ses, connections, connected, wire, asked,
               mode, mine, acks, statuses, contents, expired, local_txns, blk_state, recv,
               progress, disp, got, ops, socket_open, connecting, no_retry, queue, handshakes,
               told, requested, fetching, immediate, last_close, monitor, listed, first, sends,
               reads, errors, overlaps, bytes_in_flight, request, callback, size, answer, main>>
not_http == <<head, sm, con, strand, app, pool, seen, to_peer, to_me, peer, late, drops,
              failures, ignored, chain, lib, todo, base, old, made, ses, connections, connected,
              wire, asked, mode, mine, acks, statuses, contents, expired, local_txns, blk_state,
              recv, progress, disp, got, ops, socket_open, connecting, no_retry, queue,
              handshakes, told, requested, fetching, immediate, last_close, monitor, listed,
              first, sends, reads, errors, overlaps, code_hash, modules, cc, results, toMonitor, toNode,
              session, mem, header, node, stops, lost>>

all_vars == <<part, head, sm, con, strand, app, pool, seen, to_peer, to_me, peer, late, drops,
              failures, ignored, chain, lib, todo, base, old, made, ses, connections, connected,
              wire, asked, mode, mine, acks, statuses, contents, expired, local_txns, blk_state,
              recv, progress, disp, got, ops, socket_open, connecting, no_retry, queue,
              handshakes, told, requested, fetching, immediate, last_close, monitor, listed,
              first, sends, reads, errors, overlaps, code_hash, modules, cc, results, toMonitor, toNode,
              session, mem, header, node, stops, lost, bytes_in_flight, request, callback, size,
              answer, main>>

Off == "off"
NoSync ==
  /\ chain = Off /\ lib = Off /\ todo = Off /\ base = Off /\ old = Off /\ made = Off
  /\ ses = Off /\ connections = Off /\ connected = Off /\ wire = Off /\ asked = Off
  /\ mode = Off /\ mine = Off /\ acks = Off /\ statuses = Off /\ contents = Off /\ expired = Off
  /\ local_txns = Off /\ blk_state = Off /\ recv = Off /\ progress = Off /\ disp = Off
  /\ got = Off /\ ops = Off /\ socket_open = Off /\ connecting = Off /\ no_retry = Off
  /\ queue = Off /\ handshakes = Off /\ told = Off /\ requested = Off /\ fetching = Off
  /\ immediate = Off /\ last_close = Off /\ monitor = Off /\ listed = Off /\ first = Off
  /\ sends = Off /\ reads = Off /\ errors = Off /\ overlaps = Off /\ code_hash = Off /\ modules = Off
  /\ cc = Off /\ results = Off /\ toMonitor = Off /\ toNode = Off /\ session = Off
  /\ mem = Off /\ header = Off /\ node = Off /\ stops = Off /\ lost = Off /\ bytes_in_flight = Off
  /\ request = Off /\ callback = Off /\ size = Off /\ answer = Off /\ main = Off
NoSession ==
  /\ sm = Off /\ con = Off /\ strand = Off /\ app = Off /\ pool = Off /\ seen = Off
  /\ to_peer = Off /\ to_me = Off /\ peer = Off /\ late = Off /\ drops = Off /\ failures = Off
  /\ ignored = Off /\ contents = Off /\ expired = Off /\ local_txns = Off /\ blk_state = Off
  /\ recv = Off /\ progress = Off /\ disp = Off /\ got = Off /\ ops = Off /\ socket_open = Off
  /\ connecting = Off /\ no_retry = Off /\ queue = Off /\ handshakes = Off /\ told = Off
  /\ requested = Off /\ fetching = Off /\ immediate = Off /\ last_close = Off /\ monitor = Off
  /\ listed = Off /\ first = Off /\ sends = Off /\ reads = Off /\ errors = Off /\ overlaps = Off /\ code_hash = Off
  /\ modules = Off /\ cc = Off /\ results = Off /\ toMonitor = Off /\ toNode = Off
  /\ session = Off /\ mem = Off /\ header = Off /\ node = Off /\ stops = Off /\ lost = Off
  /\ bytes_in_flight = Off /\ request = Off /\ callback = Off /\ size = Off /\ answer = Off
  /\ main = Off
NoRelay ==
  /\ head = Off /\ sm = Off /\ con = Off /\ seen = Off /\ to_peer = Off /\ to_me = Off
  /\ peer = Off /\ late = Off /\ drops = Off /\ failures = Off /\ ignored = Off /\ lib = Off
  /\ todo = Off /\ base = Off /\ old = Off /\ made = Off /\ ses = Off /\ connections = Off
  /\ connected = Off /\ asked = Off /\ mode = Off /\ mine = Off /\ acks = Off /\ statuses = Off
  /\ ops = Off /\ socket_open = Off /\ connecting = Off /\ no_retry = Off /\ queue = Off
  /\ handshakes = Off /\ told = Off /\ requested = Off /\ fetching = Off /\ immediate = Off
  /\ last_close = Off /\ monitor = Off /\ listed = Off /\ first = Off /\ sends = Off
  /\ reads = Off /\ errors = Off /\ overlaps = Off /\ code_hash = Off /\ modules = Off /\ cc = Off /\ results = Off
  /\ toMonitor = Off /\ toNode = Off /\ session = Off /\ mem = Off /\ header = Off
  /\ node = Off /\ stops = Off /\ lost = Off /\ bytes_in_flight = Off /\ request = Off
  /\ callback = Off /\ size = Off /\ answer = Off /\ main = Off
NoConnection ==
  /\ sm = Off /\ con = Off /\ app = Off /\ pool = Off /\ seen = Off /\ to_peer = Off
  /\ to_me = Off /\ peer = Off /\ late = Off /\ drops = Off /\ failures = Off /\ ignored = Off
  /\ chain = Off /\ lib = Off /\ todo = Off /\ base = Off /\ old = Off /\ made = Off
  /\ ses = Off /\ connections = Off /\ connected = Off /\ wire = Off /\ asked = Off
  /\ mode = Off /\ mine = Off /\ acks = Off /\ statuses = Off /\ contents = Off /\ expired = Off
  /\ local_txns = Off /\ blk_state = Off /\ recv = Off /\ progress = Off /\ disp = Off
  /\ got = Off /\ code_hash = Off /\ modules = Off /\ cc = Off /\ results = Off /\ toMonitor = Off
  /\ toNode = Off /\ session = Off /\ mem = Off /\ header = Off /\ node = Off /\ stops = Off
  /\ lost = Off /\ bytes_in_flight = Off /\ request = Off /\ callback = Off /\ size = Off
  /\ answer = Off /\ main = Off
NoCache ==
  /\ sm = Off /\ con = Off /\ strand = Off /\ app = Off /\ pool = Off /\ seen = Off
  /\ to_peer = Off /\ to_me = Off /\ peer = Off /\ late = Off /\ drops = Off /\ failures = Off
  /\ ignored = Off /\ chain = Off /\ todo = Off /\ base = Off /\ old = Off /\ made = Off
  /\ ses = Off /\ connections = Off /\ connected = Off /\ wire = Off /\ asked = Off
  /\ mode = Off /\ mine = Off /\ acks = Off /\ statuses = Off /\ contents = Off /\ expired = Off
  /\ local_txns = Off /\ blk_state = Off /\ recv = Off /\ progress = Off /\ disp = Off
  /\ got = Off /\ ops = Off /\ socket_open = Off /\ connecting = Off /\ no_retry = Off
  /\ queue = Off /\ handshakes = Off /\ told = Off /\ requested = Off /\ fetching = Off
  /\ immediate = Off /\ last_close = Off /\ monitor = Off /\ listed = Off /\ first = Off
  /\ sends = Off /\ reads = Off /\ errors = Off /\ overlaps = Off /\ bytes_in_flight = Off /\ request = Off
  /\ callback = Off /\ size = Off /\ answer = Off /\ main = Off
NoHttp ==
  /\ head = Off /\ sm = Off /\ con = Off /\ strand = Off /\ app = Off /\ pool = Off
  /\ seen = Off /\ to_peer = Off /\ to_me = Off /\ peer = Off /\ late = Off /\ drops = Off
  /\ failures = Off /\ ignored = Off /\ chain = Off /\ lib = Off /\ todo = Off /\ base = Off
  /\ old = Off /\ made = Off /\ ses = Off /\ connections = Off /\ connected = Off /\ wire = Off
  /\ asked = Off /\ mode = Off /\ mine = Off /\ acks = Off /\ statuses = Off /\ contents = Off
  /\ expired = Off /\ local_txns = Off /\ blk_state = Off /\ recv = Off /\ progress = Off
  /\ disp = Off /\ got = Off /\ ops = Off /\ socket_open = Off /\ connecting = Off
  /\ no_retry = Off /\ queue = Off /\ handshakes = Off /\ told = Off /\ requested = Off
  /\ fetching = Off /\ immediate = Off /\ last_close = Off /\ monitor = Off /\ listed = Off
  /\ first = Off /\ sends = Off /\ reads = Off /\ errors = Off /\ overlaps = Off /\ code_hash = Off /\ modules = Off
  /\ cc = Off /\ results = Off /\ toMonitor = Off /\ toNode = Off /\ session = Off
  /\ mem = Off /\ header = Off /\ node = Off /\ stops = Off /\ lost = Off

ProgressInit ==
  /\ part \in Parts
  /\ \/ part = "sync" /\ Sync!Init /\ NoSync
     \/ part = "faults" /\ Faults!Init /\ NoSync
     \/ part = "refused" /\ Refused!Init /\ NoSync
     \/ part = "heads" /\ Heads!Init /\ NoSync
     \/ part = "session" /\ Session!Init /\ NoSession
     \/ part = "status" /\ Status!Init /\ NoSession
     \/ part = "line" /\ Line!Init /\ NoRelay
     \/ part = "triangle" /\ Triangle!Init /\ NoRelay
     \/ part = "connection" /\ One!Init /\ NoConnection
     \/ part = "cache" /\ Cache!Init /\ NoCache
     \/ part = "http" /\ Http!HttpInit /\ NoHttp

ProgressNext ==
  \/ part = "sync" /\ Sync!Next /\ UNCHANGED <<part, not_sync>>
  \/ part = "faults" /\ Faults!Next /\ UNCHANGED <<part, not_sync>>
  \/ part = "refused" /\ Refused!Next /\ UNCHANGED <<part, not_sync>>
  \/ part = "heads" /\ Heads!Next /\ UNCHANGED <<part, not_sync>>
  \/ part = "session" /\ Session!Next /\ UNCHANGED <<part, not_session>>
  \/ part = "status" /\ Status!Next /\ UNCHANGED <<part, not_session>>
  \/ part = "line" /\ Line!Next /\ UNCHANGED <<part, not_relay>>
  \/ part = "triangle" /\ Triangle!Next /\ UNCHANGED <<part, not_relay>>
  \/ part = "connection" /\ One!Next /\ UNCHANGED <<part, not_connection>>
  \/ part = "cache" /\ Cache!Next /\ UNCHANGED <<part, not_cache>>
  \/ part = "http" /\ Http!HttpNext /\ UNCHANGED <<part, not_http>>


\* What each part may rely on is what its module says under its Fairness.
SyncBlock ==
  \/ part = "sync" /\ Sync!ProcessSignedBlock
  \/ part = "faults" /\ Faults!ProcessSignedBlock
  \/ part = "refused" /\ Refused!ProcessSignedBlock
  \/ part = "heads" /\ Heads!ProcessSignedBlock
SyncAdd ==
  \/ part = "sync" /\ Sync!AddPeerBlock
  \/ part = "faults" /\ Faults!AddPeerBlock
  \/ part = "refused" /\ Refused!AddPeerBlock
  \/ part = "heads" /\ Heads!AddPeerBlock
SyncStrand(c) ==
  \/ part = "sync" /\ Sync!Strand(c)
  \/ part = "faults" /\ Faults!Strand(c)
  \/ part = "refused" /\ Refused!Strand(c)
  \/ part = "heads" /\ Heads!Strand(c)
SyncNetwork(c) ==
  \/ part = "sync" /\ Sync!Network(c)
  \/ part = "faults" /\ Faults!Network(c)
  \/ part = "refused" /\ Refused!Network(c)
  \/ part = "heads" /\ Heads!Network(c)
SyncConnect(c) ==
  \/ part = "sync" /\ Sync!Connect(c)
  \/ part = "faults" /\ Faults!Connect(c)
  \/ part = "refused" /\ Refused!Connect(c)
  \/ part = "heads" /\ Heads!Connect(c)
SyncExpire(c) ==
  \/ part = "sync" /\ Sync!SyncTimeout(c) /\ Sync!Quiet
  \/ part = "faults" /\ Faults!SyncTimeout(c) /\ Faults!Quiet
  \/ part = "refused" /\ Refused!SyncTimeout(c) /\ Refused!Quiet
  \/ part = "heads" /\ Heads!SyncTimeout(c) /\ Heads!Quiet
SyncFairness ==
  /\ WF_sync_vars(SyncBlock) /\ WF_sync_vars(SyncAdd)
  /\ \A c \in {p1, p2} : WF_sync_vars(SyncStrand(c)) /\ WF_sync_vars(SyncNetwork(c))
  /\ \A c \in {p1, p2} : WF_sync_vars(SyncConnect(c)) /\ WF_sync_vars(SyncExpire(c))

SessionApply ==
  \/ part = "session" /\ Session!ApplyNext
  \/ part = "status" /\ Status!ApplyNext
SessionConnect ==
  \/ part = "session" /\ Session!Connect
  \/ part = "status" /\ Status!Connect
SessionRequest ==
  \/ part = "session" /\ Session!HandleRequest
  \/ part = "status" /\ Status!HandleRequest
SessionAck ==
  \/ part = "session" /\ Session!HandleAck
  \/ part = "status" /\ Status!HandleAck
SessionWrite ==
  \/ part = "session" /\ Session!WriteDone
  \/ part = "status" /\ Status!WriteDone
SessionRead ==
  \/ part = "session" /\ Session!Read
  \/ part = "status" /\ Status!Read
SessionFairness ==
  /\ WF_session_vars(SessionApply) /\ WF_session_vars(SessionConnect) /\ WF_session_vars(SessionRequest)
  /\ WF_session_vars(SessionAck) /\ WF_session_vars(SessionWrite) /\ WF_session_vars(SessionRead)

RelayMain(n) ==
  \/ part = "line" /\ Line!MainThread(n)
  \/ part = "triangle" /\ Triangle!MainThread(n)
RelayDispatcher(n) ==
  \/ part = "line" /\ Line!Dispatcher(n)
  \/ part = "triangle" /\ Triangle!Dispatcher(n)
RelayPool(n) ==
  \/ part = "line" /\ Line!PoolTask(n)
  \/ part = "triangle" /\ Triangle!PoolTask(n)
RelayStrand(l) ==
  \/ part = "line" /\ l \in Chained /\ Line!Strand(l)
  \/ part = "triangle" /\ Triangle!Strand(l)
RelayReader(l) ==
  \/ part = "line" /\ l \in Chained /\ Line!Reader(l)
  \/ part = "triangle" /\ Triangle!Reader(l)
RelayFairness ==
  /\ \A n \in Three : WF_relay_vars(RelayMain(n)) /\ WF_relay_vars(RelayDispatcher(n)) /\ WF_relay_vars(RelayPool(n))
  /\ \A l \in All : WF_relay_vars(RelayStrand(l)) /\ WF_relay_vars(RelayReader(l))

ConnFairness ==
  /\ WF_connection_vars(part = "connection" /\ One!Strand)
  /\ WF_connection_vars(part = "connection" /\ One!Network)
  /\ WF_connection_vars(part = "connection" /\ One!Fetched)
  /\ WF_connection_vars(part = "connection" /\ One!PeriodPasses)
  /\ WF_connection_vars(part = "connection" /\ One!Expire)
  /\ WF_connection_vars(part = "connection" /\ One!connection_monitor)
  /\ WF_connection_vars(part = "connection" /\ One!Reschedule)
  /\ WF_connection_vars(part = "connection" /\ One!AbortedWait)
CacheFairness ==
  /\ \A c \in TwoCodes :
       WF_cache_vars(part = "cache" /\ Cache!Apply(c)) /\ WF_cache_vars(part = "cache" /\ Cache!CompileTaskEnds(c))
  /\ WF_cache_vars(part = "cache" /\ Cache!MonitorReads) /\ WF_cache_vars(part = "cache" /\ Cache!ReplyThread)
  /\ WF_cache_vars(part = "cache" /\ Cache!Start)
HttpFairness ==
  \A c \in Clients :
    /\ SF_http_vars(part = "http" /\ (Http!MainLoop(c) \/ Http!CallLater(c)))
    /\ SF_http_vars(part = "http" /\ Http!PoolThread(c))

ProgressSpec ==
  /\ ProgressInit /\ [][ProgressNext]_all_vars
  /\ SyncFairness /\ SessionFairness /\ RelayFairness /\ ConnFairness /\ CacheFairness /\ HttpFairness

-----------------------------------------------------------------------------
\* The sync manager: no chunk is ever asked for behind a gap, and the node
\* ends up with the irreversible blocks of every peer: with peers that are
\* themselves behind and blocks that come twice, over several chunks; and
\* within one chunk also through a connection that breaks, a block that is
\* refused, after which the connection is closed, and one that is ignored.
\* Where only the peers' heads are ahead it ends up with the best of them, a
\* block refused once included (sync_manager).  Not claimed over several
\* chunks with a refused block: when a block the node has already has
\* cancelled the timer, nothing asks for the refused one again.
SyncCatchesUp ==
  /\ [](part = "sync" => Sync!NoGap) /\ [](part \in {"faults", "refused"} => Faults!NoGap)
  /\ <>[](part = "sync" => head >= Sync!BestLib)
  /\ <>[](part \in {"faults", "refused"} => head >= Faults!BestLib)
  /\ <>[](part = "heads" => head = Heads!BestHead)

\* The client of the state history plugin: the credits it granted are used or
\* outstanding, every block it is told of continues the chain it has, one
\* that asked for irreversible blocks never has to undo one, and when blocks
\* stop coming it has what it asked for, all but the last block, unless it
\* asked for irreversible blocks only (state_history_plugin_impl::session).
ClientFollows ==
  /\ [](part = "session" => Session!CreditsConserved) /\ [](part = "status" => Status!CreditsConserved)
  /\ [][part = "session" \/ part = "status" => Session!Links]_session_vars
  /\ [][part = "session" => Session!KeepsIrreversible]_session_vars
  /\ <>[](part \in {"session", "status"} => Session!CaughtUp)

\* A transaction and a block reach every node, over nodes in between or when
\* every peer offers them.  A connection that failed, and whose operations
\* have ended when the monitor comes to it, is open again, unless the peer sent
\* it away for good, or its host could not be resolved too often before the
\* connection was ever closed: resolve_and_connect then waits for a close that
\* does not come (dispatch_manager, connection_monitor).
PeersAreReached ==
  /\ <>[](part = "line" => \A n \in Three : Line!Has(node1, trx1) => Line!Has(n, trx1) \/ trx1 \in expired)
  /\ <>[](part = "triangle" => \A n \in Three : chain[n].head >= chain[node1].head)
  /\ <>[](part = "connection" => socket_open \/ no_retry = "fatal_other" \/ last_close = "never")

\* The HTTP plugin gets below its limit again and answers every request it took
\* on; code that keeps being called is one day run by the optimized compiler,
\* unless compiling it failed (http_plugin_impl, code_cache_async).
WorkIsDone ==
  /\ []<>(part = "http" => bytes_in_flight <= Http!max_bytes_in_flight)
  /\ \A c \in Clients : []<>(part = "http" => ~Http!Unanswered(c))
  /\ \A c \in TwoCodes : []<>(part = "cache" => ~Cache!Waiting(c))
=============================================================================
