------------------------------- MODULE Relay -------------------------------
(***************************************************************************)
(* How nodes that are in sync pass on transactions and blocks: the         *)
(* dispatch_manager of the net plugin, with the indices that remember what *)
(* was received from or sent over which connection.                        *)
(*                                                                         *)
(* A connection <<n, p>> is node n's end of its link with peer p.  Its     *)
(* handlers run one at a time on its strand; the strands of a node, its    *)
(* dispatcher's strand, its main thread and its thread pool run in any     *)
(* order.  There is one chain of blocks, so a block is its number; fork    *)
(* choice is in Controller and catching up in NetSync.                     *)
(***************************************************************************)
EXTENDS Integers, Sequences, FiniteSets, FiniteSetsExt

CONSTANTS
  Nodes, Producer,   \* Producer makes the blocks
  Links,             \* the pairs <<n, p>>, both ways
  Trxs, Origin,      \* Origin[t]: the node whose API transaction t is pushed to
  Refuses,           \* pairs <<n, t>>: the chain of node n may refuse t when it first comes
  MaxBlock,          \* bound on the blocks produced
  Lag,               \* how far the last irreversible block is behind the head
  MaxInProgress      \* def_max_trx_in_progress_size, every transaction having size 1

ASSUME RelayAssumption ==
  /\ Producer \in Nodes /\ Links \subseteq Nodes \X Nodes
  /\ \A l \in Links : <<l[2], l[1]>> \in Links
  /\ \A t \in Trxs : Origin[t] \in Nodes
  /\ {MaxBlock, Lag, MaxInProgress} \subseteq Nat

VARIABLES
  chain,       \* node -> [head, trxs: accepted, refused: refused once]
  contents,    \* block -> the transactions in it
  expired,     \* the transactions whose expiration has passed
  local_txns,  \* node -> set of [id, con, block_num]
  blk_state,   \* node -> set of [num, con]
  strand,      \* connection -> what is posted to its strand
  recv,        \* connection -> a handler between have_txn and add_peer_txn
  progress,    \* connection -> trx_in_progress_size
  app,         \* node -> what is posted to the main thread, transactions up to their callback
  disp,        \* node -> what is posted to the dispatcher's strand
  pool,        \* node -> what is posted to the thread pool
  wire,        \* connection -> messages on their way from n to p
  got          \* history: transactions noted as received, as <<connection, transaction>>

dispatcher == <<local_txns, blk_state>>
queues == <<strand, recv, progress, app, disp, pool, wire>>
vars == <<chain, contents, expired, dispatcher, queues, got>>

-----------------------------------------------------------------------------
Peers(n) == {p \in Nodes : <<n, p>> \in Links}
lib(n) == IF chain[n].head > Lag THEN chain[n].head - Lag ELSE 0

Trx(t) == [kind |-> "trx", id |-> t]
None == [kind |-> "none"]

have_txn(n, t) == \E e \in local_txns[n] : e.id = t
peer_has_txn(n, t, p) == \E e \in local_txns[n] : e.id = t /\ e.con = p
have_block(n, b) == \E e \in blk_state[n] : e.num = b
peer_has_block(n, b, p) == [num |-> b, con |-> p] \in blk_state[n]

\* The index local_txns of a node after add_peer_txn for connection p.
add_peer_txn(n, t, p) ==
  IF peer_has_txn(n, t, p) THEN local_txns[n]
  ELSE local_txns[n] \cup {[id |-> t, con |-> p, block_num |-> 0]}

add_peer_block(n, b, p) == blk_state[n] \cup {[num |-> b, con |-> p]}

\* The entries of the transactions ts get the number of a block.
update_txns_block_num(n, ts, b) ==
  {IF e.id \in ts THEN [e EXCEPT !.block_num = b] ELSE e : e \in local_txns[n]}

-----------------------------------------------------------------------------
(* The main thread *)

MayAccept(n, t) == t \notin chain[n].trxs /\ t \notin expired
MayRefuse(n, t) == <<n, t>> \in Refuses /\ t \notin chain[n].refused

\* accept_transaction on node n, whose outcome is acknowledged to the
\* dispatcher's strand (transaction_ack).
Accepts(n, t) ==
  \/ /\ MayAccept(n, t)
     /\ chain' = [chain EXCEPT ![n].trxs = @ \cup {t}]
     /\ disp' = [disp EXCEPT ![n] = Append(@, [kind |-> "ack", id |-> t, todo |-> Peers(n)])]
  \/ /\ ~MayAccept(n, t) \/ MayRefuse(n, t)
     /\ chain' = [chain EXCEPT ![n].refused = @ \cup {t}]
     /\ disp' = [disp EXCEPT ![n] = Append(@, [kind |-> "nack", id |-> t])]

\* A client pushes a transaction once.
PushTransaction(t) ==
  /\ t \notin chain[Origin[t]].trxs \cup chain[Origin[t]].refused
  /\ t \notin expired
  /\ Accepts(Origin[t], t)
  /\ UNCHANGED <<contents, expired, dispatcher, strand, recv, progress, app, pool, wire, got>>

\* Blocks are posted with a higher priority than transactions.
NextBlock(n) == Min({i \in 1 .. Len(app[n]) : app[n][i].kind = "block"})

\* The tasks without the i-th.
Dequeue(tasks, i) == SubSeq(tasks, 1, i - 1) \o SubSeq(tasks, i + 1, Len(tasks))

accept_transaction_OnSuccess(n) ==
  /\ \E i \in 1 .. Len(app[n]) :
       LET x == app[n][i]
       IN /\ x.kind = "trx" /\ \A j \in 1 .. i - 1 : app[n][j].kind # "block"
          /\ Accepts(n, x.id)
          /\ progress' = IF MayAccept(n, x.id) THEN [progress EXCEPT ![<<n, x.from>>] = @ - 1] ELSE progress
          /\ app' = [app EXCEPT ![n] = Dequeue(@, i)]
  /\ UNCHANGED <<contents, expired, dispatcher, strand, recv, pool, wire, got>>

\* What handle_message posted, up to the callback of accept_transaction.  The
\* producer plugin calls it later: when the keys have been recovered, in any
\* order, or from its queue of incoming transactions.  A transaction that came
\* after a block is processed after it.
accept_transaction(n) ==
  /\ \E i \in 1 .. Len(app[n]) :
       LET x == app[n][i]
       IN /\ x.kind = "trx" /\ \A j \in 1 .. i - 1 : app[n][j].kind # "block"
          /\ Accepts(n, x.id)
          /\ progress' = [progress EXCEPT ![<<n, x.from>>] = @ - 1]
          /\ app' = [app EXCEPT ![n] = Dequeue(@, i)]
  /\ UNCHANGED <<contents, expired, dispatcher, strand, recv, pool, wire, got>>

process_signed_block(n) ==
  /\ \E i \in 1 .. Len(app[n]) : app[n][i].kind = "block"
  /\ LET x == app[n][NextBlock(n)]
         c == <<n, x.from>>
     IN \/ /\ x.id <= chain[n].head
           /\ strand' = [strand EXCEPT ![c] = Append(@, [kind |-> "seen", id |-> x.id])]
           /\ UNCHANGED <<chain, disp, pool>>
        \/ /\ x.id = chain[n].head + 1
           /\ chain' = [chain EXCEPT ![n].head = x.id, ![n].trxs = @ \cup contents[x.id]]
           /\ disp' = [disp EXCEPT ![n] = Append(@, [kind |-> "block", id |-> x.id])]
           /\ pool' = [pool EXCEPT ![n] = @ \cup {[from |-> x.from, id |-> x.id]}]
           /\ UNCHANGED strand
        \/ /\ x.id > chain[n].head + 1  \* unlinkable, left to the sync manager
           /\ UNCHANGED <<chain, disp, pool, strand>>
  /\ app' = [app EXCEPT ![n] = Dequeue(@, NextBlock(n))]
  /\ UNCHANGED <<contents, expired, dispatcher, recv, progress, wire, got>>

\* The producer's own block is signalled by accepted_block like any other.
Produce ==
  LET b == chain[Producer].head + 1
  IN /\ b <= MaxBlock
     /\ contents' = [contents EXCEPT ![b] = chain[Producer].trxs \ UNION {contents[i] : i \in 1 .. b - 1}]
     /\ chain' = [chain EXCEPT ![Producer].head = b]
     /\ disp' = [disp EXCEPT ![Producer] = Append(@, [kind |-> "block", id |-> b])]
     /\ UNCHANGED <<expired, dispatcher, strand, recv, progress, app, pool, wire, got>>

-----------------------------------------------------------------------------
(* The dispatcher's strand *)

\* for_each_connection is done with p, and after the last connection with the task.
NextPeer(tasks, p) ==
  IF Head(tasks).todo = {p} THEN Tail(tasks) ELSE [tasks EXCEPT ![1].todo = @ \ {p}]

bcast_transaction_Echo(n) ==
  /\ disp[n] # <<>> /\ Head(disp[n]).kind = "ack"
  /\ \E p \in Head(disp[n]).todo :
       /\ local_txns' = [local_txns EXCEPT ![n] = add_peer_txn(n, Head(disp[n]).id, p)]
       /\ strand' = [strand EXCEPT ![<<n, p>>] = Append(@, Trx(Head(disp[n]).id))]
       /\ disp' = [disp EXCEPT ![n] = NextPeer(@, p)]
  /\ UNCHANGED <<chain, contents, expired, blk_state, recv, progress, app, pool, wire, got>>

\* bcast_transaction has taken its next connection.
bcast_transaction(n) ==
  /\ disp[n] # <<>> /\ Head(disp[n]).kind = "ack"
  /\ \E p \in Head(disp[n]).todo :
       /\ local_txns' = [local_txns EXCEPT ![n] = add_peer_txn(n, Head(disp[n]).id, p)]
       /\ strand' = IF peer_has_txn(n, Head(disp[n]).id, p) THEN strand
                    ELSE [strand EXCEPT ![<<n, p>>] = Append(@, Trx(Head(disp[n]).id))]
       /\ disp' = [disp EXCEPT ![n] = NextPeer(@, p)]
  /\ UNCHANGED <<chain, contents, expired, blk_state, recv, progress, app, pool, wire, got>>

rejected_transaction(n) ==
  /\ disp[n] # <<>> /\ Head(disp[n]).kind = "nack"
  /\ local_txns' = IF Head(disp[n]).id \in expired THEN local_txns
                   ELSE [local_txns EXCEPT ![n] =
                           update_txns_block_num(n, {Head(disp[n]).id}, chain[n].head)]
  /\ disp' = [disp EXCEPT ![n] = Tail(@)]
  /\ UNCHANGED <<chain, contents, expired, blk_state, strand, recv, progress, app, pool, wire, got>>

bcast_block(n) ==
  /\ disp[n] # <<>> /\ Head(disp[n]).kind = "block"
  /\ strand' = [c \in Links |-> IF c[1] = n THEN Append(strand[c], Head(disp[n])) ELSE strand[c]]
  /\ disp' = [disp EXCEPT ![n] = Tail(@)]
  /\ UNCHANGED <<chain, contents, expired, dispatcher, recv, progress, app, pool, wire, got>>

-----------------------------------------------------------------------------
(* The strand of a connection *)

\* What was posted to the strand runs; a handler in the middle of a message
\* keeps the strand.
SendTransaction(c) ==
  /\ recv[c] = None /\ strand[c] # <<>> /\ Head(strand[c]).kind = "trx"
  /\ strand' = [strand EXCEPT ![c] = Tail(@)]
  /\ wire' = [wire EXCEPT ![c] = Append(@, Head(strand[c]))]
  /\ UNCHANGED <<chain, contents, expired, dispatcher, recv, progress, app, disp, pool, got>>

SendBlock_OnlyNew(c) ==
  /\ recv[c] = None /\ strand[c] # <<>> /\ Head(strand[c]).kind = "block"
  /\ strand' = [strand EXCEPT ![c] = Tail(@)]
  /\ blk_state' = [blk_state EXCEPT ![c[1]] = add_peer_block(c[1], Head(strand[c]).id, c[2])]
  /\ IF have_block(c[1], Head(strand[c]).id)
     THEN UNCHANGED wire
     ELSE wire' = [wire EXCEPT ![c] = Append(@, Head(strand[c]))]
  /\ UNCHANGED <<chain, contents, expired, local_txns, recv, progress, app, disp, pool, got>>

SendBlock(c) ==
  /\ recv[c] = None /\ strand[c] # <<>> /\ Head(strand[c]).kind = "block"
  /\ strand' = [strand EXCEPT ![c] = Tail(@)]
  /\ blk_state' = [blk_state EXCEPT ![c[1]] = add_peer_block(c[1], Head(strand[c]).id, c[2])]
  /\ IF peer_has_block(c[1], Head(strand[c]).id, c[2])
     THEN UNCHANGED wire
     ELSE wire' = [wire EXCEPT ![c] = Append(@, Head(strand[c]))]
  /\ UNCHANGED <<chain, contents, expired, local_txns, recv, progress, app, disp, pool, got>>

\* A block the node already had: its source has it too.
NoteBlock(c) ==
  /\ recv[c] = None /\ strand[c] # <<>> /\ Head(strand[c]).kind = "seen"
  /\ strand' = [strand EXCEPT ![c] = Tail(@)]
  /\ blk_state' = [blk_state EXCEPT ![c[1]] = add_peer_block(c[1], Head(strand[c]).id, c[2])]
  /\ UNCHANGED <<chain, contents, expired, local_txns, recv, progress, app, disp, pool, wire, got>>

Inbound(c) == <<c[2], c[1]>>
Incoming(c, k) ==
  /\ recv[c] = None /\ wire[Inbound(c)] # <<>> /\ Head(wire[Inbound(c)]).kind = k
  /\ wire' = [wire EXCEPT ![Inbound(c)] = Tail(@)]

\* handle_message(packed_transaction) up to have_txn ...
RecvTransaction(c) ==
  /\ Incoming(c, "trx")
  /\ LET t == Head(wire[Inbound(c)]).id
     IN recv' = IF progress[c] > MaxInProgress THEN recv
                ELSE [recv EXCEPT ![c] = [kind |-> "trx", id |-> t, have |-> have_txn(c[1], t)]]
  /\ UNCHANGED <<chain, contents, expired, dispatcher, strand, progress, app, disp, pool, got>>

\* ... and from add_peer_txn, which takes the lock again.
AddPeerTxn(c) ==
  /\ recv[c] # None
  /\ local_txns' = [local_txns EXCEPT ![c[1]] = add_peer_txn(c[1], recv[c].id, c[2])]
  /\ IF recv[c].have THEN UNCHANGED <<progress, app>>
     ELSE /\ progress' = [progress EXCEPT ![c] = @ + 1]
          /\ app' = [app EXCEPT ![c[1]] = Append(@, [kind |-> "trx", id |-> recv[c].id, from |-> c[2]])]
  /\ recv' = [recv EXCEPT ![c] = None]
  /\ got' = got \cup {<<c, recv[c].id>>}
  /\ UNCHANGED <<chain, contents, expired, blk_state, strand, disp, pool, wire>>

\* A block that is known, or older than the last irreversible one, goes no
\* further; the handshake that answers the latter is in NetSync.
RecvBlock(c) ==
  /\ Incoming(c, "block")
  /\ LET b == Head(wire[Inbound(c)]).id
     IN app' = IF have_block(c[1], b) \/ b < lib(c[1]) THEN app
               ELSE [app EXCEPT ![c[1]] = Append(@, [kind |-> "block", id |-> b, from |-> c[2]])]
  /\ UNCHANGED <<chain, contents, expired, dispatcher, strand, recv, progress, disp, pool, got>>

-----------------------------------------------------------------------------
(* The thread pool, the timers and the faults *)

PoolTask(n) ==
  \E x \in pool[n] :
    /\ pool' = [pool EXCEPT ![n] = @ \ {x}]
    /\ blk_state' = [blk_state EXCEPT ![n] = add_peer_block(n, x.id, x.from)]
    /\ local_txns' = [local_txns EXCEPT ![n] = update_txns_block_num(n, contents[x.id], x.id)]
    /\ UNCHANGED <<chain, contents, expired, strand, recv, progress, app, disp, wire, got>>

Forgotten(n) == {e \in local_txns[n] : e.id \in expired \/ e.block_num \in 1 .. lib(n)}
StaleBlocks(n) == {e \in blk_state[n] : e.num \in 1 .. lib(n)}

\* The expire timer.
expire(n) ==
  /\ Forgotten(n) # {} \/ StaleBlocks(n) # {}
  /\ local_txns' = [local_txns EXCEPT ![n] = @ \ Forgotten(n)]
  /\ blk_state' = [blk_state EXCEPT ![n] = @ \ StaleBlocks(n)]
  /\ UNCHANGED <<chain, contents, expired, queues, got>>

\* The expiration of a transaction passes.
PassExpiration(t) ==
  /\ t \notin expired
  /\ expired' = expired \cup {t}
  /\ UNCHANGED <<chain, contents, dispatcher, queues, got>>

Init ==
  /\ chain = [n \in Nodes |-> [head |-> 0, trxs |-> {}, refused |-> {}]]
  /\ contents = [b \in 1 .. MaxBlock |-> {}] /\ expired = {}
  /\ local_txns = [n \in Nodes |-> {}] /\ blk_state = [n \in Nodes |-> {}]
  /\ strand = [c \in Links |-> <<>>] /\ recv = [c \in Links |-> None]
  /\ progress = [c \in Links |-> 0] /\ app = [n \in Nodes |-> <<>>]
  /\ disp = [n \in Nodes |-> <<>>] /\ pool = [n \in Nodes |-> {}]
  /\ wire = [c \in Links |-> <<>>]
  /\ got = {}

MainThread(n) == accept_transaction(n) \/ process_signed_block(n)
Dispatcher(n) == bcast_transaction(n) \/ rejected_transaction(n) \/ bcast_block(n)
Strand(c) == SendTransaction(c) \/ SendBlock(c) \/ NoteBlock(c) \/ AddPeerTxn(c)
Reader(c) == RecvTransaction(c) \/ RecvBlock(c)

Next ==
  \/ \E t \in Trxs : PushTransaction(t) \/ PassExpiration(t)
  \/ Produce
  \/ \E n \in Nodes : MainThread(n) \/ Dispatcher(n) \/ PoolTask(n) \/ expire(n)
  \/ \E c \in Links : Strand(c) \/ Reader(c)

Spec == Init /\ [][Next]_vars

\* The executors run what is posted to them and the sockets deliver; nothing
\* makes a client push, a producer produce or a transaction expire.
FairSpec ==
  /\ Spec
  /\ \A n \in Nodes : WF_vars(MainThread(n)) /\ WF_vars(Dispatcher(n)) /\ WF_vars(PoolTask(n))
  /\ \A c \in Links : WF_vars(Strand(c)) /\ WF_vars(Reader(c))

-----------------------------------------------------------------------------
(* Properties *)

\* Every variable has its type.
TypeOK ==
  /\ chain \in [Nodes -> [head : 0 .. MaxBlock, trxs : SUBSET Trxs, refused : SUBSET Trxs]]
  /\ \A n \in Nodes : \A e \in local_txns[n] : e.id \in Trxs /\ e.con \in Peers(n) /\ e.block_num \in 0 .. MaxBlock
  /\ \A n \in Nodes : \A e \in blk_state[n] : e.num \in 1 .. MaxBlock /\ e.con \in Peers(n)
  /\ \A c \in Links : progress[c] \in Nat
  /\ expired \subseteq Trxs

Settled(n, t) == t \in expired \cup chain[n].refused \/ \E b \in 1 .. lib(n) : t \in contents[b]

\* A node queues a transaction for a connection it has noted it from only
\* when it may have forgotten that: when the transaction has expired, was
\* refused by the node's chain or is in an irreversible block.  The source is
\* noted before the chain can accept a copy of the transaction.
NeverEchoed ==
  [][\A c \in got : strand'[c[1]] = Append(strand[c[1]], Trx(c[2])) => Settled(c[1][1], c[2])]_vars

\* trx_in_progress_size is what the connection has posted to the main thread
\* or handed to the producer plugin, so the limit on it cannot leak.
ProgressIsPosted ==
  \A c \in DOMAIN progress :
    progress[c] = Cardinality({i \in 1 .. Len(app[c[1]]) : app[c[1]][i].kind = "trx" /\ app[c[1]][i].from = c[2]})

Has(n, t) == t \in chain[n].trxs

=============================================================================
