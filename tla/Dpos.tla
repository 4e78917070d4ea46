-------------------------------- MODULE Dpos --------------------------------
(***************************************************************************)
(* The producers of one schedule on an unreliable network: each runs a     *)
(* node, sees some of the blocks, builds on the best one it sees and       *)
(* decides with its watermark whether it produces and how many blocks it   *)
(* confirms (plugins/producer_plugin, start_block).  The watermark is not  *)
(* durable.  Slots are missed, branches are hidden for any time and shown  *)
(* later.                                                                  *)
(***************************************************************************)
EXTENDS BlockHeaderState

CONSTANTS
  Schedule,      \* the schedule of the genesis state
  FirstSlots,    \* the slots of the first round that are over at the start
  MaxSlot,       \* bound: the last slot
  MaxRestarts,   \* bound: how often a node is restarted
  MaxCrashes     \* bound: how often a node crashes while it switches forks

DposBounds ==
  /\ Schedule \in Seq(Producers) /\ Schedule # << >> /\ FirstSlots \in 0 .. Len(Schedule)
  /\ MaxSlot \in Nat /\ MaxRestarts \in Nat /\ MaxCrashes \in Nat

VARIABLES
  blocks,      \* every block made, in order: [parent, producer, confirmed, header]
  head,        \* the head of each producer's node: an index of blocks
  watermark,   \* _producer_watermarks of each node, for its own producer
  lost,        \* the producer's own blocks that a crash took from its node
  now,         \* the slot whose turn it is
  restarts, crashes

vars == <<blocks, head, watermark, lost, now, restarts, crashes>>

NoWatermark == [num |-> 0, slot |-> 0]

Header(i) == blocks[i].header

\* The indexes of a block and its ancestors.
Path(i) ==
  LET path[j \in 0 .. Len(blocks)] == IF j = 0 THEN {} ELSE {j} \cup path[blocks[j].parent]
  IN  path[i]

\* fork_database's first_preferred.
Preferred(i, j) ==
  \/ Header(i).irb > Header(j).irb
  \/ Header(i).irb = Header(j).irb /\ Header(i).num > Header(j).num

\* A node that has seen block i has it as head: it had it, or i is preferred.
MayAdopt(p, i) == i = head[p] \/ Preferred(i, head[p])

-----------------------------------------------------------------------------
\* The watermark of p's node once it holds block i: a block of its producer that
\* the node had lost is pushed to it again and raises it (on_block_header).
get_watermark(p, i) ==
  LET again == lost[p] \cap Path(i)
  IN  [ num  |-> Max({watermark[p].num} \cup {Header(j).num : j \in again}),
        slot |-> Max({watermark[p].slot} \cup {Header(j).slot : j \in again}) ]

\* The watermark excludes a producer that signed a higher number than its head.
MayProduce(p, i) ==
  LET w == get_watermark(p, i)
  IN  w # NoWatermark => w.num <= Header(i).num /\ w.slot < now

\* Mutant: every block that is not irreversible is confirmed.
blocks_to_confirm_All(p, i) == Header(i).num - Header(i).irb

\* The blocks since the watermark, and none that is irreversible.
blocks_to_confirm(p, i) ==
  LET n == Header(i).num
      w == get_watermark(p, i)
  IN  IF w = NoWatermark \/ w.num >= n THEN 0
      ELSE Min({n - w.num, n - Header(i).irb})

\* The watermark of a producer that builds on block i.
consider_new_watermark(i) == [num |-> Header(i).num + 1, slot |-> now]

\* The genesis block, and a block of each of the first slots: no producer has a
\* watermark yet, so none confirms more than its own block.
FirstBlocks ==
  LET made[k \in 0 .. FirstSlots] ==
        IF k = 0 THEN << [parent |-> 0, producer |-> Schedule[1], confirmed |-> 0,
                          header |-> genesis_header(Schedule)] >>
        ELSE LET prev == made[k - 1]
                 h    == prev[k].header
             IN  Append(prev, [parent |-> k, producer |-> get_scheduled_producer(h, k),
                               confirmed |-> 0, header |-> next(h, k, 0, << >>)])
  IN  made[FirstSlots]

\* Every node has seen the first blocks.
Init ==
  /\ blocks = FirstBlocks
  /\ head = [p \in Members(Schedule) |-> Len(blocks)]
  /\ watermark = [p \in Members(Schedule) |->
       LET mine == {i \in 2 .. Len(blocks) : blocks[i].producer = p}
       IN  IF mine = {} THEN NoWatermark
           ELSE [num |-> Header(Max(mine)).num, slot |-> Header(Max(mine)).slot]]
  /\ lost = [p \in Members(Schedule) |-> {}]
  /\ now = FirstSlots + 1
  /\ restarts = 0 /\ crashes = 0

\* start_block, then produce_block: the new block is the node's head and its
\* number and slot are the watermark.
Produce(p, i) ==
  LET c == blocks_to_confirm(p, i)
  IN  /\ now <= MaxSlot
      /\ p = get_scheduled_producer(Header(i), now)
      /\ MayAdopt(p, i)
      /\ MayProduce(p, i)
      /\ CanNext(Header(i), now, c)
      /\ blocks' = Append(blocks, [parent |-> i, producer |-> p, confirmed |-> c,
                                   header |-> next(Header(i), now, c, << >>)])
      /\ head' = [head EXCEPT ![p] = Len(blocks) + 1]
      /\ watermark' = [watermark EXCEPT ![p] = consider_new_watermark(i)]
      /\ lost' = [lost EXCEPT ![p] = @ \ Path(i)]
      /\ now' = now + 1
      /\ UNCHANGED <<restarts, crashes>>

MissSlot ==
  /\ now <= MaxSlot
  /\ now' = now + 1
  /\ UNCHANGED <<blocks, head, watermark, lost, restarts, crashes>>

\* A node is stopped and comes back with its head and without its watermark.
Restart(p) ==
  /\ restarts < MaxRestarts
  /\ watermark[p] # NoWatermark
  /\ watermark' = [watermark EXCEPT ![p] = NoWatermark]
  /\ restarts' = restarts + 1
  /\ UNCHANGED <<blocks, head, lost, now, crashes>>

\* A node crashes while it switches to block j and recovers what the reversible
\* block database holds then: its old branch or the new one, cut anywhere above
\* their fork (SwitchStores of the module Controller).
CrashInSwitch(p, j) ==
  LET fork == Path(head[p]) \cap Path(j)
  IN  /\ crashes < MaxCrashes
      /\ Preferred(j, head[p])
      /\ \E i \in ((Path(head[p]) \cup Path(j)) \ fork) \cup {Max(fork)} :
           /\ head' = [head EXCEPT ![p] = i]
           /\ lost' = [lost EXCEPT ![p] =
                         {k \in 2 .. Len(blocks) : blocks[k].producer = p} \ Path(i)]
      /\ watermark' = [watermark EXCEPT ![p] = NoWatermark]
      /\ crashes' = crashes + 1
      /\ UNCHANGED <<blocks, now, restarts>>

Next ==
  \/ \E p \in Members(Schedule) :
       \/ Restart(p)
       \/ \E i \in 1 .. Len(blocks) : Produce(p, i) \/ CrashInSwitch(p, i)
  \/ MissSlot

Spec == Init /\ [][Next]_vars

-----------------------------------------------------------------------------
\* Every variable has the shape the code gives it, and no watermark is ahead of
\* the clock.
TypeOK ==
  /\ \A i \in 1 .. Len(blocks) :
       /\ blocks[i].parent \in 0 .. i - 1
       /\ blocks[i].producer \in Producers
       /\ blocks[i].confirmed \in 0 .. Header(i).num
  /\ head \in [Members(Schedule) -> 1 .. Len(blocks)]
  /\ watermark \in [Members(Schedule) -> [num : 0 .. MaxSlot + 1, slot : 0 .. now - 1]]
  /\ lost \in [Members(Schedule) -> SUBSET (2 .. Len(blocks))]
  /\ now \in 1 .. MaxSlot + 1
  /\ restarts \in 0 .. MaxRestarts /\ crashes \in 0 .. MaxCrashes

ConfirmedRange(i) == Header(i).num - blocks[i].confirmed .. Header(i).num

\* No producer confirms a block number twice, on one branch or on two: what the
\* watermark is for (producer_plugin.cpp:1500-1514).  It survives a restart,
\* because the head does, and not a crash that takes blocks of the producer.
NoDoubleConfirm ==
  \A i, j \in 2 .. Len(blocks) :
    i # j /\ blocks[i].producer = blocks[j].producer =>
      ConfirmedRange(i) \cap ConfirmedRange(j) = {}

\* The block that i's header state names as proposed irreversible.
ProposedBlock(i) == {j \in Path(i) : Header(j).num = Header(i).proposed_irb}

\* Two conflicting blocks of the same number are never both proposed
\* irreversible, whatever the network hides: their confirmations would come
\* from two quorums, which share more producers than may lose their watermark.
ProposedAgree ==
  LET proposed == [i \in 1 .. Len(blocks) |-> ProposedBlock(i)]
  IN  \A i, j \in 1 .. Len(blocks) :
        Header(i).proposed_irb = Header(j).proposed_irb => proposed[i] = proposed[j]

\* A block a node has made is preferred to the head it was built on, so that
\* commit_block's assertion holds (controller.cpp:1879), and the double-confirm
\* check of next() never stops an honest producer.
ProducedBecomesHead ==
  /\ \A i \in 2 .. Len(blocks) : Preferred(i, blocks[i].parent)
  /\ \A p \in Members(Schedule), i \in 1 .. Len(blocks) :
       now > Header(i).slot /\ p = get_scheduled_producer(Header(i), now)
       /\ MayAdopt(p, i) /\ MayProduce(p, i) => CanNext(Header(i), now, blocks_to_confirm(p, i))
=============================================================================
