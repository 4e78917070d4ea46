------------------------------- MODULE MCNode -------------------------------
(***************************************************************************)
(* What a node does with transactions and time, for TLC.  A behaviour is   *)
(* one of the parts of Parts, chosen at the start; the variables of the    *)
(* others stay as they are.  The production loop and the way of            *)
(* transactions are the modules themselves, the other parts are instances: *)
(*                                                                         *)
(*  "loop": producer_plugin's production loop                              *)
(*  "flow": transactions between queues, pending block and blocks          *)
(*  "actions": the actions of one transaction                              *)
(*  "restarts", "evictions": the code cache, across restarts with two      *)
(*      codes, and with three codes that do not fit                        *)
(*                                                                         *)
(* The loop has two producers, two slots each, and two ticks to a slot;    *)
(* the node starts with a head that is fresh or too old.                   *)
(***************************************************************************)
EXTENDS ProducerLoop, TransactionFlow, TLC

CONSTANTS
  Parts,     \* the parts to explore
  a1, a2, System, c1, c2, c3, s1, s2, NoCode, Free, IndexData

VARIABLES
  part, paid, traces, stack, next, original, executed, status,
  code_hash, tip, lib, modules, cc, results, toMonitor, toNode, session, mem, header, node,
  stops, lost

Accounts == {a1, a2}

Actions == INSTANCE ActionOrder WITH MaxDepth <- 2, MaxInput <- 2, MaxTraces <- 5

OneAccount == {a1}
TwoCodes == {c1, c2}
ThreeCodes == {c1, c2, c3}
TwoSlots == {s1, s2}
Restarts == INSTANCE CodeCache WITH
  Codes <- TwoCodes, Slots <- TwoSlots, Threads <- 1, Threshold <- 1, EvictBatch <- 25,
  MaxBlock <- 2, MaxStops <- 2, MonitorMayDie <- TRUE, head <- tip
Evictions == INSTANCE CodeCache WITH
  Accounts <- OneAccount, Codes <- ThreeCodes, Slots <- TwoSlots, Threads <- 2, Threshold <- 1,
  EvictBatch <- 1, MaxBlock <- 2, MaxStops <- 0, MonitorMayDie <- FALSE, head <- tip

ASSUME
  /\ Actions!ActionOrderAssumption
  /\ Restarts!CodeCacheAssumption /\ Evictions!CodeCacheAssumption

\* Nothing tells transactions or codes apart.
Symmetric == Permutations(Trxs) \cup Permutations(ThreeCodes)

-----------------------------------------------------------------------------
action_vars == <<paid, traces, stack, next, original, executed, status>>
code_vars == <<code_hash, tip, lib, modules, cc, results, toMonitor, toNode, session, mem,
               header, node, stops, lost>>

all_vars == <<part, vars, flow_vars, action_vars, code_vars>>

\* The variables of a part that does not run.
Off == "off"
LoopOff == Init /\ now = 1 /\ enabled /\ ~libOld
TrxOff == FlowInit
ActionOff == /\ paid = Off /\ traces = Off /\ stack = Off /\ next = Off /\ original = Off
             /\ executed = Off /\ status = Off
CodeOff == /\ code_hash = Off /\ tip = Off /\ lib = Off /\ modules = Off /\ cc = Off /\ results = Off
           /\ toMonitor = Off /\ toNode = Off /\ session = Off /\ mem = Off /\ header = Off
           /\ node = Off /\ stops = Off /\ lost = Off

NodeInit ==
  /\ part \in Parts
  /\ \/ /\ part = "loop" /\ Init
        /\ TrxOff /\ ActionOff /\ CodeOff
     \/ /\ part = "flow" /\ FlowInit
        /\ LoopOff /\ ActionOff /\ CodeOff
     \/ /\ part = "actions" /\ Actions!Init
        /\ LoopOff /\ TrxOff /\ CodeOff
     \/ /\ part = "restarts" /\ Restarts!Init
        /\ LoopOff /\ TrxOff /\ ActionOff
     \/ /\ part = "evictions" /\ Evictions!Init
        /\ LoopOff /\ TrxOff /\ ActionOff

NodeNext ==
  \/ /\ part = "loop" /\ Next
     /\ UNCHANGED <<part, flow_vars, action_vars, code_vars>>
  \/ /\ part = "flow" /\ FlowNext
     /\ UNCHANGED <<part, vars, action_vars, code_vars>>
  \/ /\ part = "actions" /\ Actions!Next
     /\ UNCHANGED <<part, vars, flow_vars, code_vars>>
  \/ /\ part = "restarts" /\ Restarts!Next
     /\ UNCHANGED <<part, vars, flow_vars, action_vars>>
  \/ /\ part = "evictions" /\ Evictions!Next
     /\ UNCHANGED <<part, vars, flow_vars, action_vars>>

NodeSpec == NodeInit /\ [][NodeNext]_all_vars

-----------------------------------------------------------------------------
\* The actions of a transaction are executed once each, depth first and each
\* right after its fee, and the running code's act is that of the action that
\* runs although every scheduled action moves the vector (apply_context::exec,
\* transaction_context::exec).
ActionsOrdered ==
  part = "actions" =>
    /\ Actions!ActIsCurrent /\ Actions!EachExecutesOnce /\ Actions!FeeComesFirst
    /\ Actions!DepthFirst /\ Actions!AncestorIsClosest

\* nodeos and the compile monitor agree on what every part of the cache file
\* holds: no code is run from where another one is, nothing is lost but what
\* the code gives up, every compile is answered once, queued ones are started,
\* and code that left the chain is evicted (code_cache.cpp, compile_monitor.cpp).
CodeCacheSound ==
  /\ part = "restarts" =>
       /\ Restarts!SlotsOwnedOnce /\ Restarts!NothingElseLost
       /\ Restarts!OneAnswerEach /\ Restarts!QueueMoves
  /\ part = "evictions" =>
       /\ Evictions!SlotsOwnedOnce /\ Evictions!NothingElseLost
       /\ Evictions!OneAnswerEach /\ Evictions!QueueMoves /\ Evictions!RemovedCodeIsEvicted
=============================================================================
