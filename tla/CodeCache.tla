----------------------------- MODULE CodeCache -----------------------------
(***************************************************************************)
(* Contract code from setcode to execution.  setcode (eosio_contract.cpp)  *)
(* keeps one reference-counted code_object per code; wasm_interface caches *)
(* the modules it has instantiated and drops what was last used at or      *)
(* before the last irreversible block; and the optimized compiler's tier   *)
(* (eos-vm-oc/code_cache.cpp) keeps compiled code in a memory-mapped file  *)
(* whose allocator only the compile monitor, another process, may touch    *)
(* while nodeos runs.  The two talk over a pair of sockets:                *)
(*                                                                         *)
(*   main thread -- compile, evict --> monitor session --> compile tasks   *)
(*   main thread <- _result_queue <- reply thread <-- result -- session    *)
(*                                                                         *)
(* A descriptor of compiled code is used without asking the monitor, so    *)
(* everything rests on both sides agreeing on which parts of the file are  *)
(* in use, across evictions, shutdown and restart.                         *)
(*                                                                         *)
(* The file is a set of Slots; a compiled code takes one, and so does the  *)
(* index of descriptors that shutdown writes into it.                      *)
(***************************************************************************)
EXTENDS Naturals, FiniteSets, Sequences, SequencesExt

CONSTANTS
  Accounts, Codes,
  NoCode,           \* the all-zeros code hash
  Slots,            \* what the allocator of the cache file hands out
  Free, IndexData,  \* a slot not in use; a slot that holds the stored index
  Threads,          \* eosvmoc_config.threads
  Threshold,        \* _free_bytes_eviction_threshold
  EvictBatch,       \* descriptors given up in one eviction round (25)
  MaxBlock,         \* bound on the block number
  MaxStops,         \* bound on how often nodeos stops
  MonitorMayDie     \* whether the monitor process may be killed

CodeCacheAssumption ==
  /\ Threads \in Nat \ {0}
  /\ {Threshold, EvictBatch, MaxBlock, MaxStops} \subseteq Nat
  /\ IsFiniteSet(Slots) /\ Slots # {}
  /\ NoCode \notin Codes /\ {Free, IndexData} \cap Codes = {}
  /\ MonitorMayDie \in BOOLEAN

VARIABLES
  code_hash,    \* account_metadata_object: the code of every account
  head, lib,    \* block numbers
  modules,      \* wasm_instantiation_cache: code -> last_block_num_used
  cc,           \* the code_cache_async object
  results,      \* _result_queue
  toMonitor, toNode,   \* the messages in the sockets
  session,      \* the monitor's end: its state and its current_compiles
  mem,          \* the cache file: slot -> the code compiled into it
  header,       \* the code_cache_header
  node,         \* whether nodeos runs, is shutting the cache down or is down
  stops,
  lost          \* slots nobody will ever deallocate (a history variable)

chain == <<code_hash, head, lib>>
vars == <<code_hash, head, lib, modules, cc, results, toMonitor, toNode, session, mem, header, node, stops, lost>>

Forever == MaxBlock + 2      \* UINT32_MAX as a last_block_num_used

OnChain == {code_hash[a] : a \in Accounts} \ {NoCode}

-----------------------------------------------------------------------------
(* Descriptors and messages *)

Descriptor == [code : Codes, slot : Slots]

Compile(c) == [type |-> "compile", code |-> c]
Evict(cds) == [type |-> "evict", codes |-> cds]
Eof == [type |-> "eof"]

Result(c, r, free) == [type |-> "result", code |-> c, result |-> r, cache_free_bytes |-> free]
UnknownFailure == [failed |-> "unknownfailure"]
TooFull == [failed |-> "toofull"]

FreeSlots(m) == {s \in Slots : m[s] = Free}
free_memory(m) == Cardinality(FreeSlots(m))
deallocate(m, slots) == [s \in Slots |-> IF s \in slots THEN Free ELSE m[s]]

SlotsOf(cds) == {cd.slot : cd \in ToSet(cds)}
CodesOf(cds) == {cd.code : cd \in ToSet(cds)}

-----------------------------------------------------------------------------
(* code_cache.cpp: what the main thread computes.  A state s is the cache   *)
(* object with the messages it has written so far.                          *)

Connected == node = "running" /\ session.state = "alive"

\* A message to a monitor that is gone is not delivered; what it would have
\* deallocated stays allocated.
Undelivered(msg) == IF msg.type = "evict" THEN SlotsOf(msg.codes) ELSE {}

Send(s, msg) == IF Connected THEN [s EXCEPT !.sent = Append(@, msg)] ELSE [s EXCEPT !.lost = @ \cup Undelivered(msg)]

run_eviction_round(s) ==
  LET kept == IF Len(s.index) <= 1 THEN Len(s.index)
              ELSE IF Len(s.index) - 1 <= EvictBatch THEN 1 ELSE Len(s.index) - EvictBatch
  IN Send([s EXCEPT !.index = SubSeq(@, 1, kept)], Evict(SubSeq(s.index, kept + 1, Len(s.index))))

check_eviction_threshold(s, free_bytes) == IF free_bytes < Threshold THEN run_eviction_round(s) ELSE s

Poison(s, c) == c \in DOMAIN s.outstanding /\ s.outstanding[c]

Without(f, c) == [x \in DOMAIN f \ {c} |-> f[x]]
With(f, c, v) == [x \in DOMAIN f \cup {c} |-> IF x = c THEN v ELSE f[x]]

\* The visitor of consume_compile_thread_queue.
Accepted(s, r) ==
  IF r.result \in Descriptor THEN [s EXCEPT !.index = <<r.result>> \o @]
  ELSE IF r.result = TooFull THEN run_eviction_round(s)
  ELSE [s EXCEPT !.blacklist = @ \cup {r.code}]

\* A poisoned descriptor is dropped; nobody tells the monitor to deallocate it.
Dropped(s, r) == [s EXCEPT !.lost = @ \cup (IF r.result \in Descriptor THEN {r.result.slot} ELSE {})]

ConsumeResult_KeepsPoisoned(s, r) ==
  IF Poison(s, r.code) THEN Dropped(s, r) ELSE [Accepted(s, r) EXCEPT !.outstanding = Without(@, r.code)]

ConsumeResult(s, r) ==
  [(IF Poison(s, r.code) THEN Dropped(s, r) ELSE Accepted(s, r)) EXCEPT !.outstanding = Without(@, r.code)]

consume_compile_thread_queue(s) == FoldLeft(ConsumeResult, s, results)

\* The loop that starts up to n of the queued compiles: the states it may end
\* in, since a hash set's first element is any of them.  A write that fails
\* throws, which leaves the code both queued and outstanding.
RECURSIVE StartQueued(_, _)
StartQueued(s, n) ==
  IF n = 0 \/ s.queued = {} THEN {s}
  ELSE UNION { IF c \notin OnChain
               THEN StartQueued([s EXCEPT !.queued = @ \ {c}], n)
               ELSE IF ~Connected
               THEN {[s EXCEPT !.outstanding = With(@, c, FALSE), !.threw = TRUE]}
               ELSE StartQueued(Send([s EXCEPT !.outstanding = With(@, c, FALSE), !.queued = @ \ {c}], Compile(c)), n - 1)
             : c \in s.queued }

\* get_descriptor_for_code up to its look at the cache.
ProcessResults_NoneStarted(s) == {consume_compile_thread_queue(s)}

ProcessResults(s) ==
  IF DOMAIN s.outstanding = {} \/ results = <<>> THEN {s}
  ELSE StartQueued(check_eviction_threshold(consume_compile_thread_queue(s), Last(results).cache_free_bytes), Len(results))

\* If code is in the cache, bumps it to the front of the list.
Cached(s, c) == \E i \in DOMAIN s.index : s.index[i].code = c
Bumped(s, c) ==
  LET i == CHOOSE i \in DOMAIN s.index : s.index[i].code = c
  IN [s EXCEPT !.index = <<@[i]>> \o SubSeq(@, 1, i - 1) \o SubSeq(@, i + 1, Len(@))]

\* If code is not in cache, and not blacklisted, and not currently compiling:
\* kicks off the compile.
Kicked(s, c) ==
  CASE c \in s.blacklist -> s
    [] c \notin s.blacklist /\ c \in DOMAIN s.outstanding -> [s EXCEPT !.outstanding[c] = FALSE]
    [] c \notin s.blacklist \cup DOMAIN s.outstanding ->
         IF c \in s.queued THEN s
         ELSE IF Cardinality(DOMAIN s.outstanding) >= Threads THEN [s EXCEPT !.queued = @ \cup {c}]
         ELSE IF c \notin OnChain THEN s
         ELSE Send([s EXCEPT !.outstanding = With(@, c, FALSE)], Compile(c))

get_descriptor_for_code(s, c) ==
  { IF t.threw THEN t ELSE IF Cached(t, c) THEN Bumped(t, c) ELSE Kicked(t, c) : t \in ProcessResults(s) }

\* Gives up what is cached, queued or still being compiled of a code.
Uncached(s, c) ==
  IF ~Cached(s, c) THEN s
  ELSE LET i == CHOOSE i \in DOMAIN s.index : s.index[i].code = c
       IN Send([s EXCEPT !.index = SubSeq(@, 1, i - 1) \o SubSeq(@, i + 1, Len(@))], Evict(<<s.index[i]>>))

free_code(s, c) ==
  [Uncached(s, c) EXCEPT !.queued = @ \ {c},
                         !.outstanding = IF c \in DOMAIN @ THEN [@ EXCEPT ![c] = TRUE] ELSE @]

-----------------------------------------------------------------------------
(* The main thread *)

Working == [sent |-> <<>>, threw |-> FALSE, lost |-> {}] @@ cc

Become(s) ==
  /\ cc' = [index |-> s.index, queued |-> s.queued, outstanding |-> s.outstanding, blacklist |-> s.blacklist]
  /\ toMonitor' = toMonitor \o s.sent
  /\ lost' = lost \cup s.lost

NewCache(index) == [index |-> index, queued |-> {}, outstanding |-> <<>>, blacklist |-> {}]

\* get_instantiated_module
Instantiated(c) == IF c \in DOMAIN modules THEN modules ELSE With(modules, c, Forever)

\* wasm_interface::apply: runs the optimized code if there is any, or else the
\* module of the base runtime, instantiated on first use.
Apply(c) ==
  /\ node = "running" /\ c \in OnChain
  /\ \E s \in get_descriptor_for_code(Working, c) :
       /\ Become(s)
       /\ modules' = IF ~s.threw /\ Cached(s, c) THEN modules ELSE Instantiated(c)
  /\ results' = IF DOMAIN cc.outstanding = {} THEN results ELSE <<>>
  /\ UNCHANGED <<chain, toNode, session, mem, header, node, stops>>

\* apply_eosio_setcode: the code_object goes with its last reference.
LastReference(a) == code_hash[a] # NoCode /\ \A b \in Accounts \ {a} : code_hash[b] # code_hash[a]

code_block_num_last_used(c, block_num) == IF c \in DOMAIN modules THEN [modules EXCEPT ![c] = block_num] ELSE modules

SetCode(a, c) ==
  /\ node = "running" /\ c # code_hash[a]
  /\ code_hash' = [code_hash EXCEPT ![a] = c]
  /\ modules' = IF LastReference(a) THEN code_block_num_last_used(code_hash[a], head + 1) ELSE modules
  /\ UNCHANGED <<head, lib, cc, results, toMonitor, toNode, session, mem, header, node, stops, lost>>

AcceptBlock ==
  /\ node = "running" /\ head < MaxBlock
  /\ head' = head + 1
  /\ UNCHANGED <<code_hash, lib, modules, cc, results, toMonitor, toNode, session, mem, header, node, stops, lost>>

\* Anything last used before or on the LIB can be evicted.
OldModules(l) == {c \in DOMAIN modules : modules[c] <= l}

current_lib(l) ==
  /\ node = "running" /\ l \in lib + 1 .. head
  /\ lib' = l
  /\ Become(FoldLeft(free_code, Working, SetToSeq(OldModules(l))))
  /\ modules' = [c \in DOMAIN modules \ OldModules(l) |-> modules[c]]
  /\ UNCHANGED <<code_hash, head, results, toNode, session, mem, header, node, stops>>

-----------------------------------------------------------------------------
(* The compile monitor's session and the reply thread *)

IdleSession(state) == [state |-> state, compiling |-> {}, reading |-> TRUE]

Reply(msg) == toNode' = Append(toNode, msg)

\* kick_compile_off: the request goes to the trampoline, which forks a task; if
\* it cannot be written the answer is a failure.
KickCompileOff(c) ==
  /\ toMonitor # <<>> /\ Head(toMonitor) = Compile(c)
  /\ \/ session' = [session EXCEPT !.compiling = @ \cup {c}] /\ UNCHANGED toNode
     \/ Reply(Result(c, UnknownFailure, free_memory(mem))) /\ UNCHANGED session
  /\ UNCHANGED mem

EvictWasms ==
  /\ toMonitor # <<>> /\ Head(toMonitor).type = "evict"
  /\ mem' = deallocate(mem, SlotsOf(Head(toMonitor).codes))
  /\ UNCHANGED <<toNode, session>>

ConnectionDead ==
  /\ toMonitor # <<>> /\ Head(toMonitor) = Eof
  /\ session' = [session EXCEPT !.state = "closed", !.compiling = {}]
  /\ Reply(Eof)
  /\ UNCHANGED mem

\* read_message_from_nodeos
MonitorReads ==
  /\ session.state = "alive"
  /\ (\E c \in Codes : KickCompileOff(c)) \/ EvictWasms \/ ConnectionDead
  /\ toMonitor' = Tail(toMonitor)
  /\ UNCHANGED <<chain, modules, cc, results, header, node, stops, lost>>

\* read_message_from_compile_task: the task has answered, or has died without an
\* answer.  The free memory reported is that from before the allocation.
Compiled(c) ==
  IF FreeSlots(mem) = {}
  THEN Reply(Result(c, TooFull, free_memory(mem))) /\ UNCHANGED mem
  ELSE \E slot \in FreeSlots(mem) :
         /\ mem' = [mem EXCEPT ![slot] = c]
         /\ Reply(Result(c, [code |-> c, slot |-> slot], free_memory(mem)))

CompileFailed(c) == Reply(Result(c, UnknownFailure, free_memory(mem))) /\ UNCHANGED mem

CompileTaskEnds(c) ==
  /\ session.state = "alive" /\ c \in session.compiling
  /\ Compiled(c) \/ CompileFailed(c)
  /\ session' = [session EXCEPT !.compiling = @ \ {c}]
  /\ UNCHANGED <<chain, modules, cc, results, toMonitor, header, node, stops, lost>>

\* wait_on_compile_monitor_message, on the reply thread.  The queue takes two
\* results for every compile thread and refuses more.
ReplyThread ==
  /\ session.reading /\ toNode # <<>>
  /\ toNode' = Tail(toNode)
  /\ IF Head(toNode) = Eof
     THEN session' = [session EXCEPT !.reading = FALSE] /\ UNCHANGED results
     ELSE /\ results' = IF Len(results) < 2 * Threads THEN Append(results, Head(toNode)) ELSE results
          /\ UNCHANGED session
  /\ UNCHANGED <<chain, modules, cc, toMonitor, mem, header, node, stops, lost>>

\* The monitor process is killed.
MonitorDies ==
  /\ MonitorMayDie /\ session.state = "alive"
  /\ session' = [session EXCEPT !.state = "closed", !.compiling = {}]
  /\ Reply(Eof)
  /\ toMonitor' = <<>>
  /\ lost' = lost \cup UNION {Undelivered(toMonitor[i]) : i \in DOMAIN toMonitor}
  /\ UNCHANGED <<chain, modules, cc, results, mem, header, node, stops>>

-----------------------------------------------------------------------------
(* Shutdown and start *)

\* ~code_cache_async shuts the sending side down and waits for the reply thread.
BeginShutdown ==
  /\ node = "running" /\ stops < MaxStops
  /\ node' = "closing" /\ stops' = stops + 1
  /\ toMonitor' = IF session.state = "alive" THEN Append(toMonitor, Eof) ELSE toMonitor
  /\ UNCHANGED <<chain, modules, cc, results, toNode, session, mem, header, lost>>

\* ~code_cache_base allocates room for the index in the cache file itself and
\* gives up cached code, the least recently used first, until there is some.
RECURSIVE StoreIndex(_, _)
StoreIndex(index, m) ==
  IF index = <<>> THEN [index |-> <<>>, at |-> {}, mem |-> m]
  ELSE IF FreeSlots(m) # {}
  THEN LET slot == CHOOSE slot \in FreeSlots(m) : TRUE
       IN [index |-> index, at |-> {slot}, mem |-> [m EXCEPT ![slot] = IndexData]]
  ELSE LET kept == IF Len(index) <= EvictBatch THEN 0 ELSE Len(index) - EvictBatch
       IN StoreIndex(SubSeq(index, 1, kept), deallocate(m, SlotsOf(SubSeq(index, kept + 1, Len(index)))))

Shut(s, stored) ==
  /\ mem' = stored.mem
  /\ header' = [dirty |-> FALSE, at |-> stored.at, index |-> stored.index]
  /\ lost' = lost \cup s.lost

EndShutdown ==
  /\ node = "closing" /\ ~session.reading
  /\ LET s == consume_compile_thread_queue(Working) IN Shut(s, StoreIndex(s.index, mem))
  /\ node' = "down" /\ cc' = NewCache(<<>>) /\ modules' = <<>>
  /\ results' = <<>> /\ toMonitor' = <<>> /\ toNode' = <<>>
  /\ UNCHANGED <<chain, session, stops>>

\* nodeos is killed, and the monitor and its tasks die with it.
Crash ==
  /\ node # "down" /\ stops < MaxStops
  /\ stops' = stops + 1
  /\ node' = "down" /\ cc' = NewCache(<<>>) /\ modules' = <<>>
  /\ results' = <<>> /\ toMonitor' = <<>> /\ toNode' = <<>>
  /\ session' = IdleSession("closed")
  /\ UNCHANGED <<chain, mem, header, lost>>

\* code_cache_base's constructor refuses a dirty file.
Start ==
  /\ node = "down" /\ ~header.dirty
  /\ node' = "running"
  /\ cc' = NewCache(header.index)
  /\ mem' = deallocate(mem, header.at)
  /\ header' = [header EXCEPT !.dirty = TRUE]
  /\ session' = IdleSession("alive")
  /\ UNCHANGED <<chain, modules, results, toMonitor, toNode, stops, lost>>

NewHeader == [dirty |-> FALSE, at |-> {}, index |-> <<>>]
NewFile == [slot \in Slots |-> Free]

\* The operator deletes a file that was left dirty; the next start makes a new one.
RemoveFile ==
  /\ node = "down" /\ header.dirty
  /\ mem' = NewFile /\ header' = NewHeader /\ lost' = {}
  /\ UNCHANGED <<chain, modules, cc, results, toMonitor, toNode, session, node, stops>>

-----------------------------------------------------------------------------
Init ==
  /\ code_hash = [a \in Accounts |-> NoCode]
  /\ head = 1 /\ lib = 0
  /\ modules = <<>> /\ cc = NewCache(<<>>) /\ results = <<>>
  /\ toMonitor = <<>> /\ toNode = <<>>
  /\ session = IdleSession("closed")
  /\ mem = NewFile /\ header = NewHeader
  /\ node = "down" /\ stops = 0 /\ lost = {}

Next ==
  \/ \E c \in Codes : Apply(c) \/ CompileTaskEnds(c)
  \/ \E a \in Accounts, c \in Codes \cup {NoCode} : SetCode(a, c)
  \/ \E l \in 1..MaxBlock : current_lib(l)
  \/ AcceptBlock \/ MonitorReads \/ ReplyThread \/ MonitorDies
  \/ BeginShutdown \/ EndShutdown \/ Crash \/ Start \/ RemoveFile

Spec == Init /\ [][Next]_vars

\* Every process keeps running, and every contract keeps being called.
Fairness ==
  /\ \A c \in Codes : WF_vars(Apply(c)) /\ WF_vars(CompileTaskEnds(c))
  /\ WF_vars(MonitorReads) /\ WF_vars(ReplyThread)
  /\ WF_vars(Start)

FairSpec == Spec /\ Fairness
-----------------------------------------------------------------------------
(* What the code cache promises *)

\* Who answers for a slot: a descriptor in the index, in a result on its way to
\* the index, in an eviction on its way to the monitor, or in the stored index.
IsDescriptor(msg) == msg.type = "result" /\ msg.result \in Descriptor

Holders ==
  {[at |-> <<"index", i>>, cd |-> cc.index[i]] : i \in DOMAIN cc.index}
  \cup {[at |-> <<"result", i>>, cd |-> results[i].result] : i \in {i \in DOMAIN results : IsDescriptor(results[i])}}
  \cup {[at |-> <<"reply", i>>, cd |-> toNode[i].result] : i \in {i \in DOMAIN toNode : IsDescriptor(toNode[i])}}
  \cup UNION {{[at |-> <<"evict", i, j>>, cd |-> toMonitor[i].codes[j]] : j \in DOMAIN toMonitor[i].codes}
               : i \in {i \in DOMAIN toMonitor : toMonitor[i].type = "evict"}}
  \cup (IF node = "down" THEN {[at |-> <<"stored", i>>, cd |-> header.index[i]] : i \in DOMAIN header.index} ELSE {})

\* The cache is in use, or can be used by the next start.
Usable == node # "down" \/ ~header.dirty

\* Compiled code is executed from where its descriptor points without asking the
\* monitor.  Whatever the order of compiles, evictions, shutdowns, crashes and
\* starts, that place still holds that code, and no other descriptor points to
\* it: nothing is used after it was deallocated, nothing is deallocated twice.
SlotsOwnedOnce ==
  Usable => \A h \in Holders : /\ mem[h.cd.slot] = h.cd.code
                              /\ h.cd.slot \notin lost \cup (IF node = "down" THEN header.at ELSE {})
                              /\ \A k \in Holders \ {h} : k.cd.slot # h.cd.slot

\* Whatever is allocated in the file is accounted for, so that it will be
\* deallocated one day.  The exceptions are the ones the code makes: a compile
\* that was poisoned while it ran, and evictions nobody was there to receive.
NothingElseLost ==
  Usable => \A slot \in Slots \ lost :
              mem[slot] \in Codes => \E h \in Holders : h.cd.slot = slot

\* What is on its way between nodeos and the monitor about a code.
Underway(c) ==
  {<<"asked", i>> : i \in {i \in DOMAIN toMonitor : toMonitor[i] = Compile(c)}}
  \cup {<<"compiling">> : x \in session.compiling \cap {c}}
  \cup {<<"reply", i>> : i \in {i \in DOMAIN toNode : toNode[i].type = "result" /\ toNode[i].code = c}}
  \cup {<<"result", i>> : i \in {i \in DOMAIN results : results[i].code = c}}

\* A compile is outstanding exactly as long as one request, task or answer for it
\* is underway.  So no code is compiled twice, and the fixed-size queue of
\* results, whose push nobody checks, never overflows.
OneAnswerEach ==
  Connected => \A c \in Codes : Cardinality(Underway(c)) = (IF c \in DOMAIN cc.outstanding THEN 1 ELSE 0)

\* Queued compiles are only looked at when a result arrives: they wait only while
\* as many compiles are outstanding as there are threads, and a code waits in
\* one place only.
QueueMoves ==
  Connected =>
    /\ cc.queued # {} => Cardinality(DOMAIN cc.outstanding) = Threads
    /\ Cardinality(DOMAIN cc.outstanding) <= Threads
    /\ cc.queued \cap DOMAIN cc.outstanding = {}
    /\ (cc.queued \cup DOMAIN cc.outstanding) \cap (CodesOf(cc.index) \cup cc.blacklist) = {}

\* "indicate the current LIB. evicts old cache entries": compiled code that is no
\* longer on the chain is known to wasm_interface with the block it was last
\* used in, so that the LIB reaching that block evicts it.
RemovedCodeIsEvicted ==
  \A c \in CodesOf(cc.index) \ OnChain : c \in DOMAIN modules /\ lib < modules[c] /\ modules[c] <= head + 1

\* Code on the chain that keeps being called is one day run by the optimized
\* compiler, unless compiling it failed: no request is forgotten in a queue.
Waiting(c) == node = "running" /\ c \in OnChain \ (CodesOf(cc.index) \cup cc.blacklist)
=============================================================================
