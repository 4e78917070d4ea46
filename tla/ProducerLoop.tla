---------------------------- MODULE ProducerLoop ----------------------------
(***************************************************************************)
(* The production loop of producer_plugin: start_block's choice between    *)
(* producing and speculating, the one timer with its correlation ids, and  *)
(* everything that restarts the loop: timers, blocks, pause and resume,    *)
(* runtime options, snapshots and integrity hashes.                        *)
(*                                                                         *)
(* Time is counted in ticks, Interval ticks to a block; block times are    *)
(* multiples of Interval.  The node has one producer, number Us of a       *)
(* schedule of Producers producers that take turns of Repetitions slots.   *)
(* The application's queue is external: of the handlers that wait, one of  *)
(* the highest priority runs first.  Timers and the blocks of net_plugin   *)
(* have the same priority and API calls a lower one.  A tick passes only   *)
(* when no timer is due and no handler waits: handlers are short compared  *)
(* to a tick.                                                              *)
(***************************************************************************)
EXTENDS Integers

CONSTANTS
  Interval,     \* block_interval_us, in ticks
  Producers,    \* number of producers in the active schedule
  Us,           \* index of this node's producer in it
  Repetitions,  \* producer_repetitions
  Early,        \* how long before its time a block is due: -_produce_time_offset_us
  EarlyLast,    \* the same for the last block of a turn: -_last_block_time_offset_us
  MaxHeadAge,   \* 5 seconds, in ticks
  StartTimes,   \* clock values at which the node starts, with a head at time 0
  MaxTime,      \* bound on the clock
  MaxNum,       \* bound on block numbers
  MaxFailures,  \* bound on the failures of chain.start_block and produce_block
  NoTimer,      \* the timer is not armed
  NotBuilding   \* there is no pending block

ASSUME LoopAssumption ==
  /\ {Interval, Producers, Repetitions} \subseteq Nat \ {0}
  /\ Us \in 0 .. Producers - 1
  /\ {Early, EarlyLast} \subseteq 1 .. Interval
  /\ StartTimes \subseteq 0 .. MaxTime
  /\ {MaxHeadAge, MaxTime, MaxNum, MaxFailures} \subseteq Nat
  /\ NotBuilding \notin Int
  /\ NoTimer \notin [at : Int, does : {"loop", "produce"}]

VARIABLES
  now,        \* the clock
  head,       \* number and time of the head block
  watermark,  \* number and time of the last block of this producer, zeros if none
  enabled,    \* _production_enabled
  paused,     \* _pause_production
  libOld,     \* the irreversible block is older than _max_irreversible_block_age_us
  mode,       \* _pending_block_mode
  building,   \* the pending block's time, or NotBuilding
  timer,      \* the armed timer: when it expires and what its handler does
  posted,     \* handlers that wait in the application's queue
  failures,   \* failures so far
  clear,      \* nothing has kept the producer from its block since its slot began
  refused     \* an assertion of produce_block failed

vars == <<now, head, watermark, enabled, paused, libOld, mode, building, timer, posted,
          failures, clear, refused>>

Modes == {"producing", "speculating"}
-----------------------------------------------------------------------------
Larger(a, b) == IF a > b THEN a ELSE b

SlotOf(time) == time \div Interval

\* get_scheduled_producer
Scheduled(slot) == (slot % (Producers * Repetitions)) \div Repetitions

IsOurs(time) == Scheduled(SlotOf(time)) = Us

\* calculate_pending_block_time
PendingTime(t, h) ==
  LET base == Larger(t, h.time) IN base + (Interval - (base % Interval))

\* calculate_block_deadline
Deadline(time) ==
  time - (IF SlotOf(time) % Repetitions = Repetitions - 1 THEN EarlyLast ELSE Early)

(* The loop is described as a function of the state s its caller leaves: a    *)
(* record of head, watermark, enabled, paused, libOld, mode and building.     *)

\* calculate_next_block_time: the first slot of this producer after the one of
\* the reference time that its watermark allows.
MinimumOffset(s, ref) ==
  LET num == IF s.building = NotBuilding THEN s.head.num ELSE s.head.num + 1
      byNum == IF s.watermark.num > num THEN s.watermark.num - num + 1 ELSE 1
  IN IF s.watermark.time > ref
     THEN Larger(byNum, SlotOf(s.watermark.time) - SlotOf(ref) + 1) ELSE byNum

NextSlot_Misaligned(s, ref) ==
  LET minimum == SlotOf(ref) + MinimumOffset(s, ref)
      at == Scheduled(minimum)
      distance == IF Us >= at THEN Us - at ELSE Us - at + Producers
  IN IF at = Us THEN minimum ELSE minimum + distance * Repetitions + 1

NextSlot(s, ref) ==
  LET minimum == SlotOf(ref) + MinimumOffset(s, ref)
      at == Scheduled(minimum)
      distance == IF Us >= at THEN Us - at ELSE Us - at + Producers
  IN IF at = Us THEN minimum
     ELSE minimum - (minimum % Repetitions) + distance * Repetitions

\* calculate_producer_wake_up_time: one interval before that block's time.
WakeUp(s, ref) == (NextSlot(s, ref) - 1) * Interval

\* production_disabled_by_policy
Disabled(s) == ~s.enabled \/ s.paused \/ s.libOld

ModeFor_NoWatermark(s, time) ==
  IF IsOurs(time) /\ ~Disabled(s) THEN "producing" ELSE "speculating"

\* start_block's choice.
Eligible(s, time) ==
  /\ IsOurs(time) /\ ~Disabled(s)
  /\ s.watermark.num <= s.head.num
  /\ s.watermark.time < time

ModeFor(s, time) == IF Eligible(s, time) THEN "producing" ELSE "speculating"

LoopAt(time) == [at |-> time, does |-> "loop"]

\* When a block that is being produced is shipped off.
ShipAt(time) ==
  [at |-> IF Deadline(time) > now THEN Deadline(time) ELSE Larger(now, time - Interval),
   does |-> "produce"]

\* The change between speculating and producing, if this node may produce.
ChangeAt(s, ref) == IF Disabled(s) THEN NoTimer ELSE LoopAt(WakeUp(s, ref))

Outcome(md, b, t) == [mode |-> md, building |-> b, timer |-> t]

TooEarly(md, time) == md = "producing" /\ now < time - Interval

\* schedule_production_loop, when chain.start_block succeeds or fails.
schedule_production_loop(s, succeeds) ==
  LET time == PendingTime(now, s.head)
      md == ModeFor(s, time)
  IN IF md = "speculating" /\ now - s.head.time > MaxHeadAge
     THEN Outcome(md, s.building, ChangeAt(s, time))                          \* waiting_for_block
     ELSE IF TooEarly(md, time)
     THEN Outcome(md, s.building, LoopAt(WakeUp(s, time - Interval)))         \* waiting_for_production
     ELSE IF md = "speculating" /\ s.mode = "producing"
     THEN Outcome(md, s.building, LoopAt(time - Interval))                    \* waiting_for_production
     ELSE IF ~succeeds
     THEN Outcome(md, NotBuilding, LoopAt(now + 1))                           \* failed
     ELSE Outcome(md, time, IF md = "producing" THEN ShipAt(time)
                            ELSE ChangeAt([s EXCEPT !.building = time], time))

\* A new async_wait changes the correlation id: the handlers that wait in the
\* queue are stale.  A timer that is cancelled and not set again leaves them.
Outdate(handlers, t) ==
  IF t = NoTimer THEN handlers ELSE {[h EXCEPT !.fresh = FALSE] : h \in handlers}

\* A handler ends with schedule_production_loop; handlers still wait.
Reschedule(s, handlers) ==
  \E succeeds \in IF failures < MaxFailures THEN BOOLEAN ELSE {TRUE} :
    \E r \in {schedule_production_loop(s, succeeds)} :
       /\ mode' = r.mode /\ building' = r.building /\ timer' = r.timer
       /\ posted' = Outdate(handlers, r.timer)
       /\ failures' = IF succeeds THEN failures ELSE failures + 1
       /\ clear' = (clear /\ succeeds /\ Eligible(s, PendingTime(now, s.head)))

Current == [head |-> head, watermark |-> watermark, enabled |-> enabled, paused |-> paused,
            libOld |-> libOld, mode |-> mode, building |-> building]

Aborted == [Current EXCEPT !.building = NotBuilding]
-----------------------------------------------------------------------------
(* The timer *)

Due == timer # NoTimer /\ timer.at <= now

Fire ==
  /\ Due
  /\ posted' = posted \cup {[does |-> timer.does, fresh |-> TRUE]}
  /\ timer' = NoTimer
  /\ UNCHANGED <<now, head, watermark, enabled, paused, libOld, mode, building, failures, clear,
                 refused>>

\* The correlation id of the handler is not the last one.
RunStale(h) ==
  /\ h \in posted /\ ~h.fresh
  /\ posted' = posted \ {h}
  /\ UNCHANGED <<now, head, watermark, enabled, paused, libOld, mode, building, timer, failures,
                 clear, refused>>

RunLoop(h) ==
  /\ h \in posted /\ h.fresh /\ h.does = "loop"
  /\ Reschedule(Current, posted \ {h})
  /\ UNCHANGED <<now, head, watermark, enabled, paused, libOld, refused>>

\* The assertions of produce_block.
CanProduce == mode = "producing" /\ building # NotBuilding

\* maybe_produce_block: produce_block, then the loop again.  The header of the
\* new block raises the watermark (on_block_header).
RunProduce(h) ==
  /\ h \in posted /\ h.fresh /\ h.does = "produce" /\ CanProduce
  /\ head.num < MaxNum
  /\ head' = [num |-> head.num + 1, time |-> building]
  /\ watermark' = [num |-> Larger(watermark.num, head'.num), time |-> Larger(watermark.time, building)]
  /\ Reschedule([Aborted EXCEPT !.head = head', !.watermark = watermark'], posted \ {h})
  /\ UNCHANGED <<now, enabled, paused, libOld, refused>>

\* produce_block fails, on an assertion or while it signs: the block is aborted.
FailProduce(h) ==
  /\ h \in posted /\ h.fresh /\ h.does = "produce"
  /\ CanProduce => failures < MaxFailures
  /\ refused' = (refused \/ ~CanProduce)
  /\ failures' = IF CanProduce THEN failures + 1 ELSE failures
  /\ LET r == schedule_production_loop(Aborted, TRUE)
     IN /\ mode' = r.mode /\ building' = r.building /\ timer' = r.timer
        /\ posted' = Outdate(posted \ {h}, r.timer)
  /\ clear' = FALSE
  /\ UNCHANGED <<now, head, watermark, enabled, paused, libOld>>
-----------------------------------------------------------------------------
(* Blocks and API calls *)

Dropping_Never == FALSE

\* on_incoming_block drops a block that arrives while the node is producing.
Dropping == mode = "producing"

\* A block of a valid header arrives.  If it is applied, it is the head: it
\* extends the head, or is on a fork with the same number.  A block of our own
\* producer, from another node or an earlier run, raises the watermark.
ReceiveBlock(num, time, applied, old) ==
  /\ ~Dropping /\ (old => applied)
  /\ head.time < time /\ time <= now + Interval /\ num \in 2 .. MaxNum
  /\ head' = IF applied THEN [num |-> num, time |-> time] ELSE head
  /\ watermark' = IF IsOurs(time)
                  THEN [num |-> Larger(watermark.num, num), time |-> Larger(watermark.time, time)]
                  ELSE watermark
  /\ enabled' = (enabled \/ (applied /\ time + Interval >= now))
  /\ libOld' = IF applied THEN old ELSE libOld
  /\ Reschedule([Aborted EXCEPT !.head = head', !.watermark = watermark', !.enabled = enabled',
                                !.libOld = libOld'], posted)
  /\ UNCHANGED <<now, paused, refused>>

ApiRuns == posted = {}

Pause ==
  /\ ApiRuns /\ ~paused
  /\ paused' = TRUE
  /\ clear' = FALSE
  /\ UNCHANGED <<now, head, watermark, enabled, libOld, mode, building, timer, posted, failures,
                 refused>>

\* resume evaluates the mode again, unless the node is producing.
Resume ==
  /\ ApiRuns /\ paused
  /\ paused' = FALSE
  /\ IF mode = "speculating"
     THEN Reschedule([Aborted EXCEPT !.paused = FALSE], posted)
     ELSE UNCHANGED <<mode, building, timer, posted, failures, clear>>
  /\ UNCHANGED <<now, head, watermark, enabled, libOld, refused>>

\* update_runtime_options changes the maximum age of the irreversible block.
UpdateOptions(old) ==
  /\ ApiRuns /\ libOld # old
  /\ libOld' = old
  /\ IF mode = "speculating"
     THEN Reschedule([Aborted EXCEPT !.libOld = old], posted)
     ELSE clear' = (clear /\ ~old) /\ UNCHANGED <<mode, building, timer, posted, failures>>
  /\ UNCHANGED <<now, head, watermark, enabled, paused, refused>>

\* get_integrity_hash and create_snapshot abort a pending block.
AbortForState ==
  /\ ApiRuns /\ building # NotBuilding
  /\ Reschedule(Aborted, posted)
  /\ UNCHANGED <<now, head, watermark, enabled, paused, libOld, refused>>
-----------------------------------------------------------------------------
\* The irreversible block may get too old.  clear starts to hold at the start of
\* a slot in which nothing forbids the producer to build a block.
Tick ==
  /\ now < MaxTime /\ ~Due /\ posted = {}
  /\ now' = now + 1
  /\ libOld' \in {libOld, TRUE}
  /\ clear' = (/\ clear \/ now' % Interval = 0
               /\ Eligible([Current EXCEPT !.libOld = libOld'], PendingTime(now', head)))
  /\ UNCHANGED <<head, watermark, enabled, paused, mode, building, timer, posted, failures, refused>>

\* plugin_startup, with or without enable-stale-production.
Init ==
  /\ now \in StartTimes /\ head = [num |-> 1, time |-> 0] /\ watermark = [num |-> 0, time |-> 0]
  /\ enabled \in BOOLEAN /\ paused = FALSE /\ libOld \in BOOLEAN
  /\ posted = {} /\ failures = 0 /\ clear = FALSE /\ refused = FALSE
  /\ LET s == [head |-> head, watermark |-> watermark, enabled |-> enabled, paused |-> paused,
               libOld |-> libOld, mode |-> "speculating", building |-> NotBuilding]
         r == schedule_production_loop(s, TRUE)
     IN mode = r.mode /\ building = r.building /\ timer = r.timer

Next ==
  \/ Fire
  \/ \E h \in posted : RunStale(h) \/ RunLoop(h) \/ RunProduce(h) \/ FailProduce(h)
  \/ \E num \in {head.num, head.num + 1}, slot \in SlotOf(head.time) + 1 .. SlotOf(now) + 1, applied, old \in BOOLEAN :
       ReceiveBlock(num, slot * Interval, applied, old)
  \/ Pause
  \/ Resume
  \/ \E old \in BOOLEAN : UpdateOptions(old)
  \/ AbortForState
  \/ Tick

Spec == Init /\ [][Next]_vars
-----------------------------------------------------------------------------
TypeOK ==
  /\ now \in 0 .. MaxTime
  /\ {head, watermark} \subseteq [num : 0 .. MaxNum, time : 0 .. MaxTime + Interval]
  /\ mode \in Modes
  /\ building = NotBuilding \/ (building % Interval = 0 /\ building > head.time)
  /\ timer = NoTimer \/ timer.does \in {"loop", "produce"}

\* The loop never dies: as long as the node is allowed to produce, a timer is
\* armed or a handler that will run the loop waits, whatever blocks, API calls
\* and failures cancelled timers before (schedule_production_loop cancels the
\* timer first and then sets it on some of its paths only).
LoopAlive ==
  ~Disabled(Current) => timer # NoTimer \/ \E h \in posted : h.fresh

\* produce_block never finds its assertions violated: when the handler that
\* produces runs, the node is still producing and the block it was armed for is
\* still pending (maybe_produce_block, on_incoming_block, the correlation id).
NeverRefused == ~refused

\* Both together: the loop goes on, and when it produces it can.
LoopSound == LoopAlive /\ NeverRefused

\* A block that nothing kept the producer from is produced before its time:
\* the node wakes up for its slot wherever the loop stood before
\* (calculate_next_block_time, calculate_producer_wake_up_time).
ProducesInTurn ==
  [][now' # now /\ now' % Interval = 0 /\ clear => head.time >= now']_vars

\* The producer signs only blocks of its slots, at most one interval ahead, and
\* never at or below the number or the time of a block it knows it signed,
\* though the watermark is read when the block is started and the block is
\* signed when a timer fires.
SignsForward ==
  [][mode = "producing" /\ head' # head =>
       /\ IsOurs(building) /\ building <= now + Interval
       /\ head.num + 1 > watermark.num /\ building > watermark.time]_vars
=============================================================================
