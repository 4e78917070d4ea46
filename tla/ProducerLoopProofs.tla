------------------------- MODULE ProducerLoopProofs -------------------------
(***************************************************************************)
(* The production loop, for every schedule, interval and offset.           *)
(*                                                                         *)
(* LoopInv is the inductive invariant.  At most one handler of the queue   *)
(* is fresh, and none while a timer is armed.  From the moment the timer   *)
(* is set to ship a block until its handler runs, the node stays producing *)
(* that block, and the block stays one it may sign: blocks are dropped     *)
(* while it is producing, and everything else that would move the head or  *)
(* the watermark replaces the timer too.                                   *)
(***************************************************************************)
EXTENDS ProducerLoop, TLAPS

Headers == [num : Int, time : Int]

Timers == [at : Int, does : {"loop", "produce"}]

Handlers == [does : {"loop", "produce"}, fresh : BOOLEAN]

States == [head : Headers, watermark : Headers, enabled : BOOLEAN, paused : BOOLEAN,
           libOld : BOOLEAN, mode : Modes, building : Int \cup {NotBuilding}]

LoopTypes ==
  /\ now \in Int /\ Current \in States
  /\ timer \in Timers \cup {NoTimer} /\ posted \subseteq Handlers

\* A block is to be shipped: by the armed timer, or by a handler that waits.
Shipping ==
  \/ timer # NoTimer /\ timer.does = "produce"
  \/ \E h \in posted : h.fresh /\ h.does = "produce"

\* The pending block is one this producer may sign.
Signable ==
  /\ CanProduce
  /\ IsOurs(building) /\ building <= now + Interval
  /\ watermark.num <= head.num /\ watermark.time < building

LoopInv ==
  /\ LoopTypes /\ NeverRefused
  /\ \A g, h \in posted : g.fresh /\ h.fresh => g = h
  /\ timer # NoTimer => \A h \in posted : ~h.fresh
  /\ mode = "producing" \/ ~Disabled(Current) => timer # NoTimer \/ \E h \in posted : h.fresh
  /\ Shipping => Signable
-----------------------------------------------------------------------------
(* The loop *)

\* The times that the loop computes are integers.
LEMMA TimesAreInts ==
  ASSUME NEW s \in States, NEW t \in Int
  PROVE  PendingTime(t, s.head) \in Int /\ Deadline(t) \in Int /\ WakeUp(s, t) \in Int
<1>1. /\ Interval \in Nat \ {0} /\ Producers \in Nat \ {0} /\ Repetitions \in Nat \ {0}
      /\ Us \in Int /\ Early \in Int /\ EarlyLast \in Int
  BY LoopAssumption
<1>2. /\ s.head.num \in Int /\ s.head.time \in Int
      /\ s.watermark.num \in Int /\ s.watermark.time \in Int
  BY DEF States, Headers
<1>3. PendingTime(t, s.head) \in Int
  BY <1>1, <1>2, SMT DEF PendingTime, Larger
<1>4. \A n \in Int : SlotOf(n) \in Int
  BY <1>1, SMT DEF SlotOf
<1>5. Deadline(t) \in Int
  BY <1>1, SMT DEF Deadline
<1>6. MinimumOffset(s, t) \in Int
  <2> DEFINE num == IF s.building = NotBuilding THEN s.head.num ELSE s.head.num + 1
             byNum == IF s.watermark.num > num THEN s.watermark.num - num + 1 ELSE 1
  <2>1. num \in Int /\ byNum \in Int
    BY <1>2, SMT
  <2>2. SlotOf(s.watermark.time) - SlotOf(t) + 1 \in Int
    BY <1>2, <1>4, SMT
  <2> QED BY <2>1, <2>2 DEF MinimumOffset, Larger
<1>7. \A n \in Int : Scheduled(n) \in Int
  <2>1. Producers * Repetitions \in Nat \ {0}
    BY <1>1, SMT
  <2>2. \A n \in Int : n % (Producers * Repetitions) \in Int
    BY <2>1, SMT
  <2> QED BY <1>1, <2>2, SMT DEF Scheduled
<1>8. NextSlot(s, t) \in Int
  <2> DEFINE minimum == SlotOf(t) + MinimumOffset(s, t)
             at == Scheduled(minimum)
             distance == IF Us >= at THEN Us - at ELSE Us - at + Producers
  <2>1. minimum \in Int
    BY <1>4, <1>6, SMT
  <2>2. at \in Int
    BY <1>7, <2>1
  <2> HIDE DEF minimum, at
  <2>3. distance \in Int
    BY <1>1, <2>2, SMT
  <2> HIDE DEF distance
  <2>4. minimum - (minimum % Repetitions) + distance * Repetitions \in Int
    BY <1>1, <2>1, <2>3, SMT
  <2> QED BY <2>1, <2>4 DEF NextSlot, minimum, at, distance
<1>9. WakeUp(s, t) \in Int
  BY <1>1, <1>8, SMT DEF WakeUp
<1> QED BY <1>3, <1>5, <1>9

\* schedule_production_loop leaves a timer whenever the node produces or may
\* produce, and one that ships a block only with a block the node may sign.
LEMMA LoopOutcome ==
  ASSUME NEW s \in States, NEW succeeds \in BOOLEAN, now \in Int
  PROVE  LET r == schedule_production_loop(s, succeeds)
         IN /\ r.mode \in Modes /\ r.building \in Int \cup {NotBuilding}
            /\ r.timer \in Timers \cup {NoTimer}
            /\ r.mode = "producing" \/ ~Disabled(s) => r.timer # NoTimer
            /\ r.timer # NoTimer /\ r.timer.does = "produce" =>
                 /\ r.mode = "producing" /\ r.building \in Int
                 /\ Eligible(s, r.building) /\ r.building <= now + Interval
<1> DEFINE time == PendingTime(now, s.head)
           md == ModeFor(s, time)
           r == schedule_production_loop(s, succeeds)
           sb == [s EXCEPT !.building = time]
           Good(x) == /\ x.mode \in Modes /\ x.building \in Int \cup {NotBuilding}
                      /\ x.timer \in Timers \cup {NoTimer}
                      /\ x.mode = "producing" \/ ~Disabled(s) => x.timer # NoTimer
                      /\ x.timer # NoTimer /\ x.timer.does = "produce" =>
                           /\ x.mode = "producing" /\ x.building \in Int
                           /\ Eligible(s, x.building) /\ x.building <= now + Interval
<1> SUFFICES Good(r)
  OBVIOUS
<1>1. time \in Int /\ Interval \in Nat \ {0} /\ s.building \in Int \cup {NotBuilding}
  BY TimesAreInts, LoopAssumption DEF States
<1>2. md \in Modes /\ (md = "producing" => Eligible(s, time) /\ ~Disabled(s))
  BY DEF ModeFor, Modes, Eligible
<1>3. NoTimer \notin Timers /\ NotBuilding \notin Int
  BY LoopAssumption DEF Timers
<1>4. sb \in States /\ (Disabled(sb) <=> Disabled(s))
  BY <1>1 DEF States, Disabled
<1> HIDE DEF time, md, sb
<1>5. ASSUME NEW t \in Int PROVE LoopAt(t) \in Timers /\ LoopAt(t).does = "loop"
  BY DEF LoopAt, Timers
<1>6. ASSUME NEW x \in States, NEW t \in Int, Disabled(x) <=> Disabled(s)
      PROVE  /\ ChangeAt(x, t) \in Timers \cup {NoTimer}
             /\ ~Disabled(s) => ChangeAt(x, t) # NoTimer
             /\ ChangeAt(x, t) # NoTimer => ChangeAt(x, t).does = "loop"
  <2>1. WakeUp(x, t) \in Int
    BY TimesAreInts
  <2> QED BY <2>1, <1>3, <1>5, <1>6 DEF ChangeAt
<1>7. ShipAt(time) \in Timers
  <2>1. Deadline(time) \in Int
    BY <1>1, TimesAreInts
  <2>2. (IF Deadline(time) > now THEN Deadline(time) ELSE Larger(now, time - Interval)) \in Int
    BY <1>1, <2>1, SMT DEF Larger
  <2> QED BY <2>2 DEF ShipAt, Timers
<1>8. CASE md = "speculating" /\ now - s.head.time > MaxHeadAge
  <2>1. r = Outcome(md, s.building, ChangeAt(s, time))
    BY <1>8 DEF schedule_production_loop, time, md
  <2> QED BY <1>1, <1>2, <1>6, <1>8, <2>1 DEF Outcome
<1>9. CASE ~(md = "speculating" /\ now - s.head.time > MaxHeadAge) /\ TooEarly(md, time)
  <2>1. r = Outcome(md, s.building, LoopAt(WakeUp(s, time - Interval)))
    BY <1>9 DEF schedule_production_loop, time, md
  <2>2. time - Interval \in Int
    BY <1>1, SMT
  <2>3. WakeUp(s, time - Interval) \in Int
    BY <2>2, TimesAreInts
  <2> QED BY <1>1, <1>2, <1>3, <1>5, <2>1, <2>3 DEF Outcome
<1>10. CASE /\ ~(md = "speculating" /\ now - s.head.time > MaxHeadAge) /\ ~TooEarly(md, time)
            /\ md = "speculating" /\ s.mode = "producing"
  <2>1. r = Outcome(md, s.building, LoopAt(time - Interval))
    BY <1>10 DEF schedule_production_loop, time, md
  <2>2. time - Interval \in Int
    BY <1>1, SMT
  <2> QED BY <1>1, <1>2, <1>3, <1>5, <2>1, <2>2 DEF Outcome
<1>11. CASE /\ ~(md = "speculating" /\ now - s.head.time > MaxHeadAge) /\ ~TooEarly(md, time)
            /\ ~(md = "speculating" /\ s.mode = "producing") /\ ~succeeds
  <2>1. r = Outcome(md, NotBuilding, LoopAt(now + 1))
    BY <1>11 DEF schedule_production_loop, time, md
  <2>2. now + 1 \in Int
    BY SMT
  <2> QED BY <1>1, <1>2, <1>3, <1>5, <2>1, <2>2 DEF Outcome
<1>12. CASE /\ ~(md = "speculating" /\ now - s.head.time > MaxHeadAge) /\ ~TooEarly(md, time)
            /\ ~(md = "speculating" /\ s.mode = "producing") /\ succeeds
  <2>1. r = Outcome(md, time, IF md = "producing" THEN ShipAt(time) ELSE ChangeAt(sb, time))
    BY <1>12 DEF schedule_production_loop, time, md, sb
  <2>2. CASE md = "producing"
    <3>1. time <= now + Interval
      BY <1>1, <1>12, <2>2, SMT DEF TooEarly
    <3> QED BY <1>1, <1>2, <1>3, <1>7, <2>1, <2>2, <3>1 DEF Outcome
  <2>3. CASE md # "producing"
    BY <1>1, <1>2, <1>4, <1>6, <2>1, <2>3 DEF Outcome
  <2> QED BY <2>2, <2>3
<1> QED BY <1>8, <1>9, <1>10, <1>11, <1>12

\* Where the loop is restarted, from the state s its caller leaves and with no
\* handler waiting that ships a block, the invariant holds afterwards.
LEMMA Restart ==
  ASSUME NEW s \in States, NEW H \in SUBSET Handlers, NEW succeeds \in BOOLEAN,
         now \in Int, now' = now, ~refused',
         \A g, h \in H : g.fresh /\ h.fresh => g = h,
         \A h \in H : h.fresh => h.does = "loop",
         head' = s.head, watermark' = s.watermark, enabled' = s.enabled, paused' = s.paused,
         libOld' = s.libOld,
         mode' = schedule_production_loop(s, succeeds).mode,
         building' = schedule_production_loop(s, succeeds).building,
         timer' = schedule_production_loop(s, succeeds).timer,
         posted' = Outdate(H, schedule_production_loop(s, succeeds).timer)
  PROVE  LoopInv'
<1> DEFINE r == schedule_production_loop(s, succeeds)
<1>1. /\ mode' \in Modes /\ building' \in Int \cup {NotBuilding}
      /\ timer' \in Timers \cup {NoTimer}
      /\ mode' = "producing" \/ ~Disabled(s) => timer' # NoTimer
      /\ timer' # NoTimer /\ timer'.does = "produce" =>
           /\ mode' = "producing" /\ building' \in Int
           /\ Eligible(s, building') /\ building' <= now + Interval
  BY LoopOutcome
<1>2. posted' = Outdate(H, timer')
  OBVIOUS
<1>3. /\ posted' \subseteq Handlers
      /\ \A g, h \in posted' : g.fresh /\ h.fresh => g = h
      /\ timer' # NoTimer => \A h \in posted' : ~h.fresh
      /\ \A h \in posted' : h.fresh => h.does = "loop"
  <2>1. CASE timer' = NoTimer
    BY <1>2, <2>1 DEF Outdate
  <2>2. CASE timer' # NoTimer
    <3>1. posted' = {[h EXCEPT !.fresh = FALSE] : h \in H}
      BY <1>2, <2>2 DEF Outdate
    <3>2. ASSUME NEW g \in posted' PROVE g \in Handlers /\ ~g.fresh
      BY <3>1, Zenon DEF Handlers
    <3> QED BY <3>2
  <2> QED BY <2>1, <2>2
<1>4. /\ Current' \in States
      /\ Disabled(Current)' <=> Disabled(s)
  BY <1>1 DEF Current, States, Disabled
<1>5. LoopTypes' /\ NeverRefused'
  BY <1>1, <1>3, <1>4 DEF LoopTypes, NeverRefused
<1>6. Shipping' => timer' # NoTimer /\ timer'.does = "produce"
  BY <1>3 DEF Shipping
<1>7. Shipping' => Signable'
  <2> SUFFICES ASSUME Shipping' PROVE Signable'
    OBVIOUS
  <2>1. /\ mode' = "producing" /\ building' \in Int
        /\ Eligible(s, building') /\ building' <= now + Interval
    BY <1>1, <1>6
  <2>2. CanProduce'
    BY <2>1, LoopAssumption DEF CanProduce
  <2>3. IsOurs(building') /\ watermark'.num <= head'.num /\ watermark'.time < building'
    BY <2>1 DEF Eligible
  <2> QED BY <2>1, <2>2, <2>3 DEF Signable
<1> QED BY <1>1, <1>3, <1>4, <1>5, <1>7 DEF LoopInv

\* The same for a handler that ends with Reschedule.
LEMMA RescheduleRestarts ==
  ASSUME NEW s \in States, NEW H \in SUBSET Handlers, Reschedule(s, H),
         now \in Int, now' = now, ~refused',
         \A g, h \in H : g.fresh /\ h.fresh => g = h,
         \A h \in H : h.fresh => h.does = "loop",
         head' = s.head, watermark' = s.watermark, enabled' = s.enabled, paused' = s.paused,
         libOld' = s.libOld
  PROVE  LoopInv'
<1>1. PICK succeeds \in BOOLEAN :
        /\ mode' = schedule_production_loop(s, succeeds).mode
        /\ building' = schedule_production_loop(s, succeeds).building
        /\ timer' = schedule_production_loop(s, succeeds).timer
        /\ posted' = Outdate(H, schedule_production_loop(s, succeeds).timer)
  BY Zenon DEF Reschedule
<1> QED BY <1>1, Restart

\* plugin_startup
LEMMA LoopInit == Init => LoopInv
<1> SUFFICES ASSUME Init PROVE LoopInv
  OBVIOUS
<1> DEFINE s == [head |-> head, watermark |-> watermark, enabled |-> enabled, paused |-> paused,
                 libOld |-> libOld, mode |-> "speculating", building |-> NotBuilding]
           r == schedule_production_loop(s, TRUE)
<1>1. now \in Int
  BY LoopAssumption DEF Init
<1>2. s \in States
  <2>1. head \in Headers /\ watermark \in Headers
    BY DEF Init, Headers
  <2>2. enabled \in BOOLEAN /\ paused \in BOOLEAN /\ libOld \in BOOLEAN
    BY Zenon DEF Init
  <2> QED BY <2>1, <2>2 DEF States, Modes
<1>3. mode = r.mode /\ building = r.building /\ timer = r.timer
  BY DEF Init
<1>4. /\ mode \in Modes /\ building \in Int \cup {NotBuilding}
      /\ timer \in Timers \cup {NoTimer}
      /\ mode = "producing" \/ ~Disabled(s) => timer # NoTimer
      /\ timer # NoTimer /\ timer.does = "produce" =>
           /\ mode = "producing" /\ building \in Int
           /\ Eligible(s, building) /\ building <= now + Interval
  <2> HIDE DEF s
  <2> QED BY <1>1, <1>2, <1>3, LoopOutcome, Zenon
<1>5. Current \in States /\ (Disabled(Current) <=> Disabled(s))
  BY <1>2, <1>4 DEF Current, States, Disabled
<1>6. posted = {} /\ ~refused
  BY DEF Init
<1>7. Shipping => Signable
  BY <1>4, <1>6, LoopAssumption DEF Shipping, Signable, Eligible, CanProduce
<1> QED BY <1>1, <1>4, <1>5, <1>6, <1>7 DEF LoopInv, LoopTypes, NeverRefused

\* Every step keeps the invariant.
LEMMA LoopStep == LoopInv /\ [Next]_vars => LoopInv'
<1> SUFFICES ASSUME LoopInv, [Next]_vars PROVE LoopInv'
  OBVIOUS
<1>1. /\ now \in Int /\ Current \in States /\ posted \subseteq Handlers
      /\ head \in Headers /\ watermark \in Headers /\ enabled \in BOOLEAN /\ paused \in BOOLEAN
      /\ libOld \in BOOLEAN /\ mode \in Modes /\ building \in Int \cup {NotBuilding}
      /\ timer \in Timers \cup {NoTimer} /\ ~refused /\ Interval \in Nat \ {0}
      /\ \A g, h \in posted : g.fresh /\ h.fresh => g = h
      /\ timer # NoTimer => \A h \in posted : ~h.fresh
      /\ Shipping => Signable
  BY LoopAssumption DEF LoopInv, LoopTypes, NeverRefused, Current, States
<1>2. Aborted \in States
  BY <1>1 DEF Aborted, States
<1>3. CASE Fire
  <2>1. /\ timer # NoTimer /\ timer \in Timers
        /\ posted' = posted \cup {[does |-> timer.does, fresh |-> TRUE]} /\ timer' = NoTimer
    BY <1>1, <1>3 DEF Fire, Due
  <2>2. UNCHANGED <<now, head, watermark, enabled, paused, libOld, mode, building, refused>>
    BY <1>3 DEF Fire
  <2>3. /\ posted' \subseteq Handlers
        /\ \A h \in posted' : h.fresh => h = [does |-> timer.does, fresh |-> TRUE]
        /\ \E h \in posted' : h.fresh
    <3> DEFINE new == [does |-> timer.does, fresh |-> TRUE]
    <3>1. new \in Handlers /\ new.fresh
      BY <2>1 DEF Timers, Handlers
    <3>2. \A h \in posted : ~h.fresh
      BY <1>1, <2>1
    <3> HIDE DEF new
    <3>3. posted' = posted \cup {new}
      BY <2>1 DEF new
    <3>4. /\ posted' \subseteq Handlers /\ \A h \in posted' : h.fresh => h = new
          /\ \E h \in posted' : h.fresh
      BY <1>1, <3>1, <3>2, <3>3
    <3> QED BY <3>4 DEF new
  <2>4. Shipping' => Shipping
    BY <2>1, <2>3 DEF Shipping
  <2>5. Signable => Signable'
    BY <2>2 DEF Signable, CanProduce
  <2>6. LoopTypes' /\ NeverRefused'
    BY <1>1, <2>1, <2>2, <2>3 DEF LoopTypes, NeverRefused, Current
  <2> QED BY <1>1, <2>1, <2>3, <2>4, <2>5, <2>6, Zenon DEF LoopInv
<1>4. ASSUME NEW h \in posted, RunStale(h) PROVE LoopInv'
  <2>1. posted' = posted \ {h} /\ ~h.fresh
    BY <1>4 DEF RunStale
  <2>2. UNCHANGED <<now, head, watermark, enabled, paused, libOld, mode, building, timer, refused>>
    BY <1>4 DEF RunStale
  <2>3. Shipping' => Shipping
    BY <2>1, <2>2 DEF Shipping
  <2>4. Signable => Signable'
    BY <2>2 DEF Signable, CanProduce
  <2>5. LoopTypes' /\ NeverRefused'
    BY <1>1, <2>1, <2>2 DEF LoopTypes, NeverRefused, Current
  <2>6. Disabled(Current)' <=> Disabled(Current)
    BY <2>2 DEF Disabled, Current
  <2> QED BY <1>1, <2>1, <2>2, <2>3, <2>4, <2>5, <2>6 DEF LoopInv
<1>5. ASSUME NEW h \in posted, h.fresh, h.does \in {"loop", "produce"}
      PROVE  \A g \in posted \ {h} : ~g.fresh
  BY <1>1, <1>5
<1>6. ASSUME NEW h \in posted, RunLoop(h) PROVE LoopInv'
  <2>1. Reschedule(Current, posted \ {h}) /\ h.fresh /\ h.does = "loop"
    BY <1>6 DEF RunLoop
  <2>2. UNCHANGED <<now, head, watermark, enabled, paused, libOld, refused>>
    BY <1>6 DEF RunLoop
  <2>3. \A g \in posted \ {h} : ~g.fresh
    BY <1>5, <2>1, SMTT(30)
  <2> QED BY <1>1, <2>1, <2>2, <2>3, RescheduleRestarts DEF Current
<1>7. ASSUME NEW h \in posted, RunProduce(h) PROVE LoopInv'
  <2> DEFINE s == [Aborted EXCEPT !.head = head', !.watermark = watermark']
  <2>1. /\ h.fresh /\ h.does = "produce" /\ CanProduce
        /\ head' = [num |-> head.num + 1, time |-> building]
        /\ watermark' = [num |-> Larger(watermark.num, head'.num),
                         time |-> Larger(watermark.time, building)]
        /\ Reschedule(s, posted \ {h})
    BY <1>7 DEF RunProduce
  <2>2. UNCHANGED <<now, enabled, paused, libOld, refused>>
    BY <1>7 DEF RunProduce
  <2>3. \A g \in posted \ {h} : ~g.fresh
    BY <1>5, <2>1
  <2>4. head' \in Headers /\ watermark' \in Headers
    BY <1>1, <2>1 DEF Headers, CanProduce, Larger
  <2>5. /\ s \in States /\ s.head = head' /\ s.watermark = watermark' /\ s.enabled = enabled
        /\ s.paused = paused /\ s.libOld = libOld
    BY <1>2, <2>4, Zenon DEF States, Aborted, Current
  <2> HIDE DEF s
  <2> QED BY <1>1, <2>1, <2>2, <2>3, <2>5, RescheduleRestarts
<1>8. ASSUME NEW h \in posted, FailProduce(h) PROVE LoopInv'
  <2> DEFINE r == schedule_production_loop(Aborted, TRUE)
  <2>1. /\ h.fresh /\ h.does = "produce" /\ refused' = (refused \/ ~CanProduce)
        /\ mode' = r.mode /\ building' = r.building /\ timer' = r.timer
        /\ posted' = Outdate(posted \ {h}, r.timer)
    BY <1>8 DEF FailProduce
  <2>2. UNCHANGED <<now, head, watermark, enabled, paused, libOld>>
    BY <1>8 DEF FailProduce
  <2>3. \A g \in posted \ {h} : ~g.fresh
    BY <1>5, <2>1
  <2>4. Signable
    BY <1>1, <2>1 DEF Shipping
  <2>5. ~refused'
    BY <1>1, <2>1, <2>4, Zenon DEF Signable
  <2>6. /\ Aborted.head = head /\ Aborted.watermark = watermark /\ Aborted.enabled = enabled
        /\ Aborted.paused = paused /\ Aborted.libOld = libOld
    BY DEF Aborted, Current
  <2> QED BY <1>1, <1>2, <2>1, <2>2, <2>3, <2>5, <2>6, Restart, Zenon
<1>9. ASSUME NEW num \in {head.num, head.num + 1}, NEW slot \in SlotOf(head.time) + 1 .. SlotOf(now) + 1,
             NEW applied \in BOOLEAN, NEW old \in BOOLEAN,
             ReceiveBlock(num, slot * Interval, applied, old)
      PROVE  LoopInv'
  <2> DEFINE time == slot * Interval
             s == [Aborted EXCEPT !.head = head', !.watermark = watermark', !.enabled = enabled',
                                  !.libOld = libOld']
  <2>1. /\ mode # "producing"
        /\ head' = IF applied THEN [num |-> num, time |-> time] ELSE head
        /\ watermark' = IF IsOurs(time)
                        THEN [num |-> Larger(watermark.num, num), time |-> Larger(watermark.time, time)]
                        ELSE watermark
        /\ enabled' = (enabled \/ (applied /\ time + Interval >= now))
        /\ libOld' = IF applied THEN old ELSE libOld
        /\ Reschedule(s, posted)
    BY <1>9 DEF ReceiveBlock, Dropping
  <2>2. UNCHANGED <<now, paused, refused>>
    BY <1>9 DEF ReceiveBlock
  <2>3. num \in Int /\ time \in Int
    <3>1. num \in Int
      BY <1>1 DEF Headers
    <3>2. SlotOf(head.time) + 1 \in Int /\ SlotOf(now) + 1 \in Int
      BY <1>1, SMT DEF SlotOf, Headers
    <3>3. slot \in Int
      BY <3>2
    <3> QED BY <1>1, <3>1, <3>3, SMT
  <2> HIDE DEF time
  <2>4. head' \in Headers /\ watermark' \in Headers
    BY <1>1, <2>1, <2>3 DEF Headers, Larger
  <2>5. enabled' \in BOOLEAN /\ libOld' \in BOOLEAN
    BY <1>1, <2>1
  <2>6. /\ s \in States /\ s.head = head' /\ s.watermark = watermark' /\ s.enabled = enabled'
        /\ s.paused = paused /\ s.libOld = libOld'
    BY <1>2, <2>4, <2>5, ZenonT(40) DEF States, Aborted, Current
  <2> HIDE DEF s
  <2>7. ASSUME NEW h \in posted, h.fresh PROVE h.does = "loop"
    BY <1>1, <2>1, <2>7 DEF Shipping, Signable, CanProduce, Handlers
  <2> QED BY <1>1, <2>1, <2>2, <2>6, <2>7, RescheduleRestarts
<1>10. ASSUME UNCHANGED <<head, watermark, mode, building, timer, posted, refused>>,
              now' \in Int, now <= now',
              enabled' \in BOOLEAN, paused' \in BOOLEAN, libOld' \in BOOLEAN,
              mode = "producing" \/ Disabled(Current)' \/ ~Disabled(Current)
       PROVE  LoopInv'
  <2>1. Shipping' <=> Shipping
    BY <1>10 DEF Shipping
  <2>2. CanProduce' <=> CanProduce
    BY <1>10 DEF CanProduce
  <2>3. Signable => Signable'
    <3> SUFFICES ASSUME Signable PROVE Signable'
      OBVIOUS
    <3>1. building \in Int /\ building <= now + Interval
      BY <1>1 DEF Signable, CanProduce
    <3>2. building' = building
      BY <1>10
    <3>3. now \in Int /\ now' \in Int /\ now <= now' /\ Interval \in Int
      BY <1>1, <1>10
    <3>4. \A b, m, n, i \in Int : b <= m + i /\ m <= n => b <= n + i
      BY SMT
    <3>5. building <= now' + Interval
      BY <3>1, <3>3, <3>4, Zenon
    <3>6. building' <= now' + Interval
      BY <3>2, <3>5, Zenon
    <3> QED BY <1>10, <2>2, <3>6 DEF Signable
  <2>4. LoopTypes' /\ NeverRefused'
    BY <1>1, <1>10 DEF LoopTypes, NeverRefused, Current, States
  <2>5. /\ mode' = "producing" \/ ~Disabled(Current)' => mode = "producing" \/ ~Disabled(Current)
        /\ timer' = timer /\ posted' = posted
    BY <1>10
  <2> QED BY <1>1, <2>1, <2>3, <2>4, <2>5 DEF LoopInv
<1>11. ASSUME NEW s \in States, Reschedule(s, posted), posted = {}, UNCHANGED <<now, refused>>,
              head' = s.head, watermark' = s.watermark, enabled' = s.enabled, paused' = s.paused,
              libOld' = s.libOld
       PROVE  LoopInv'
  BY <1>1, <1>11, RescheduleRestarts
<1>12. CASE Pause
  <2>1. paused' = TRUE /\ UNCHANGED <<now, head, watermark, enabled, libOld, mode, building, timer,
                                      posted, refused>>
    BY <1>12 DEF Pause
  <2>2. Disabled(Current)'
    BY <2>1 DEF Disabled, Current
  <2> QED BY <1>1, <1>10, <2>1, <2>2
<1>13. CASE Resume
  <2>1. posted = {} /\ paused' = FALSE /\ UNCHANGED <<now, head, watermark, enabled, libOld, refused>>
    BY <1>13 DEF Resume, ApiRuns
  <2>2. CASE mode = "speculating"
    <3> DEFINE s == [Aborted EXCEPT !.paused = FALSE]
    <3>1. Reschedule(s, posted)
      BY <1>13, <2>2 DEF Resume
    <3>2. /\ s \in States /\ s.head = head /\ s.watermark = watermark /\ s.enabled = enabled
          /\ s.paused = FALSE /\ s.libOld = libOld
      BY <1>2, Zenon DEF States, Aborted, Current
    <3> HIDE DEF s
    <3> QED BY <1>11, <2>1, <3>1, <3>2, Zenon
  <2>3. CASE mode # "speculating"
    <3>1. mode = "producing"
      BY <1>1, <2>3 DEF Modes
    <3>2. UNCHANGED <<mode, building, timer, posted>>
      BY <1>13, <2>3 DEF Resume
    <3>3. now' \in Int /\ now <= now'
      BY <1>1, <2>1
    <3>4. enabled' \in BOOLEAN /\ paused' \in BOOLEAN /\ libOld' \in BOOLEAN
      BY <1>1, <2>1, Zenon
    <3> QED BY <1>10, <2>1, <3>1, <3>2, <3>3, <3>4
  <2> QED BY <2>2, <2>3
<1>14. ASSUME NEW old \in BOOLEAN, UpdateOptions(old) PROVE LoopInv'
  <2>1. posted = {} /\ libOld' = old /\ UNCHANGED <<now, head, watermark, enabled, paused, refused>>
    BY <1>14 DEF UpdateOptions, ApiRuns
  <2>2. CASE mode = "speculating"
    <3> DEFINE s == [Aborted EXCEPT !.libOld = old]
    <3>1. Reschedule(s, posted)
      BY <1>14, <2>2 DEF UpdateOptions
    <3>2. /\ s \in States /\ s.head = head /\ s.watermark = watermark /\ s.enabled = enabled
          /\ s.paused = paused /\ s.libOld = old
      BY <1>2, Zenon DEF States, Aborted, Current
    <3> HIDE DEF s
    <3> QED BY <1>11, <2>1, <3>1, <3>2
  <2>3. CASE mode # "speculating"
    <3>1. mode = "producing"
      BY <1>1, <2>3 DEF Modes
    <3>2. UNCHANGED <<mode, building, timer, posted>>
      BY <1>14, <2>3 DEF UpdateOptions
    <3> QED BY <1>1, <1>10, <2>1, <3>1, <3>2
  <2> QED BY <2>2, <2>3
<1>15. CASE AbortForState
  <2>1. /\ posted = {} /\ Reschedule(Aborted, posted)
        /\ UNCHANGED <<now, head, watermark, enabled, paused, libOld, refused>>
    BY <1>15 DEF AbortForState, ApiRuns
  <2>2. /\ Aborted.head = head /\ Aborted.watermark = watermark /\ Aborted.enabled = enabled
        /\ Aborted.paused = paused /\ Aborted.libOld = libOld
    BY DEF Aborted, Current
  <2> QED BY <1>2, <1>11, <2>1, <2>2
<1>16. CASE Tick
  <2>1. /\ now' = now + 1 /\ libOld' \in {libOld, TRUE}
        /\ UNCHANGED <<head, watermark, enabled, paused, mode, building, timer, posted, refused>>
    BY <1>16, Zenon DEF Tick
  <2>2. now' \in Int /\ now <= now'
    BY <1>1, <2>1
  <2>3. Disabled(Current)' \/ ~Disabled(Current)
    BY <2>1, Zenon DEF Disabled, Current
  <2> QED BY <1>1, <1>10, <2>1, <2>2, <2>3, Zenon
<1>17. CASE UNCHANGED vars
  <2>1. Disabled(Current)' <=> Disabled(Current)
    BY <1>17 DEF vars, Disabled, Current
  <2> QED BY <1>1, <1>10, <1>17, <2>1 DEF vars
<1> QED BY <1>3, <1>4, <1>6, <1>7, <1>8, <1>9, <1>12, <1>13, <1>14, <1>15, <1>16, <1>17 DEF Next
-----------------------------------------------------------------------------
\* Whatever the schedule, the offsets and the order of timers, blocks and API
\* calls: while the node may produce, a timer or a handler goes on with the loop,
\* and produce_block never finds its assertions violated.
THEOREM LoopAlwaysSound == Spec => []LoopSound
<1>1. LoopInv => LoopSound
  BY DEF LoopInv, LoopSound, LoopAlive
<1> QED BY <1>1, LoopInit, LoopStep, PTL DEF Spec

\* The producer signs only blocks of its slots, at most one interval ahead, and
\* above the number and the time of every block it knows it signed.
THEOREM AlwaysSignsForward == Spec => SignsForward
<1> DEFINE A == mode = "producing" /\ head' # head =>
                  /\ IsOurs(building) /\ building <= now + Interval
                  /\ head.num + 1 > watermark.num /\ building > watermark.time
<1>1. LoopInv /\ [Next]_vars => [A]_vars
  <2> SUFFICES ASSUME LoopInv, Next, mode = "producing", head' # head PROVE A
    OBVIOUS
  <2>1. PICK h \in posted : RunProduce(h)
    BY ZenonT(40) DEF Next, Fire, RunStale, RunLoop, FailProduce, ReceiveBlock, Dropping, Pause, Resume,
           UpdateOptions, AbortForState, Tick
  <2>2. Shipping
    BY <2>1 DEF RunProduce, Shipping
  <2>3. Signable
    BY <2>2 DEF LoopInv
  <2>4. head.num \in Int /\ watermark.num \in Int /\ watermark.time \in Int
    BY SMTT(30) DEF LoopInv, LoopTypes, Current, States, Headers
  <2>5. building \in Int
    BY <2>3 DEF LoopInv, LoopTypes, Current, States, Signable, CanProduce
  <2> QED BY <2>3, <2>4, <2>5 DEF Signable
<1> QED BY <1>1, LoopInit, LoopStep, PTL DEF Spec, SignsForward
=============================================================================
