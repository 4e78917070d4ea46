------------------------------- MODULE BlockLog -------------------------------
(***************************************************************************)
(* libraries/chain/block_log.cpp: blocks.log and its index as files, with  *)
(* the tools that rewrite them (repair_log of a hard replay, and           *)
(* eosio-blocklog).  A block with the position written after it is one     *)
(* unit of the log, identified by its block number; bytes that are not a   *)
(* block and its position are a unit Scrap.  A position is the place of    *)
(* a unit in the log; the index holds the position of every block, 0 where *)
(* the file has a hole.  A process that dies leaves in each file a prefix  *)
(* of what it wrote; what was flushed stays.  A position read from garbage *)
(* is taken not to lead to a block.                                        *)
(***************************************************************************)
EXTENDS Integers, Sequences, SequencesExt, FiniteSets

CONSTANTS
  BufferBlocks,   \* index_writer::_max_buffer_length: positions in one buffer
  MaxNum,         \* bound: the last block number
  MaxFaults,      \* bound: crashes and failed writes
  MaxTrims        \* bound: uses of eosio-blocklog --trim-blocklog

LogAssumption ==
  /\ BufferBlocks \in Nat \ {0} /\ MaxNum \in Nat
  /\ MaxFaults \in Nat /\ MaxTrims \in Nat

VARIABLES
  log,      \* blocks.log: header ("none" if the file is empty), first_block_num, units
  index,    \* blocks.index
  head,     \* the number of block_log_impl::head, 0 for none
  status,   \* "closed", "open", "stuck" (flush threw), "refused" (open threw), "repaired"
  appended, \* history: the blocks whose append returned
  saved,    \* the blocks in the backup directories, and in the old.log of a trim
  dropped,  \* history: the blocks the operator asked to remove
  holed,    \* history: was the index last written by a construct_index that did not end?
  faults,
  trims

vars == <<log, index, head, status, appended, saved, dropped, holed, faults, trims>>

Scrap == 0
NoLog == [header |-> "none", first |-> 0, units |-> << >>]
BlocksOf(L) == Range(L.units) \ {Scrap}
Down == status \in {"closed", "refused", "repaired"}

-----------------------------------------------------------------------------
(* Opening.                                                                *)

\* Where the walk back from the end of the log finds a block, from position p on:
\* the position written before each block leads to the one before it.
Walkable(L) == Scrap \notin Range(L.units)

Positions(L) == [i \in 1 .. Len(L.units) |-> i]

\* What a crash leaves of the index while construct_index writes it: the buffers
\* go to the file from the end, and what lies before the last one is a hole.
PartialIndexes(L) ==
  {<< >>} \cup
  {[i \in 1 .. Len(L.units) |-> IF i > Len(L.units) - k * BufferBlocks THEN i ELSE 0] :
     k \in 1 .. Len(L.units)}

\* The index is built again unless it ends with the position the log ends with.
NeedsIndex(L, x) == IF x = << >> THEN TRUE ELSE L.units = << >> \/ Last(x) # Len(L.units)

\* The file's header is complete and its end is a position.
Readable(L) == L.header = "ok" /\ (L.units # << >> => Last(L.units) # Scrap)

Open ==
  /\ Down
  /\ IF log.header = "none"
     THEN index' = << >> /\ head' = 0 /\ status' = "open" /\ holed' = FALSE
     ELSE IF ~Readable(log)
     THEN status' = "refused" /\ UNCHANGED <<index, head, holed>>
     ELSE IF ~NeedsIndex(log, index)
     THEN status' = "open" /\ head' = Last(log.units) /\ UNCHANGED <<index, holed>>
     ELSE IF Walkable(log)
     THEN /\ status' = "open" /\ index' = Positions(log) /\ holed' = FALSE
          /\ head' = IF log.units = << >> THEN 0 ELSE Last(log.units)
     ELSE status' = "refused" /\ index' = << >> /\ UNCHANGED <<head, holed>>
  /\ UNCHANGED <<log, appended, saved, dropped, faults, trims>>

\* The process dies in construct_index, or writing the index fails.
CrashInOpen ==
  /\ Down /\ Readable(log) /\ NeedsIndex(log, index) /\ Walkable(log) /\ log.units # << >>
  /\ faults < MaxFaults /\ faults' = faults + 1
  /\ index' \in PartialIndexes(log) /\ holed' = TRUE
  /\ status' = "closed"
  /\ UNCHANGED <<log, head, appended, saved, dropped, trims>>

\* The destructor, or the end of the process between two operations.
Close ==
  /\ status \in {"open", "stuck"}
  /\ status' = "closed" /\ head' = 0
  /\ UNCHANGED <<log, index, appended, saved, dropped, holed, faults, trims>>

-----------------------------------------------------------------------------
(* Writing.                                                                *)

\* The controller resets a log without a head: to the genesis block, or to start
\* after the irreversible block of the state it has.
Reset(first) ==
  /\ status = "open" /\ head = 0
  /\ log' = [header |-> "ok", first |-> first, units |-> IF first = 1 THEN <<1>> ELSE << >>]
  /\ index' = IF first = 1 THEN <<1>> ELSE << >>
  /\ head' = (IF first = 1 THEN 1 ELSE 0) /\ holed' = FALSE
  /\ appended' = IF first = 1 THEN appended \cup {1} ELSE appended
  /\ UNCHANGED <<status, saved, dropped, faults, trims>>

\* The files are removed, then written with version 0, which is replaced last.
CrashInReset(first) ==
  /\ status = "open" /\ head = 0 /\ faults < MaxFaults
  /\ \E L \in {NoLog, [header |-> "bad", first |-> first, units |-> << >>],
               [header |-> "bad", first |-> first, units |-> IF first = 1 THEN <<1>> ELSE << >>]},
        x \in {<< >>, <<1>>} :
       /\ x = <<1>> => L.units = <<1>>
       /\ log' = L /\ index' = x
  /\ faults' = faults + 1 /\ status' = "closed" /\ head' = 0 /\ holed' = FALSE
  /\ UNCHANGED <<appended, saved, dropped, trims>>

\* The number of the block that log_irreversible appends.
NextNum == IF head = 0 THEN log.first ELSE head + 1

CanAppend ==
  /\ status = "open" /\ log.header = "ok" /\ NextNum <= MaxNum
  /\ Len(index) = NextNum - log.first

AppendPosition(L) == Len(L.units) + 1

Append_(u) == [log EXCEPT !.units = Append(@, u)]

AppendBlock ==
  /\ CanAppend
  /\ log' = Append_(NextNum)
  /\ index' = Append(index, AppendPosition(log))
  /\ head' = NextNum
  /\ appended' = appended \cup {NextNum}
  /\ UNCHANGED <<status, saved, dropped, holed, faults, trims>>

\* The log is flushed before the index.
CrashLeaves ==
  {<<log, index>>, <<Append_(Scrap), index>>, <<Append_(NextNum), index>>,
   <<Append_(NextNum), Append(index, AppendPosition(log))>>}

CrashInAppend ==
  /\ CanAppend /\ faults < MaxFaults /\ faults' = faults + 1
  /\ \E f \in CrashLeaves : log' = f[1] /\ index' = f[2]
  /\ status' = "closed" /\ head' = 0
  /\ UNCHANGED <<appended, saved, dropped, holed, trims>>

\* A write throws and the node goes on: the next append writes after the garbage.
WriteFails ==
  /\ CanAppend /\ faults < MaxFaults /\ faults' = faults + 1
  /\ log' = Append_(Scrap)
  /\ UNCHANGED <<index, head, status, appended, saved, dropped, holed, trims>>

\* flush() throws after head was set: log_irreversible then finds that the root
\* is not the log's head, and appends no more.
FlushFails ==
  /\ CanAppend /\ faults < MaxFaults /\ faults' = faults + 1
  /\ log' \in {log, Append_(Scrap), Append_(NextNum)}
  /\ index' \in {index, Append(index, AppendPosition(log))}
  /\ head' = NextNum /\ status' = "stuck"
  /\ UNCHANGED <<appended, saved, dropped, holed, trims>>

-----------------------------------------------------------------------------
(* Reading.                                                                *)

\* 0 for npos: there is no such block in the log.
get_block_pos(n) ==
  IF head # 0 /\ n \in log.first .. head THEN index[n - log.first + 1] ELSE 0

\* The block the index leads to.
read_block_by_num(n) ==
  IF get_block_pos(n) \in 1 .. Len(log.units) THEN log.units[get_block_pos(n)] ELSE Scrap

-----------------------------------------------------------------------------
(* The tools.                                                              *)

\* The blocks repair_log copies: up to the first garbage, and to truncate_at_block.
Repaired(L, last) ==
  LET cut == {i \in 1 .. Len(L.units) : L.units[i] = Scrap \/ (i > 1 /\ L.units[i - 1] = last)}
      n   == IF cut = {} THEN Len(L.units) ELSE Min(cut) - 1
  IN  [L EXCEPT !.units = SubSeq(@, 1, n)]

\* The new log and its backup; the header must be complete and start at block 1.
RepairTo(L, state) ==
  /\ Down /\ log.header = "ok" /\ log.first = 1
  /\ log' = L /\ index' = << >> /\ holed' = FALSE
  /\ saved' = [saved EXCEPT !.backup = @ \cup BlocksOf(log)]
  /\ status' = state
  /\ UNCHANGED <<head, appended, trims>>

Repair(last) ==
  /\ RepairTo(Repaired(log, last), "repaired")
  /\ dropped' = dropped \cup {n \in BlocksOf(log) : n > last}
  /\ UNCHANGED faults

CrashInRepair ==
  /\ faults < MaxFaults /\ faults' = faults + 1
  /\ \E n \in 0 .. Len(Repaired(log, MaxNum).units), u \in {<< >>, <<Scrap>>} :
       RepairTo([log EXCEPT !.units = SubSeq(@, 1, n) \o u], "closed")
  /\ UNCHANGED dropped

\* trim_data: what the tools require of the files before they change them.
Trimmable(n) ==
  /\ Down /\ trims < MaxTrims /\ log.header = "ok" /\ log.units # << >> /\ index # << >>
  /\ log.units[1] = log.first /\ index[1] = 1
  /\ LET i == n - log.first + 1
     IN  i \in 1 .. Len(index) /\ index[i] \in 1 .. Len(log.units) /\ log.units[index[i]] = n

\* trim_blocklog_end with n the first block to go: the log is cut, then the index.
TrimEnd(n) ==
  /\ Trimmable(n) /\ n > log.first /\ trims' = trims + 1
  /\ log' = [log EXCEPT !.units = SubSeq(@, 1, index[n - log.first + 1] - 1)]
  /\ dropped' = dropped \cup {m \in BlocksOf(log) : m >= n}
  /\ \/ index' = SubSeq(index, 1, n - log.first) /\ UNCHANGED faults
     \/ faults < MaxFaults /\ faults' = faults + 1 /\ UNCHANGED index
  /\ status' = "closed"
  /\ UNCHANGED <<head, appended, saved, holed>>

\* trim_blocklog_front with n the first block to stay, on files that agree: the
\* new files take the place of the old ones in four renames, log before index.
TrimFront(n) ==
  LET new == [header |-> "ok", first |-> n, units |-> SelectSeq(log.units, LAMBDA m : m >= n)]
  IN  /\ Trimmable(n) /\ n > log.first /\ trims' = trims + 1
      /\ index = Positions(log) /\ Walkable(log)
      /\ dropped' = dropped \cup {m \in BlocksOf(log) : m < n}
      /\ saved' = [saved EXCEPT !.old = BlocksOf(log)]
      /\ \/ log' = new /\ index' = Positions(new) /\ UNCHANGED faults
         \/ /\ faults < MaxFaults /\ faults' = faults + 1
            /\ \/ log' = NoLog /\ UNCHANGED index
               \/ log' = new /\ index' \in {index, << >>}
      /\ status' = "closed" /\ holed' = FALSE
      /\ UNCHANGED <<head, appended>>

-----------------------------------------------------------------------------
Init ==
  /\ log = NoLog /\ index = << >> /\ head = 0 /\ status = "closed"
  /\ appended = {} /\ saved = [backup |-> {}, old |-> {}] /\ dropped = {}
  /\ holed = FALSE /\ faults = 0 /\ trims = 0

Next ==
  \/ Open \/ CrashInOpen \/ Close
  \/ \E first \in 1 .. MaxNum : Reset(first) \/ CrashInReset(first)
  \/ AppendBlock \/ CrashInAppend \/ WriteFails \/ FlushFails
  \/ \E n \in 1 .. MaxNum : Repair(n) \/ TrimEnd(n) \/ TrimFront(n)
  \/ CrashInRepair

Spec == Init /\ [][Next]_vars

-----------------------------------------------------------------------------
\* Every variable has the shape the code gives it.
TypeOK ==
  /\ log.header \in {"none", "bad", "ok"} /\ log.first \in 0 .. MaxNum
  /\ log.units \in Seq(0 .. MaxNum)
  /\ index \in Seq(Nat) /\ head \in 0 .. MaxNum
  /\ status \in {"closed", "open", "stuck", "refused", "repaired"} /\ holed \in BOOLEAN
  /\ appended \cup dropped \cup saved.backup \cup saved.old \subseteq 1 .. MaxNum

\* What read_block_by_num asserts ("Wrong block was read from block log",
\* block_log.cpp:415): whatever crash, failed write, repair or trim came before,
\* in an open log the index leads to every block up to the head, or nowhere, and
\* append's own assertion on the size of the index holds for the next block.  It
\* leads nowhere only for blocks before the last buffer of a construct_index
\* that did not end: open() compares the last positions only and keeps the hole.
IndexLeadsToBlocks ==
  status = "open" /\ log.header = "ok" =>
    /\ Len(index) = NextNum - log.first
    /\ \A n \in 1 .. MaxNum :
         \/ read_block_by_num(n) = IF n \in log.first .. head THEN n ELSE Scrap
         \/ holed /\ get_block_pos(n) = 0 /\ n <= head - BufferBlocks

\* A block whose append returned is never lost: it is in the log, or in the files
\* a repair or a trim moved away, unless the operator asked to drop it.
AppendedSurvive == appended \ dropped \subseteq BlocksOf(log) \cup saved.backup \cup saved.old

\* open() refuses a log only when a crash or a failed write damaged it, and a log
\* that repair_log completed is accepted.
RefusedOnlyIfDamaged ==
  /\ status = "refused" => log.header = "bad" \/ Scrap \in Range(log.units)
  /\ status = "repaired" => Readable(log) /\ Walkable(log)
=============================================================================
