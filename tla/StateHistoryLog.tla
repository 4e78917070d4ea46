-------------------------- MODULE StateHistoryLog --------------------------
(***************************************************************************)
(* A log of the state history plugin: state_history_log, with its index,   *)
(* through forks, replays, snapshots, crashes and failed writes.  The      *)
(* trace log and the chain state log are two of these.                     *)
(*                                                                         *)
(* The log is a sequence of entries, one block each, or Garbage: bytes     *)
(* that are no complete entry.  A position in the file is the sum of the   *)
(* sizes of what precedes it.  Writes are buffered and never flushed by    *)
(* write_entry; but seek_end, which starts the next entry, writes the      *)
(* buffer out (as POSIX has fseek do), so a crash can lose or tear only    *)
(* the last entry, in the log and in the index each on its own.            *)
(*                                                                         *)
(* head is the controller's head block: accepted_block is emitted for any  *)
(* child of a block of the chain, after the blocks above were popped.      *)
(***************************************************************************)
EXTENDS BlockTree, SequencesExt

CONSTANTS
  Genesis,   \* the block the chain starts from; it is never recorded
  Garbage,   \* bytes that are no entry
  Size,      \* length in bytes of a block's entry
  MaxFaults  \* bound on the number of crashes and failed writes

LogAssumption ==
  /\ Genesis \in Blocks
  /\ Garbage \notin Blocks
  /\ Size \in [Blocks \cup {Garbage} -> Nat \ {0}]
  /\ MaxFaults \in Nat

VARIABLES
  log,      \* the log file
  idx,      \* the index file: positions
  memory,   \* _begin_block, _end_block, last_block_id
  unsaved,  \* the files whose last entry may still be in a buffer
  phase,    \* is the plugin open, closed, or did it refuse to open?
  clean,    \* was the chain state closed properly?
  head,     \* the controller's head block
  missed,   \* write_entry has thrown since the plugin opened
  snapshot, \* the node was started from a snapshot since the log was new
  failed,   \* a write has failed since the log was new
  faults    \* crashes and failed writes so far

vars == <<log, idx, memory, unsaved, phase, clean, head, missed, snapshot, failed, faults>>
-----------------------------------------------------------------------------
Bytes(items) == FoldSeq(LAMBDA item, total : Size[item] + total, 0, items)

\* The position of the i-th item of a file.
Position(items, i) == Bytes(SubSeq(items, 1, i - 1))

Positions(items) == [i \in 1 .. Len(items) |-> Position(items, i)]

\* The item that starts at a position.
ItemAt(items, pos) ==
  LET starts == {i \in 1 .. Len(items) : Position(items, i) = pos}
  IN IF starts = {} THEN Garbage ELSE items[CHOOSE i \in starts : TRUE]

Empty == [begin |-> 0, end |-> 0, last |-> NoBlock]

IsEmpty(m) == m.begin = m.end

\* get_entry: the header at the position the index gives for a block number.
get_entry(items, index, m, num) == ItemAt(items, index[num - m.begin + 1])
-----------------------------------------------------------------------------
\* get_last_block: the file ends with a complete entry.
EndsWithEntry(items) == Last(items) # Garbage /\ Num[Last(items)] >= Num[items[1]]

\* recover_blocks: the entries before the first bytes that are none.
Recovered(items) ==
  LET sound == {n \in 0 .. Len(items) : \A i \in 1 .. n : items[i] # Garbage}
  IN SubSeq(items, 1, CHOOSE n \in sound : \A k \in sound : k <= n)

\* open_log: what is left of the file.  A file that does not start with a
\* complete entry is refused: corrupt (1) or (5).
Refusable(items) == items # <<>> /\ items[1] = Garbage

Kept(items) ==
  IF items = <<>> \/ EndsWithEntry(items) THEN items ELSE Recovered(items)

MemoryOf(items) ==
  IF items = <<>> THEN Empty
  ELSE [begin |-> Num[items[1]], end |-> Num[Last(items)] + 1, last |-> Last(items)]

IndexFits_Always(index, m) == TRUE

\* open_index: only the number of positions is compared.
IndexFits(index, m) == Len(index) = m.end - m.begin

\* The node starts: from its own state if that was closed properly, by a
\* replay from the genesis block, or from a snapshot; and the plugin opens
\* its log.
Start(h, fromSnapshot) ==
  /\ phase = "closed"
  /\ \/ fromSnapshot
     \/ h = Genesis
     \/ clean /\ h = head
  /\ head' = h
  /\ snapshot' = (snapshot \/ fromSnapshot)
  /\ clean' = FALSE
  /\ missed' = FALSE
  /\ LET kept == Kept(log)
         m == MemoryOf(kept)
     IN IF Refusable(log)
        THEN /\ phase' = "refused"
             /\ UNCHANGED <<log, idx, memory, unsaved>>
        ELSE /\ log' = kept
             /\ memory' = m
             /\ IF IndexFits(idx, m)
                THEN idx' = idx /\ unsaved' = {} /\ phase' = "open"
                ELSE IF \E i \in 1 .. Len(kept) : kept[i] = Garbage
                THEN idx' = <<>> /\ unsaved' = {} /\ phase' = "refused"
                ELSE idx' = Positions(kept) /\ unsaved' = {"regenerated"} /\ phase' = "open"
  /\ UNCHANGED <<failed, faults>>

\* The operator deletes the files (--delete-state-history) of a node that
\* does not run.
DeleteHistory ==
  /\ phase # "open"
  /\ log' = <<>> /\ idx' = <<>> /\ memory' = Empty /\ unsaved' = {}
  /\ phase' = "closed"
  /\ snapshot' = FALSE /\ failed' = FALSE /\ missed' = FALSE
  /\ UNCHANGED <<clean, head, faults>>

\* The plugin's destructor closes both files, which flushes them.
Stop ==
  /\ phase = "open"
  /\ phase' = "closed" /\ clean' = TRUE /\ unsaved' = {}
  /\ UNCHANGED <<log, idx, memory, head, missed, snapshot, failed, faults>>
-----------------------------------------------------------------------------
\* The checks of write_entry: the block follows an entry of the log, or
\* starts it anew.
Writable(b) ==
  \/ IsEmpty(memory)
  \/ Num[b] <= memory.begin
  \/ Num[b] = memory.end /\ Prev[b] = memory.last
  \/ Num[b] < memory.end /\ Num[b] > memory.begin
     /\ Prev[b] = get_entry(log, idx, memory, Num[b] - 1)

\* truncate, for a block the log already reaches: resize_file cuts the log at
\* the position of that block, and the index before its entry.
Truncates(b) == ~IsEmpty(memory) /\ Num[b] < memory.end

Cut(items, pos) ==
  LET within == {n \in 0 .. Len(items) : Bytes(SubSeq(items, 1, n)) <= pos}
  IN SubSeq(items, 1, CHOOSE n \in within : \A k \in within : k <= n)

TruncatedLog(b) ==
  IF ~Truncates(b) THEN log
  ELSE IF Num[b] <= memory.begin THEN <<>>
  ELSE Cut(log, idx[Num[b] - memory.begin + 1])

TruncatedIndex(b) ==
  IF ~Truncates(b) THEN idx
  ELSE IF Num[b] <= memory.begin THEN <<>>
  ELSE SubSeq(idx, 1, Num[b] - memory.begin)

TruncatedMemory(b) ==
  IF ~Truncates(b) THEN memory
  ELSE IF Num[b] <= memory.begin THEN [memory EXCEPT !.begin = 0, !.end = 0]
  ELSE [memory EXCEPT !.end = Num[b]]

\* The block is accepted when it follows a block of the chain.
Acceptable(b) == Prev[b] \in {head} \cup Anc[head]

\* on_accepted_block, store_traces and write_entry.
AcceptBlock(b) ==
  /\ phase = "open" /\ Acceptable(b)
  /\ head' = b
  /\ IF Writable(b)
     THEN LET kept == TruncatedLog(b)
              m == TruncatedMemory(b)
          IN /\ log' = Append(kept, b)
             /\ idx' = Append(TruncatedIndex(b), Bytes(kept))
             /\ memory' = [begin |-> IF IsEmpty(m) THEN Num[b] ELSE m.begin,
                           end |-> Num[b] + 1, last |-> b]
             /\ unsaved' = {"log", "index"}
             /\ UNCHANGED missed
     ELSE \* "missed a block" or "missed a fork change"; the controller's emit
          \* catches the exception and the chain goes on.
          /\ missed' = TRUE
          /\ UNCHANGED <<log, idx, memory, unsaved>>
  /\ UNCHANGED <<phase, clean, snapshot, failed, faults>>

\* The write of the entry fails and throws: the log keeps a part of it, and
\* _end_block does not move.  The controller goes on.
WriteFails(b) ==
  /\ phase = "open" /\ Acceptable(b) /\ Writable(b) /\ faults < MaxFaults
  /\ head' = b
  /\ log' = Append(TruncatedLog(b), Garbage)
  /\ idx' = TruncatedIndex(b)
  /\ memory' = TruncatedMemory(b)
  /\ unsaved' = {}
  /\ missed' = TRUE /\ failed' = TRUE /\ faults' = faults + 1
  /\ UNCHANGED <<phase, clean, snapshot>>
-----------------------------------------------------------------------------
Crashed ==
  /\ phase' = "closed" /\ clean' = FALSE /\ memory' = Empty /\ unsaved' = {}
  /\ faults < MaxFaults /\ faults' = faults + 1
  /\ UNCHANGED <<head, missed, snapshot, failed>>

\* The process dies: what was in a buffer may be lost, or be there in part.
Crash ==
  /\ phase = "open"
  /\ log' \in {log} \cup IF "log" \in unsaved THEN {Front(log), Append(Front(log), Garbage)} ELSE {}
  /\ idx' \in {idx} \cup (IF "index" \in unsaved THEN {Front(idx)} ELSE {})
                    \cup (IF "regenerated" \in unsaved
                          THEN {SubSeq(idx, 1, n) : n \in 0 .. Len(idx)} ELSE {})
  /\ Crashed

\* The process dies in write_entry, after the log was cut.
CrashInWrite(b) ==
  /\ phase = "open" /\ Acceptable(b) /\ Writable(b)
  /\ \/ log' = TruncatedLog(b) /\ idx' = idx
     \/ /\ log' \in {TruncatedLog(b), Append(TruncatedLog(b), Garbage), Append(TruncatedLog(b), b)}
        /\ idx' = TruncatedIndex(b)
  /\ Crashed

\* The index may be left out of a backup.
LoseIndex ==
  /\ phase = "closed" /\ idx # <<>> /\ faults < MaxFaults
  /\ idx' = <<>>
  /\ faults' = faults + 1
  /\ UNCHANGED <<log, memory, unsaved, phase, clean, head, missed, snapshot, failed>>

Init ==
  /\ log = <<>> /\ idx = <<>> /\ memory = Empty /\ unsaved = {}
  /\ phase = "closed" /\ clean = TRUE /\ head = Genesis
  /\ missed = FALSE /\ snapshot = FALSE /\ failed = FALSE /\ faults = 0

Next ==
  \/ \E h \in Blocks, fromSnapshot \in BOOLEAN : Start(h, fromSnapshot)
  \/ DeleteHistory
  \/ Stop
  \/ \E b \in Blocks : AcceptBlock(b)
  \/ \E b \in Blocks : WriteFails(b)
  \/ Crash
  \/ \E b \in Blocks : CrashInWrite(b)
  \/ LoseIndex

Spec == Init /\ [][Next]_vars
-----------------------------------------------------------------------------
TypeOK ==
  /\ log \in Seq(Blocks \cup {Garbage})
  /\ idx \in Seq(Nat)
  /\ memory.begin \in 0 .. MaxBlockNum /\ memory.end \in 0 .. MaxBlockNum + 1
  /\ unsaved \subseteq {"log", "index", "regenerated"}
  /\ phase \in {"closed", "open", "refused"}
  /\ head \in Blocks /\ faults \in 0 .. MaxFaults

\* What an open log returns is one chain without a gap: get_entry finds, for
\* every number from begin_block to end_block, the entry of a block of that
\* number, and each follows the one before it (write_entry, truncate,
\* recover_blocks, open_index).
EntriesAreChain ==
  phase = "open" /\ ~IsEmpty(memory) =>
    /\ Len(idx) = memory.end - memory.begin
    /\ \A n \in memory.begin .. memory.end - 1 :
         LET b == get_entry(log, idx, memory, n)
         IN /\ b \in Blocks /\ Num[b] = n
            /\ n > memory.begin => Prev[b] = get_entry(log, idx, memory, n - 1)

\* While no entry was missed, the log ends with the head, or with the block
\* the node restarted from still in it: a client that reads the log sees the
\* controller's chain.
RecordsChain ==
  phase = "open" /\ ~missed /\ ~snapshot /\ ~failed /\ ~IsEmpty(memory) /\ head # Genesis
    => \A n \in memory.begin .. memory.end - 1 :
         n <= Num[head] => get_entry(log, idx, memory, n) \in {head} \cup Anc[head]

\* Crashes never make the plugin miss a block: only a snapshot that the log
\* does not reach or a failed write does (write_entry's assertions).
MissedOnlyAfterSnapshot == missed => snapshot \/ failed

\* The plugin refuses its files only if a write failed or the first entry
\* was never complete (open_log).
RefusedOnlyIfNothingKept ==
  phase = "refused" => failed \/ Recovered(log) = <<>>
=============================================================================
