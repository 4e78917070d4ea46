------------------------------- MODULE Ledger -------------------------------
(***************************************************************************)
(* What a node promises to those who read its chain, whatever it does      *)
(* inside: the irreversible chain only grows, by children of its last      *)
(* block, also through crashes and restarts; the head of a running node    *)
(* descends from it; and while the node runs, its head is never exchanged  *)
(* for one that the fork choice rule (first_preferred) ranks lower.        *)
(* Controller implements this specification.                               *)
(***************************************************************************)
EXTENDS BlockTree, Sequences

VARIABLES
  chain,   \* the irreversible blocks
  tip,     \* the head of a running node, NoBlock if it does not run
  up       \* the node runs

vars == <<chain, tip, up>>

Preferred(a, b) == Lib[a] > Lib[b] \/ (Lib[a] = Lib[b] /\ Num[a] > Num[b])

LastOf(c) == c[Len(c)]

IsOn(b, c) == LastOf(c) \in {b} \cup Anc[b]

\* d is c and children of its last block.
Grows(c, d) ==
  /\ Len(c) <= Len(d) /\ SubSeq(d, 1, Len(c)) = c
  /\ \A i \in Len(c) + 1 .. Len(d) : d[i] \in Blocks /\ Prev[d[i]] = d[i - 1]

Init ==
  /\ up = TRUE
  /\ tip \in Blocks /\ chain = <<tip>>

\* A block arrives, or is produced.
Advance ==
  /\ up /\ up' = TRUE
  /\ Grows(chain, chain')
  /\ tip' \in Blocks /\ IsOn(tip', chain')
  /\ ~Preferred(tip, tip')

\* The node stops, at any point of its work.
Leave ==
  /\ up /\ up' = FALSE
  /\ Grows(chain, chain')
  /\ tip' = NoBlock

\* It starts again, on what it finds; applying stored blocks may make more of
\* them irreversible.
Return ==
  /\ ~up
  /\ Grows(chain, chain')
  /\ up' \in BOOLEAN
  /\ IF up' THEN tip' \in Blocks /\ IsOn(tip', chain') ELSE tip' = NoBlock

Next == Advance \/ Leave \/ Return

Spec == Init /\ [][Next]_vars
=============================================================================
