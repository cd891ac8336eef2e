------------------------------ MODULE DelayLine ------------------------------
(***************************************************************************)
(* What an echo promises: a line of samples of a bounded length.  Samples  *)
(* enter at one end in the order they were heard and leave at the other    *)
(* end in that order, each at most once and never before Delay newer ones  *)
(* have entered; a full line loses its oldest samples.                     *)
(***************************************************************************)
EXTENDS Naturals, Sequences

CONSTANTS
  Delay,         \* samples that stay in the line
  Queue,         \* how many more it holds
  Samples        \* all samples, 1 to the last one

VARIABLES
  line,          \* the samples in the line, the oldest first
  newest,        \* the sample that entered last
  out            \* the samples that left last

lineVars == <<line, newest, out>>

LineInit == line = <<>> /\ newest = 0 /\ out = <<>>

Newest(s, n) == SubSeq(s, Len(s) - n + 1, Len(s))
Lesser(a, b) == IF a < b THEN a ELSE b

(* Samples newer than all before enter. *)
Enter(first, last) ==
  LET longer == line \o [i \in 1..(last - first + 1) |-> first + i - 1] IN
  /\ newest < first /\ first <= last
  /\ newest' = last
  /\ line' = Newest(longer, Lesser(Len(longer), Delay + Queue))
  /\ UNCHANGED out

Leave(n) ==
  /\ n = 0 \/ n + Delay <= Len(line)
  /\ out' = SubSeq(line, 1, n)
  /\ line' = Newest(line, Len(line) - n)
  /\ UNCHANGED newest

LineNext ==
  \/ \E first, last \in Samples : Enter(first, last)
  \/ \E n \in 0..Len(line) : Leave(n)

LineSpec == LineInit /\ [][LineNext]_lineVars
=============================================================================
