----------------------------- MODULE MessageTrace -----------------------------
(***************************************************************************)
(* What the trace file promises (README.md:3, doc/GETTING_STARTED.md:81):  *)
(* one line per protocol message, with its sender and its kind, each       *)
(* sender's lines in the order in which it sent the messages, nothing      *)
(* missing in between and nothing invented.                                *)
(***************************************************************************)
EXTENDS Integers, Sequences, SequencesExt

CONSTANT Conversation  \* for each side, the kinds of the messages it sends

VARIABLE trace

\* The kinds in the lines of a side.
LinesOf(side) ==
    FlattenSeq([i \in DOMAIN trace |-> IF trace[i][1] = side THEN <<trace[i][2]>> ELSE <<>>])

Init == trace = <<>>

\* The next message of one side gets its line.
Line(side) ==
    LET n == Len(LinesOf(side)) + 1 IN
    /\ n <= Len(Conversation[side])
    /\ trace' = Append(trace, <<side, Conversation[side][n]>>)

Next == \E side \in DOMAIN Conversation : Line(side)

Spec == Init /\ [][Next]_trace
=============================================================================
