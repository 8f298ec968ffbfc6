--------------------------------- MODULE Pipe ---------------------------------
(***************************************************************************)
(* What a relay promises: two pipes, one in each direction.  What a side   *)
(* sends comes out at the other side in the same order, complete and once, *)
(* until the pipe breaks.  A broken pipe has lost the tail of what it      *)
(* held, and all that is sent into it later.                               *)
(***************************************************************************)
EXTENDS Integers, Sequences, SequencesExt

CONSTANT Traffic   \* for each side, what it has to send

VARIABLES
    sent,       \* how much of it the side has sent
    queue,      \* what is in the pipe that begins at the side
    received,   \* what has come out of it
    broken      \* the pipe that begins at the side is broken

Sides == DOMAIN Traffic

Init ==
    /\ sent = [side \in Sides |-> 0]
    /\ queue = [side \in Sides |-> <<>>]
    /\ received = [side \in Sides |-> <<>>]
    /\ broken = [side \in Sides |-> FALSE]

Send(side) ==
    /\ sent[side] < Len(Traffic[side])
    /\ sent' = [sent EXCEPT ![side] = @ + 1]
    /\ queue' = [queue EXCEPT ![side] =
                    IF broken[side] THEN @ ELSE Append(@, Traffic[side][sent'[side]])]
    /\ UNCHANGED <<received, broken>>

Receive(side) ==
    /\ queue[side] # <<>>
    /\ received' = [received EXCEPT ![side] = Append(@, Head(queue[side]))]
    /\ queue' = [queue EXCEPT ![side] = Tail(@)]
    /\ UNCHANGED <<sent, broken>>

Break ==
    /\ broken' \in [Sides -> BOOLEAN]
    /\ \A side \in Sides :
          /\ broken[side] => broken'[side]
          /\ IsPrefix(queue'[side], queue[side])
          /\ ~broken'[side] => queue'[side] = queue[side]
    /\ DOMAIN queue' = Sides
    /\ UNCHANGED <<sent, received>>

Next == Break \/ \E side \in Sides : Send(side) \/ Receive(side)

Spec == Init /\ [][Next]_<<sent, queue, received, broken>>
=============================================================================
