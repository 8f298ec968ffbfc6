----------------------------- MODULE LogSection -----------------------------
(***************************************************************************)
(* What a caller of pgprtdbg_log_lock and pgprtdbg_log_unlock may count on *)
(* (src/libpgprtdbg/logging.c:95-142), without the attempts, the sleeps and *)
(* the clock: a call always enters the section, taking the flag or, when it *)
(* gives up, leaving it as it is, which may even be free by then; leaving   *)
(* frees the flag, whoever holds it; and a process that dies inside leaves  *)
(* it as it is.                                                             *)
(***************************************************************************)
CONSTANT Procs

VARIABLES
    flag,    \* STATE_FREE or STATE_IN_USE
    inside   \* the processes between lock and unlock

Init == flag = "free" /\ inside = {}

Enter(p) ==
    /\ p \notin inside
    /\ inside' = inside \cup {p}
    /\ flag' \in {"in_use", flag}

Leave(p) ==
    /\ p \in inside
    /\ inside' = inside \ {p}
    /\ flag' = "free"

Die(p) ==
    /\ p \in inside
    /\ inside' = inside \ {p}
    /\ flag' = flag

Next == \E p \in Procs : Enter(p) \/ Leave(p) \/ Die(p)

Spec == Init /\ [][Next]_<<flag, inside>>
=============================================================================
