------------------------------- MODULE LogLock -------------------------------
(***************************************************************************)
(* The lock around the log (src/libpgprtdbg/logging.c:95-142): a flag in   *)
(* shared memory that the main process and all workers take with a         *)
(* compare-and-swap, a sleep of 1 ms and a retry.  A caller that finds the *)
(* flag taken and the clock one second on returns all the same, without    *)
(* the lock, and its unlock frees the flag of whoever holds it.            *)
(*                                                                         *)
(* A section is what a caller does between lock and unlock: MaxLines       *)
(* lines, each flushed on its own.  A process may die inside one: the      *)
(* decoder calls exit(1) there (protocol.c:489), and so does a signal.     *)
(***************************************************************************)
EXTENDS Integers, FiniteSets

CONSTANTS
    Procs,        \* the main process and the workers
    NoProc,       \* nobody has written yet
    MaxSections,  \* bound: sections of one process
    MaxLines      \* bound: lines of one section

ASSUME LogLockAssumption ==
    /\ IsFiniteSet(Procs)
    /\ NoProc \notin Procs
    /\ MaxSections \in Nat
    /\ MaxLines \in Nat \ {0}

VARIABLES
    log_lock,   \* STATE_FREE or STATE_IN_USE
    pc,         \* idle, try, sleep, write, dead
    late,       \* difftime(time(NULL), start_time) >= 1 for the current call
    sections,   \* sections a process has begun
    lines,      \* lines written in the current section
    writer,     \* the process that wrote the last line of the log
    torn,       \* history: some section was interrupted by another process's line
    timeouts    \* history: calls of pgprtdbg_log_lock that gave up

vars == <<log_lock, pc, late, sections, lines, writer, torn, timeouts>>

Init ==
    /\ log_lock = "free"
    /\ pc = [p \in Procs |-> "idle"]
    /\ late = [p \in Procs |-> FALSE]
    /\ sections = [p \in Procs |-> 0]
    /\ lines = [p \in Procs |-> 0]
    /\ writer = NoProc
    /\ torn = FALSE
    /\ timeouts = 0

-----------------------------------------------------------------------------
(* pgprtdbg_log_lock. *)

\* Mutant of Call: the flag is set before the first attempt to take it.
CallSetsFlag(p) ==
    /\ pc[p] = "idle"
    /\ sections[p] < MaxSections
    /\ log_lock' = "in_use"
    /\ sections' = [sections EXCEPT ![p] = @ + 1]
    /\ late' = [late EXCEPT ![p] = FALSE]
    /\ pc' = [pc EXCEPT ![p] = "try"]
    /\ UNCHANGED <<lines, writer, torn, timeouts>>

\* start_time = time(NULL).
Call(p) ==
    /\ pc[p] = "idle"
    /\ sections[p] < MaxSections
    /\ sections' = [sections EXCEPT ![p] = @ + 1]
    /\ late' = [late EXCEPT ![p] = FALSE]
    /\ pc' = [pc EXCEPT ![p] = "try"]
    /\ UNCHANGED <<log_lock, lines, writer, torn, timeouts>>

\* Mutant of Acquire: the flag is tested and not set.
AcquireTestOnly(p) ==
    /\ pc[p] = "try"
    /\ log_lock = "free"
    /\ pc' = [pc EXCEPT ![p] = "write"]
    /\ lines' = [lines EXCEPT ![p] = 0]
    /\ UNCHANGED <<log_lock, late, sections, writer, torn, timeouts>>

\* The compare-and-swap succeeds.
Acquire(p) ==
    /\ pc[p] = "try"
    /\ log_lock = "free"
    /\ log_lock' = "in_use"
    /\ pc' = [pc EXCEPT ![p] = "write"]
    /\ lines' = [lines EXCEPT ![p] = 0]
    /\ UNCHANGED <<late, sections, writer, torn, timeouts>>

\* Mutant of Fail: the result of the compare-and-swap is ignored.
FailReturns(p) ==
    /\ pc[p] = "try"
    /\ log_lock = "in_use"
    /\ pc' = [pc EXCEPT ![p] = "write"]
    /\ lines' = [lines EXCEPT ![p] = 0]
    /\ UNCHANGED <<log_lock, late, sections, writer, torn, timeouts>>

\* The compare-and-swap fails: nanosleep.
Fail(p) ==
    /\ pc[p] = "try"
    /\ log_lock = "in_use"
    /\ pc' = [pc EXCEPT ![p] = "sleep"]
    /\ UNCHANGED <<log_lock, late, sections, lines, writer, torn, timeouts>>

\* The clock shows another second than at the call.  time() counts whole seconds, so
\* this may be true after the first sleep.
Tick(p) ==
    /\ pc[p] \in {"try", "sleep"}
    /\ ~late[p]
    /\ late' = [late EXCEPT ![p] = TRUE]
    /\ UNCHANGED <<log_lock, pc, sections, lines, writer, torn, timeouts>>

Retry(p) ==
    /\ pc[p] = "sleep"
    /\ ~late[p]
    /\ pc' = [pc EXCEPT ![p] = "try"]
    /\ UNCHANGED <<log_lock, late, sections, lines, writer, torn, timeouts>>

\* Mutant of GiveUp: the retry takes a new start_time.
GiveUpRestarts(p) ==
    /\ pc[p] = "sleep"
    /\ late[p]
    /\ pc' = [pc EXCEPT ![p] = "try"]
    /\ late' = [late EXCEPT ![p] = FALSE]
    /\ UNCHANGED <<log_lock, sections, lines, writer, torn, timeouts>>

\* timeout: the caller returns and does not know that it has no lock.
GiveUp(p) ==
    /\ pc[p] = "sleep"
    /\ late[p]
    /\ pc' = [pc EXCEPT ![p] = "write"]
    /\ lines' = [lines EXCEPT ![p] = 0]
    /\ timeouts' = timeouts + 1
    /\ UNCHANGED <<log_lock, late, sections, writer, torn>>

-----------------------------------------------------------------------------
(* The section, and pgprtdbg_log_unlock. *)

\* pgprtdbg_log_line or pgprtdbg_log_mem: written and flushed.
WriteLine(p) ==
    /\ pc[p] = "write"
    /\ lines[p] < MaxLines
    /\ lines' = [lines EXCEPT ![p] = @ + 1]
    /\ torn' = (torn \/ (lines[p] > 0 /\ writer # p))
    /\ writer' = p
    /\ UNCHANGED <<log_lock, pc, late, sections, timeouts>>

\* The store does not ask who holds the flag.
Unlock(p) ==
    /\ pc[p] = "write"
    /\ lines[p] = MaxLines
    /\ log_lock' = "free"
    /\ pc' = [pc EXCEPT ![p] = "idle"]
    /\ UNCHANGED <<late, sections, lines, writer, torn, timeouts>>

\* The process dies inside its section: the flag stays as it is.
Die(p) ==
    /\ pc[p] = "write"
    /\ pc' = [pc EXCEPT ![p] = "dead"]
    /\ UNCHANGED <<log_lock, late, sections, lines, writer, torn, timeouts>>

-----------------------------------------------------------------------------
Lock(p) == Acquire(p) \/ Fail(p) \/ Retry(p) \/ GiveUp(p)

Next ==
    \E p \in Procs :
        Call(p) \/ Lock(p) \/ Tick(p) \/ WriteLine(p) \/ Unlock(p) \/ Die(p)

Spec == Init /\ [][Next]_vars

(***************************************************************************)
(* A running process runs on and the clock advances; nobody has to log     *)
(* anything, and nobody has to die.  The compare-and-swap is not fair: a   *)
(* process may find the flag taken in every attempt.                       *)
(***************************************************************************)
Fairness ==
    \A p \in Procs :
        /\ WF_vars(Lock(p))
        /\ WF_vars(Tick(p))
        /\ WF_vars(WriteLine(p) \/ Unlock(p))

FairSpec == Spec /\ Fairness

-----------------------------------------------------------------------------
(* Properties. *)

TypeOK ==
    /\ log_lock \in {"free", "in_use"}
    /\ pc \in [Procs -> {"idle", "try", "sleep", "write", "dead"}]
    /\ late \in [Procs -> BOOLEAN]
    /\ sections \in [Procs -> 0 .. MaxSections]
    /\ lines \in [Procs -> 0 .. MaxLines]
    /\ writer \in Procs \cup {NoProc}
    /\ torn \in BOOLEAN
    /\ timeouts \in Nat

Writing == {p \in Procs : pc[p] = "write"}

\* How far the lock degrades (logging.c:101-131 and 141): every call that gives up lets at
\* most one more process into the log at once, for good, and no other event does.
DegradationBound ==
    Cardinality(Writing) <= timeouts + (IF log_lock = "in_use" THEN 1 ELSE 0)

\* Until a call gives up the lock excludes, also when a holder has died, and no section is
\* torn by a line of another process.
ExclusiveUntilTimeout ==
    timeouts = 0 => Cardinality(Writing) <= 1 /\ ~torn

\* The inductive strengthening of ExclusiveUntilTimeout.
ExclusiveInv ==
    timeouts = 0 =>
        /\ log_lock = "free" => Writing = {}
        /\ \A p, q \in Writing : p = q
        /\ \A p \in Writing : lines[p] > 0 => writer = p
        /\ ~torn

\* Every call returns within a second's patience (logging.c:101-131): a process that wants
\* to log gets to log, also when a holder has died with the lock.
EveryCallReturns == \A p \in Procs : pc[p] = "try" ~> pc[p] = "write"

\* What System builds on: seen from its callers the lock is a section that everybody
\* enters, whose flag only an entry takes and only an exit frees.
Section == INSTANCE LogSection WITH flag <- log_lock, inside <- Writing

ImplementsLogSection == Section!Spec
=============================================================================
