------------------------------- MODULE System -------------------------------
(***************************************************************************)
(* The processes of Lifecycle with what they do to the log and to the      *)
(* trace file: the sections of the log lock a process enters on its way    *)
(* (worker.c:86-89, 124-127; network.c:171-235; utils.c:224-306;           *)
(* pipeline.c:92-142, 205-254; protocol.c:104, 201, 209, 336;              *)
(* main.c:356-358, 440-442), each as LogSection lets it, and inside the    *)
(* decoder's the semaphore around every line of the trace                  *)
(* (protocol.c:348-404).  A process that ends in a section leaves the      *)
(* flag, and one that ends in output_write the semaphore.                  *)
(*                                                                         *)
(* config->file is whatever fopen returned (main.c:282): a trace file that  *)
(* cannot be written is found out when the first line is.                   *)
(***************************************************************************)
EXTENDS Lifecycle

CONSTANTS
    Main,           \* the main process, as a caller of the log
    EngineMissing   \* libev lacks the engine of the configuration, or does not know it

ASSUME SystemAssumption ==
    /\ Main \notin Workers \cup {NoPid}
    /\ EngineMissing \in BOOLEAN

Procs == Workers \cup {Main}

VARIABLES
    at,         \* where a process is: out of any section, in (a section; for a worker in
                \* its loop, the decoder's), trace (in output_write, with the semaphore),
                \* refuses (the section of a failed connect, with refused after it), fails
                \* (the section of an error or an end of file)
    log_lock,   \* the flag
    died,       \* history: who has ended inside a section since the flag was last freed
    lock,       \* the value of the semaphore
    file        \* config->file is not NULL

logVars == <<log_lock, died>>
systemVars == <<vars, at, logVars, lock, file>>

Inside == {p \in Procs : at[p] \in {"in", "trace", "refuses", "fails"}}

Log == INSTANCE LogSection WITH flag <- log_lock, inside <- Inside

SystemInit ==
    /\ Init
    /\ at = [p \in Procs |-> "out"]
    /\ log_lock = "free" /\ died = {}
    /\ lock = 1
    /\ file \in BOOLEAN

Moves(p, to) == at' = [at EXCEPT ![p] = to]

-----------------------------------------------------------------------------
(* Sections that come between two steps of a process. *)

\* The call of pgprtdbg_log_lock that a step ends with.
Enters(p) == Moves(p, "in") /\ Log!Enter(p) /\ UNCHANGED died

\* pgprtdbg_log_unlock: the flag is free, whoever has held it.
Leaves(p) == Log!Leave(p) /\ died' = {}

\* The process ends where it is, inside a section or out.
Ends(p) ==
    /\ Moves(p, "out")
    /\ died' = died \cup ({p} \cap Inside)
    /\ UNCHANGED log_lock

\* Mutant of LeaveSection: the unlock is forgotten.
LeaveSectionLocked(p) ==
    /\ at[p] = "in"
    /\ p \in Workers => pc[p] # "loop"
    /\ Moves(p, "out")
    /\ UNCHANGED <<vars, logVars, lock, file>>

\* Not between the decoder's entry and its count.
LeaveSection(p) ==
    /\ at[p] = "in"
    /\ p \in Workers => pc[p] # "loop"
    /\ Moves(p, "out")
    /\ Leaves(p)
    /\ UNCHANGED <<vars, lock, file>>

-----------------------------------------------------------------------------
(* The main process. *)

\* Past the last counter the main process logs that there is none.
AfterAccept ==
    IF client_number = MaxConnections THEN Enters(Main) ELSE UNCHANGED <<at, logVars>>

SystemAccept(w) ==
    at[Main] = "out" /\ Accept(w) /\ AfterAccept /\ UNCHANGED <<lock, file>>

SystemAcceptForkFails ==
    at[Main] = "out" /\ AcceptForkFails /\ AfterAccept /\ UNCHANGED <<lock, file>>

SystemShutdown ==
    at[Main] = "out" /\ Shutdown /\ Enters(Main) /\ UNCHANGED <<lock, file>>

SystemKillTest ==
    at[Main] = "out" /\ KillTest /\ UNCHANGED <<at, logVars, lock, file>>

\* A worker without a handler ends where it is, inside a section or out.
SystemKillSend ==
    /\ at[Main] = "out"
    /\ KillSend
    /\ IF pc'[seen] = "crashed" THEN Ends(seen) ELSE UNCHANGED <<at, logVars>>
    /\ UNCHANGED <<lock, file>>

\* Closing a trace file that was never opened ends the process as well.
SystemOutputStatistics ==
    at[Main] = "out" /\ OutputStatistics /\ UNCHANGED <<at, logVars, lock, file>>

-----------------------------------------------------------------------------
(* A worker around its loop. *)

\* The registration, and then the section "Start client".
SystemRegister(w) ==
    /\ Register(w)
    /\ IF pc'[w] = "connect" THEN Enters(w) ELSE UNCHANGED <<at, logVars>>
    /\ UNCHANGED <<lock, file>>

\* pgprtdbg_libev complains of an engine it does not find, before ev_loop_new.
SystemConnect(w) ==
    /\ at[w] = "out"
    /\ Connect(w)
    /\ IF EngineMissing THEN Enters(w) ELSE UNCHANGED <<at, logVars>>
    /\ UNCHANGED <<lock, file>>

SystemInstall(w) ==
    at[w] = "out" /\ Install(w) /\ UNCHANGED <<at, logVars, lock, file>>

\* A failure in pgprtdbg_connect, which then returns 1; getaddrinfo's is not logged.
Refuse(w) ==
    /\ pc[w] = "connect" /\ at[w] = "out"
    /\ Moves(w, "refuses")
    /\ Log!Enter(w)
    /\ UNCHANGED <<vars, died, lock, file>>

LeaveRefusal(w) ==
    /\ at[w] = "refuses"
    /\ Moves(w, "refused")
    /\ Leaves(w)
    /\ UNCHANGED <<vars, lock, file>>

\* The section "Stop client" comes next, as after the loop.
SystemConnectFails(w) ==
    at[w] \in {"out", "refused"} /\ ConnectFails(w) /\ Enters(w) /\ UNCHANGED <<lock, file>>

SystemLeaveLoop(w) ==
    at[w] = "out" /\ LeaveLoop(w) /\ Enters(w) /\ UNCHANGED <<lock, file>>

SystemHandleSigquit(w) ==
    at[w] = "out" /\ HandleSigquit(w) /\ UNCHANGED <<at, logVars, lock, file>>

SystemCleanup(w) ==
    at[w] = "out" /\ Cleanup(w) /\ UNCHANGED <<at, logVars, lock, file>>

-----------------------------------------------------------------------------
(* A worker in a callback. *)

\* A chunk has been read: pgprtdbg_client or pgprtdbg_server enters its section.
EnterDecoder(w) ==
    /\ pc[w] = "loop" /\ at[w] = "out"
    /\ relayed[w] < MaxMessages
    /\ Enters(w)
    /\ UNCHANGED <<vars, lock, file>>

SystemBeginRelay(w) ==
    at[w] = "in" /\ BeginRelay(w) /\ UNCHANGED <<at, logVars, lock, file>>

\* output_write, for one of the messages of the chunk: sem_wait returns.
WaitSemaphore(w) ==
    /\ pc[w] = "relaying" /\ at[w] = "in"
    /\ lock > 0
    /\ lock' = lock - 1
    /\ Moves(w, "trace")
    /\ UNCHANGED <<vars, logVars, file>>

\* Mutant of PostSemaphore: it is not posted on the way out.
PostSemaphoreNot(w) ==
    /\ at[w] = "trace"
    /\ file
    /\ Moves(w, "in")
    /\ UNCHANGED <<vars, logVars, lock, file>>

\* fputs, fflush, sem_post.
PostSemaphore(w) ==
    /\ at[w] = "trace"
    /\ file
    /\ lock' = lock + 1
    /\ Moves(w, "in")
    /\ UNCHANGED <<vars, logVars, file>>

\* fputs without a file ends the process, which has the semaphore.
WriteNowhere(w) ==
    /\ at[w] = "trace"
    /\ ~file
    /\ Crash(w)
    /\ Ends(w)
    /\ UNCHANGED <<lock, file>>

\* The decoder ends the process, inside the section; or SIGPIPE does, outside.
SystemCrash(w) ==
    /\ at[w] \in {"in", "out"}
    /\ Crash(w)
    /\ Ends(w)
    /\ UNCHANGED <<lock, file>>

SystemEndRelay(w) ==
    at[w] = "out" /\ EndRelay(w) /\ UNCHANGED <<at, logVars, lock, file>>

\* Terminate or a fatal error, after the write.
FinishRelayed(w) ==
    /\ pc[w] = "relaying" /\ at[w] = "out"
    /\ Finish(w)
    /\ UNCHANGED <<at, logVars, lock, file>>

\* An end of file, or an error of read or write: first its line in the log.
EnterFailure(w) ==
    /\ pc[w] \in {"loop", "relaying"} /\ at[w] = "out"
    /\ Moves(w, "fails")
    /\ Log!Enter(w)
    /\ UNCHANGED <<vars, died, lock, file>>

FinishFailed(w) ==
    /\ at[w] = "fails"
    /\ Finish(w)
    /\ Moves(w, "out")
    /\ Leaves(w)
    /\ UNCHANGED <<lock, file>>

-----------------------------------------------------------------------------
SystemMain ==
    \/ SystemAcceptForkFails \/ SystemShutdown
    \/ SystemKillTest \/ SystemKillSend \/ SystemOutputStatistics
    \/ LeaveSection(Main)

SystemWorker(w) ==
    \/ SystemAccept(w) \/ SystemRegister(w) \/ SystemConnect(w) \/ SystemInstall(w)
    \/ Refuse(w) \/ LeaveRefusal(w) \/ SystemConnectFails(w) \/ SystemLeaveLoop(w)
    \/ SystemHandleSigquit(w) \/ SystemCleanup(w) \/ LeaveSection(w)

Callback(w) ==
    \/ EnterDecoder(w) \/ SystemBeginRelay(w) \/ WaitSemaphore(w)
    \/ PostSemaphore(w) \/ WriteNowhere(w) \/ SystemCrash(w) \/ SystemEndRelay(w)
    \/ FinishRelayed(w) \/ EnterFailure(w) \/ FinishFailed(w)

SystemNext == SystemMain \/ \E w \in Workers : SystemWorker(w) \/ Callback(w)

SystemSpec == SystemInit /\ [][SystemNext]_systemVars

-----------------------------------------------------------------------------
(* Properties. *)

\* Nobody dies with the semaphore of the trace file (protocol.c:348-404), whenever a
\* SIGQUIT comes and whatever the decoder does, and no two lines are written at once, as
\* long as there is a trace file: a worker without a handler is never in its decoder.
SemaphoreSurvives ==
    file => lock + Cardinality({w \in Workers : at[w] = "trace"}) = 1

\* The inductive strengthening of SemaphoreSurvives: types, and a worker writes its lines
\* inside a callback, where it has a handler.
SystemInv ==
    /\ at \in [Procs -> {"out", "in", "trace", "refuses", "refused", "fails"}]
    /\ log_lock \in {"free", "in_use"}
    /\ lock \in Nat /\ file \in BOOLEAN
    /\ \A w \in Workers : at[w] = "trace" => pc[w] = "relaying"
    /\ SemaphoreSurvives

\* The flag is left behind only by the dead (logging.c:109-112, 134-142): when it is taken
\* and nobody is inside a section, some worker has ended inside one since the flag was last
\* freed.  A death outside every section leaves nothing, nor does one before a later unlock.
LockLeftOnlyByDead == log_lock = "in_use" /\ Inside = {} => died # {}
=============================================================================
