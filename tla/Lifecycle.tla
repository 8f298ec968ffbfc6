------------------------------ MODULE Lifecycle ------------------------------
(***************************************************************************)
(* The life of the proxy's processes: the main process that accepts        *)
(* clients, forks one worker per client and, on a shutdown signal, sends   *)
(* SIGQUIT to every pid of the shared table and prints the statistics      *)
(* (src/main.c), and the workers that enter and leave that table, count    *)
(* themselves in active_connections and their chunks in a counter          *)
(* (src/libpgprtdbg/worker.c, counter.c).                                  *)
(*                                                                         *)
(* Everything the processes share lives in one anonymous mapping           *)
(* (shmem.c).  active_connections is a C11 atomic; pids and the counters   *)
(* are plain memory, so a test and the store that follows it are two       *)
(* steps here.  A pid names one worker for good: the model does not reuse  *)
(* the pid of a dead worker.                                               *)
(***************************************************************************)
EXTENDS Integers, FiniteSets

CONSTANTS
    Workers,         \* the processes fork() may return, one per accepted client
    NoPid,           \* the 0 of a free slot
    MaxConnections,  \* MAX_NUMBER_OF_CONNECTIONS = MAX_NUMBER_OF_COUNTERS
    MaxMessages      \* bound: chunks one worker relays

ASSUME LifecycleAssumption ==
    /\ IsFiniteSet(Workers)
    /\ NoPid \notin Workers
    /\ MaxConnections \in Nat \ {0}
    /\ MaxMessages \in Nat

Slots == 0 .. MaxConnections - 1

\* One counter more than there are connections: the last is the trash counter.
Clients == 0 .. MaxConnections
Trash == MaxConnections

\* Phases in which ev_signal_start has installed a SIGQUIT handler.
Handling == {"loop", "relaying", "stopping"}

Phases == {"unborn", "scan", "claim", "connect", "ready", "clearscan", "clear",
           "decrement", "exited", "crashed"} \cup Handling

Gone == {"exited", "crashed"}

VARIABLES
    main,        \* what the main process does: loop, kill, send, exited
    kill_i,      \* the index of the kill loop
    seen,        \* the pid the kill loop has loaded
    client_number, active_connections, pids,
    pc,          \* the phase of each worker
    scan,        \* the index of its registration or clearing loop
    connected,   \* its local flag
    client,      \* the client_number it was forked with
    running,     \* its flag that keeps it in its loop
    sigquit,     \* a SIGQUIT its handler has recorded and its loop not seen
    counters,    \* the shared counters (their messages)
    printed,     \* what the statistics said
    relayed,     \* history: chunks each worker has counted
    lost,        \* history: workers whose registration failed or was erased
    registered   \* history: workers in the table when the main loop ended

mainVars == <<main, kill_i, seen, client_number, printed, registered>>
tableVars == <<pids, scan, lost>>
loopVars == <<client, running, sigquit>>
countVars == <<counters, relayed>>
activeVars == <<active_connections, connected>>
vars == <<mainVars, tableVars, loopVars, countVars, activeVars, pc>>

Registered == {w \in Workers : \E i \in Slots : pids[i] = w}

Init ==
    /\ main = "loop" /\ kill_i = 0 /\ seen = NoPid
    /\ client_number = 0 /\ active_connections = 0
    /\ pids = [i \in Slots |-> NoPid]
    /\ pc = [w \in Workers |-> "unborn"]
    /\ scan = [w \in Workers |-> 0]
    /\ connected = [w \in Workers |-> FALSE]
    /\ client = [w \in Workers |-> 0]
    /\ running = [w \in Workers |-> TRUE]
    /\ sigquit = [w \in Workers |-> FALSE]
    /\ counters = [c \in Clients |-> 0]
    /\ printed = [c \in {} |-> 0]
    /\ relayed = [w \in Workers |-> 0]
    /\ lost = {} /\ registered = {}

-----------------------------------------------------------------------------
(* The main process: accept_cb. *)

\* The test of accept_cb; while it fails the client waits in the backlog.
MayAccept == main = "loop" /\ active_connections <= MaxConnections

\* Mutants of NextClient: no clamp, and a clamp one client too early.
NextClientUnclamped == client_number + 1

NextClientClampsEarly == IF client_number < MaxConnections - 1 THEN client_number + 1
                                                               ELSE client_number

\* The clamp: past the last client everybody shares the trash counter.
NextClient == IF client_number < MaxConnections THEN client_number + 1
                                                ELSE client_number

Accept(w) ==
    /\ MayAccept
    /\ pc[w] = "unborn"
    /\ pc' = [pc EXCEPT ![w] = "scan"]
    /\ client' = [client EXCEPT ![w] = client_number]
    /\ client_number' = NextClient
    /\ UNCHANGED <<main, kill_i, seen, printed, registered, running, sigquit>>
    /\ UNCHANGED <<tableVars, countVars, activeVars>>

\* fork() returns -1: the client is dropped, and has used a number if there was one.
AcceptForkFails ==
    /\ MayAccept
    /\ client_number' = NextClient
    /\ UNCHANGED <<main, kill_i, seen, printed, registered>>
    /\ UNCHANGED <<tableVars, loopVars, countVars, activeVars, pc>>

-----------------------------------------------------------------------------
(* A worker: registration, a loop that tests and then stores. *)

\* A loop over the table passes a slot; past the last one the worker goes on.
Skip(w, phase, after) ==
    /\ pc[w] = phase
    /\ IF scan[w] + 1 \in Slots
       THEN scan' = [scan EXCEPT ![w] = @ + 1] /\ pc' = pc
       ELSE scan' = [scan EXCEPT ![w] = 0] /\ pc' = [pc EXCEPT ![w] = after]

FindFree(w) ==
    /\ pc[w] = "scan"
    /\ pids[scan[w]] = NoPid
    /\ pc' = [pc EXCEPT ![w] = "claim"]
    /\ UNCHANGED <<mainVars, tableVars, loopVars, countVars, activeVars>>

\* The slot is taken; a worker that finds no free one goes on without a slot.
SkipTaken(w) ==
    /\ pids[scan[w]] # NoPid
    /\ Skip(w, "scan", "connect")
    /\ lost' = IF pc'[w] = "connect" THEN lost \cup {w} ELSE lost
    /\ UNCHANGED <<mainVars, pids, loopVars, countVars, activeVars>>

\* The store: whoever claimed the slot since the test is erased.
Claim(w) ==
    /\ pc[w] = "claim"
    /\ pids' = [pids EXCEPT ![scan[w]] = w]
    /\ lost' = lost \cup ({pids[scan[w]]} \cap Workers)
    /\ scan' = [scan EXCEPT ![w] = 0]
    /\ pc' = [pc EXCEPT ![w] = "connect"]
    /\ UNCHANGED <<mainVars, loopVars, countVars, activeVars>>

-----------------------------------------------------------------------------
(* A worker: connection, relaying, end of the loop. *)

Connect(w) ==
    /\ pc[w] = "connect"
    /\ active_connections' = active_connections + 1
    /\ connected' = [connected EXCEPT ![w] = TRUE]
    /\ pc' = [pc EXCEPT ![w] = "ready"]
    /\ UNCHANGED <<mainVars, tableVars, loopVars, countVars>>

\* pgprtdbg_connect returned 1: there is no loop, and no handler to remove.
ConnectFails(w) ==
    /\ pc[w] = "connect"
    /\ pc' = [pc EXCEPT ![w] = "clearscan"]
    /\ UNCHANGED <<mainVars, tableVars, loopVars, countVars, activeVars>>

\* ev_signal_start and the two ev_io_start.
Install(w) ==
    /\ pc[w] = "ready"
    /\ pc' = [pc EXCEPT ![w] = "loop"]
    /\ UNCHANGED <<mainVars, tableVars, loopVars, countVars, activeVars>>

\* sent_messages++ (or rcvd_messages++) is a load and a store.  On a counter that
\* another process increments too, the store may use any older value.
Counted(w) ==
    LET c == client[w] IN
    IF \E v \in Workers \ {w} : client[v] = c /\ pc[v] # "unborn"
    THEN 1 .. counters[c] + 1
    ELSE {counters[c] + 1}

\* A callback has read a chunk and counted it; next it writes it to the other side.
\* The second callback of an iteration runs even when the first has cleared running.
BeginRelay(w) ==
    /\ pc[w] = "loop"
    /\ relayed[w] < MaxMessages
    /\ \E n \in Counted(w) : counters' = [counters EXCEPT ![client[w]] = n]
    /\ relayed' = [relayed EXCEPT ![w] = @ + 1]
    /\ pc' = [pc EXCEPT ![w] = "relaying"]
    /\ UNCHANGED <<mainVars, tableVars, loopVars, activeVars>>

\* The blocking write has returned; nothing obliges the peer to let it return.
EndRelay(w) ==
    /\ pc[w] = "relaying"
    /\ pc' = [pc EXCEPT ![w] = "loop"]
    /\ UNCHANGED <<mainVars, tableVars, loopVars, countVars, activeVars>>

\* Terminate, FATAL, end of file or an error on either socket.
Finish(w) ==
    /\ pc[w] \in {"loop", "relaying"}
    /\ running' = [running EXCEPT ![w] = FALSE]
    /\ pc' = [pc EXCEPT ![w] = "loop"]
    /\ UNCHANGED <<mainVars, tableVars, client, sigquit, countVars, activeVars>>

\* Mutant of HandleSigquit: the callback forgets running = 0.
HandleSigquitKeepsRunning(w) ==
    /\ pc[w] = "loop"
    /\ sigquit[w]
    /\ sigquit' = [sigquit EXCEPT ![w] = FALSE]
    /\ UNCHANGED <<mainVars, tableVars, client, running, countVars, activeVars, pc>>

\* sigquit_cb.
HandleSigquit(w) ==
    /\ pc[w] = "loop"
    /\ sigquit[w]
    /\ sigquit' = [sigquit EXCEPT ![w] = FALSE]
    /\ running' = [running EXCEPT ![w] = FALSE]
    /\ UNCHANGED <<mainVars, tableVars, client, countVars, activeVars, pc>>

\* ev_loop returns after the iteration and the while ends.
LeaveLoop(w) ==
    /\ pc[w] = "loop"
    /\ ~running[w]
    /\ pc' = [pc EXCEPT ![w] = "stopping"]
    /\ UNCHANGED <<mainVars, tableVars, loopVars, countVars, activeVars>>

\* The process ends inside a callback, without the cleanup: exit(1) on an unknown
\* startup request, or SIGPIPE from a write to a peer that is gone.
Crash(w) ==
    /\ pc[w] = "relaying"
    /\ pc' = [pc EXCEPT ![w] = "crashed"]
    /\ UNCHANGED <<mainVars, tableVars, loopVars, countVars, activeVars>>

-----------------------------------------------------------------------------
(* A worker: cleanup. *)

\* ev_signal_stop: a SIGQUIT still pending in libev is forgotten.
Uninstall(w) ==
    /\ pc[w] = "stopping"
    /\ sigquit' = [sigquit EXCEPT ![w] = FALSE]
    /\ pc' = [pc EXCEPT ![w] = "clearscan"]
    /\ UNCHANGED <<mainVars, tableVars, client, running, countVars, activeVars>>

ClearFind(w) ==
    /\ pc[w] = "clearscan"
    /\ pids[scan[w]] = w
    /\ pc' = [pc EXCEPT ![w] = "clear"]
    /\ UNCHANGED <<mainVars, tableVars, loopVars, countVars, activeVars>>

\* Mutant of ClearSkip: the clearing loop gives up after its first slot.
ClearSkipGivesUp(w) ==
    /\ pc[w] = "clearscan"
    /\ pids[scan[w]] # w
    /\ pc' = [pc EXCEPT ![w] = "decrement"]
    /\ UNCHANGED <<mainVars, tableVars, loopVars, countVars, activeVars>>

ClearSkip(w) ==
    /\ pids[scan[w]] # w
    /\ Skip(w, "clearscan", "decrement")
    /\ UNCHANGED <<mainVars, pids, lost, loopVars, countVars, activeVars>>

\* Mutant of Clear: the store goes to the first slot of the table.
ClearFirst(w) ==
    /\ pc[w] = "clear"
    /\ pids' = [pids EXCEPT ![0] = NoPid]
    /\ scan' = [scan EXCEPT ![w] = 0]
    /\ pc' = [pc EXCEPT ![w] = "decrement"]
    /\ UNCHANGED <<mainVars, lost, loopVars, countVars, activeVars>>

\* The store: a worker that claimed the slot since the test is erased.
Clear(w) ==
    /\ pc[w] = "clear"
    /\ pids' = [pids EXCEPT ![scan[w]] = NoPid]
    /\ lost' = lost \cup ({pids[scan[w]]} \cap (Workers \ {w}))
    /\ scan' = [scan EXCEPT ![w] = 0]
    /\ pc' = [pc EXCEPT ![w] = "decrement"]
    /\ UNCHANGED <<mainVars, loopVars, countVars, activeVars>>

\* Mutant of Exit: the test of the flag is dropped.
ExitAlwaysCountsDown(w) ==
    /\ pc[w] = "decrement"
    /\ active_connections' = active_connections - 1
    /\ connected' = [connected EXCEPT ![w] = FALSE]
    /\ pc' = [pc EXCEPT ![w] = "exited"]
    /\ UNCHANGED <<mainVars, tableVars, loopVars, countVars>>

\* The count goes down if the local flag says it went up; the flag dies here.
Exit(w) ==
    /\ pc[w] = "decrement"
    /\ active_connections' = active_connections - (IF connected[w] THEN 1 ELSE 0)
    /\ connected' = [connected EXCEPT ![w] = FALSE]
    /\ pc' = [pc EXCEPT ![w] = "exited"]
    /\ UNCHANGED <<mainVars, tableVars, loopVars, countVars>>

-----------------------------------------------------------------------------
(* The main process: shutdown. *)

Shutdown ==
    /\ main = "loop"
    /\ main' = "kill"
    /\ registered' = Registered
    /\ UNCHANGED <<kill_i, seen, client_number, printed>>
    /\ UNCHANGED <<tableVars, loopVars, countVars, activeVars, pc>>

\* Mutant of KillTest: the loop ends at the first free slot.
KillTestStopsAtHole ==
    /\ main = "kill"
    /\ kill_i \in Slots
    /\ IF pids[kill_i] = NoPid
       THEN kill_i' = MaxConnections /\ UNCHANGED <<main, seen>>
       ELSE main' = "send" /\ seen' = pids[kill_i] /\ UNCHANGED kill_i
    /\ UNCHANGED <<client_number, printed, registered>>
    /\ UNCHANGED <<tableVars, loopVars, countVars, activeVars, pc>>

\* The optimised build loads config->pids[i] once, for the test and for kill().
KillTest ==
    /\ main = "kill"
    /\ kill_i \in Slots
    /\ IF pids[kill_i] = NoPid
       THEN kill_i' = kill_i + 1 /\ UNCHANGED <<main, seen>>
       ELSE main' = "send" /\ seen' = pids[kill_i] /\ UNCHANGED kill_i
    /\ UNCHANGED <<client_number, printed, registered>>
    /\ UNCHANGED <<tableVars, loopVars, countVars, activeVars, pc>>

\* kill(): the default action ends a worker that has no handler (yet, or any more).
KillSend ==
    /\ main = "send"
    /\ main' = "kill" /\ kill_i' = kill_i + 1 /\ seen' = NoPid
    /\ pc' = [pc EXCEPT ![seen] = IF @ \in Handling \cup Gone THEN @ ELSE "crashed"]
    /\ sigquit' = [sigquit EXCEPT ![seen] = @ \/ pc[seen] \in Handling]
    /\ UNCHANGED <<client_number, printed, registered, client, running>>
    /\ UNCHANGED <<tableVars, countVars, activeVars>>

\* Mutants of OutputStatistics: the last client is missing, and the main process waits
\* for the workers it has signalled.
OutputStatisticsOneShort ==
    /\ main = "kill"
    /\ kill_i \notin Slots
    /\ main' = "exited"
    /\ printed' = [c \in 0 .. client_number - 2 |-> counters[c]]
    /\ UNCHANGED <<kill_i, seen, client_number, registered>>
    /\ UNCHANGED <<tableVars, loopVars, countVars, activeVars, pc>>

OutputStatisticsAfterWorkers ==
    /\ main = "kill"
    /\ kill_i \notin Slots
    /\ \A w \in registered : pc[w] \in Gone
    /\ main' = "exited"
    /\ printed' = [c \in 0 .. client_number - 1 |-> counters[c]]
    /\ UNCHANGED <<kill_i, seen, client_number, registered>>
    /\ UNCHANGED <<tableVars, loopVars, countVars, activeVars, pc>>

\* pgprtdbg_counter_output_statistics(client_number): nobody waits for the workers.
OutputStatistics ==
    /\ main = "kill"
    /\ kill_i \notin Slots
    /\ main' = "exited"
    /\ printed' = [c \in 0 .. client_number - 1 |-> counters[c]]
    /\ UNCHANGED <<kill_i, seen, client_number, registered>>
    /\ UNCHANGED <<tableVars, loopVars, countVars, activeVars, pc>>

-----------------------------------------------------------------------------
MainStep == Shutdown \/ KillTest \/ KillSend \/ OutputStatistics

Register(w) == FindFree(w) \/ SkipTaken(w) \/ Claim(w)

Cleanup(w) == Uninstall(w) \/ ClearFind(w) \/ ClearSkip(w) \/ Clear(w) \/ Exit(w)

Next ==
    \/ AcceptForkFails
    \/ MainStep
    \/ \E w \in Workers :
          \/ Accept(w) \/ Register(w)
          \/ Connect(w) \/ ConnectFails(w) \/ Install(w)
          \/ BeginRelay(w) \/ EndRelay(w) \/ Crash(w)
          \/ Finish(w) \/ HandleSigquit(w) \/ LeaveLoop(w)
          \/ Cleanup(w)

Spec == Init /\ [][Next]_vars

(***************************************************************************)
(* A process that can run does, except that: no client need ever arrive,   *)
(* no signal need ever be sent to the main process, a peer need not send   *)
(* or read anything, and no failure need happen.  connect() ends, with a   *)
(* connection or with the kernel's timeout.  libev polls its signal pipe   *)
(* in every iteration, and every callback breaks the loop, so a worker     *)
(* that keeps coming back to its loop sees a recorded signal and a cleared *)
(* running: strong fairness.                                               *)
(***************************************************************************)
Fairness ==
    /\ WF_vars(KillTest) /\ WF_vars(KillSend) /\ WF_vars(OutputStatistics)
    /\ \A w \in Workers :
          /\ WF_vars(Register(w))
          /\ WF_vars(Connect(w) \/ ConnectFails(w))
          /\ WF_vars(Install(w))
          /\ SF_vars(HandleSigquit(w))
          /\ SF_vars(LeaveLoop(w))
          /\ WF_vars(Cleanup(w))

FairSpec == Spec /\ Fairness

-----------------------------------------------------------------------------
(* Properties. *)

TypeOK ==
    /\ main \in {"loop", "kill", "send", "exited"}
    /\ kill_i \in 0 .. MaxConnections
    /\ seen \in Workers \cup {NoPid}
    /\ main = "send" => seen \in Workers /\ kill_i \in Slots
    /\ client_number \in Clients
    /\ active_connections \in Int
    /\ pids \in [Slots -> Workers \cup {NoPid}]
    /\ pc \in [Workers -> Phases]
    /\ scan \in [Workers -> Slots]
    /\ connected \in [Workers -> BOOLEAN]
    /\ client \in [Workers -> Clients]
    /\ running \in [Workers -> BOOLEAN]
    /\ sigquit \in [Workers -> BOOLEAN]
    /\ counters \in [Clients -> Nat]
    /\ DOMAIN printed \subseteq Clients /\ \A c \in DOMAIN printed : printed[c] \in Nat
    /\ relayed \in [Workers -> Nat]
    /\ lost \subseteq Workers
    /\ registered \subseteq Workers

\* The registry never holds a worker twice and never holds one that has not
\* registered or has cleaned up (worker.c:77-84 and 147-154), although tests and
\* stores of different workers interleave: the kill loop of the main process
\* (main.c:371-377) then signals nobody but its own, unfinished or crashed, workers.
RegistrySound ==
    /\ \A i, j \in Slots : pids[i] # NoPid /\ pids[i] = pids[j] => i = j
    /\ \A i \in Slots : pids[i] # NoPid =>
          pc[pids[i]] \notin {"unborn", "scan", "claim", "decrement", "exited"}

\* The inductive strengthening of RegistrySound: a clearing worker is in none of the
\* slots its loop has passed, and in no other slot than the one it is about to clear;
\* the loops start at the first slot.
RegistryInv ==
    /\ RegistrySound
    /\ \A w \in Workers :
          /\ pc[w] = "clearscan" => \A j \in Slots : j < scan[w] => pids[j] # w
          /\ pc[w] = "clear" => \A j \in Slots : j # scan[w] => pids[j] # w
          /\ pc[w] \in {"connect", "ready", "loop", "relaying", "stopping"} => scan[w] = 0

\* A worker that has passed its registration and not begun to clear it is in the
\* table unless it found the table full or another worker's unsynchronised store
\* (worker.c:81 or 151) erased it: there is no other way to lose a registration.
LostOnlyByOverwrite ==
    \A w \in Workers \ lost :
        pc[w] \in {"connect", "ready", "loop", "relaying", "stopping"} =>
            w \in Registered

\* active_connections (worker.c:99 and 158) is the number of workers that have
\* connected and not run their cleanup to the end, whatever fails in between: the unsigned
\* short cannot wrap below zero when a connection fails, and no cleanup counts down twice.
\* It is not the number of connections: ActiveConnectionsLive.
ActiveConnectionsExact ==
    active_connections = Cardinality({w \in Workers : connected[w]})

\* The inductive strengthening of ActiveConnectionsExact: a worker that has not connected
\* or has counted itself out is not counted.
ActiveInv ==
    /\ ActiveConnectionsExact
    /\ \A w \in Workers :
          pc[w] \in {"unborn", "scan", "claim", "connect", "exited"} => ~connected[w]

\* A client number below MAX_NUMBER_OF_COUNTERS belongs to one worker, whose counter
\* is exact; only the trash counter is shared (main.c:434-443, protocol.c:110 and 215).
CounterPerClient ==
    \A w \in Workers : pc[w] # "unborn" /\ client[w] # Trash =>
        /\ counters[client[w]] = relayed[w]
        /\ \A v \in Workers \ {w} : pc[v] # "unborn" => client[v] # client[w]

\* The statistics (counter.c:62-74) have a line for every client that has a counter of
\* its own, no line for the trash counter, and never more chunks than were relayed.
StatisticsComplete ==
    main = "exited" =>
        /\ Trash \notin DOMAIN printed
        /\ \A w \in Workers : pc[w] # "unborn" /\ client[w] # Trash =>
              client[w] \in DOMAIN printed /\ printed[client[w]] <= relayed[w]

\* The inductive strengthening of the two: numbers are handed out in increasing order, a
\* counter without a worker is zero, and the kill loop holds a pid that has been forked.
CounterInv ==
    /\ CounterPerClient
    /\ StatisticsComplete
    /\ \A w \in Workers :
          /\ pc[w] = "unborn" => relayed[w] = 0
          /\ pc[w] # "unborn" /\ client[w] # Trash => client[w] < client_number
    /\ \A c \in Clients \ {Trash} : c >= client_number => counters[c] = 0
    /\ main = "send" => pc[seen] # "unborn"

\* The inductive strengthening of ShutdownReachesRegistered: a registered worker that
\* still runs has been signalled, has stopped, or sits in a slot the kill loop has not
\* passed; and what the loop holds is what its slot held, if a registered worker.
ShutdownInv ==
    /\ \A w \in registered : pc[w] \notin {"unborn", "scan", "claim"}
    /\ main # "loop" => \A w \in registered \ lost :
          LET ahead == \E i \in Slots : i >= kill_i /\ pids[i] = w IN
          /\ pc[w] \in {"connect", "ready"} => ahead
          /\ pc[w] \in {"loop", "relaying"} => ahead \/ sigquit[w] \/ ~running[w]
    /\ main = "send" => \A w \in registered : pids[kill_i] = w => seen = w
    /\ main = "loop" => kill_i = 0
    /\ main = "exited" => kill_i \notin Slots

\* When the kill loop (main.c:371-377) is done, every worker that was in the table when
\* the main loop ended is dead, leaving, or has a recorded SIGQUIT, unless another
\* worker erased its slot while the loop ran.
ShutdownReachesRegistered ==
    main = "exited" =>
        \A w \in registered \ lost :
            pc[w] \in {"loop", "relaying"} => sigquit[w] \/ ~running[w]

\* Once the main loop has ended the main process exits (main.c:356-392), whatever the
\* workers do.
ShutdownTerminates == (main = "kill") ~> (main = "exited")

\* A worker whose handler has recorded a SIGQUIT (worker.c:167-173), or that has left
\* its loop, ends, unless it is stuck for ever in a blocking write.
QuitWorkerEnds ==
    \A w \in Workers :
        [](sigquit[w] \/ pc[w] = "stopping" =>
              <>(pc[w] \in Gone) \/ <>[](pc[w] = "relaying"))

\* pgprtdbg.h:111, "The PIDS of the connections": every worker that holds a connection
\* is in the table.  Two workers that register at once break it.
EveryConnectionRegistered ==
    \A w \in Workers : pc[w] \in {"ready", "loop", "relaying"} => w \in Registered

\* pgprtdbg.h:110, "The active number of connections": while clients are accepted,
\* active_connections counts the workers that hold a connection, which a worker that has
\* ended does not.  A worker that ends without its cleanup (protocol.c:489) breaks it, and is
\* held against every later client by the test of accept_cb (main.c:412).
ActiveConnectionsLive ==
    main = "loop" =>
        active_connections = Cardinality({w \in Workers : connected[w] /\ pc[w] \notin Gone})
=============================================================================
