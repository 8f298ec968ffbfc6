------------------------------- MODULE Startup -------------------------------
(***************************************************************************)
(* The life of the main process outside its loop (src/main.c:158-393): the *)
(* configuration (Configuration), the daemon, the log and the trace file,  *)
(* the sockets and the first worker (Network), the libev engine, and, once *)
(* the loop has ended, the release of what was opened.                     *)
(*                                                                         *)
(* Several results are ignored on the way: a log or a trace file that      *)
(* could not be opened is noticed only by the first use of NULL.           *)
(***************************************************************************)
EXTENDS Network

CONSTANT Engines    \* the engines that the libev at hand supports

ASSUME StartupAssumption == Engines \subseteq STRING

VARIABLES
    daemon,    \* the option -d
    loop       \* main_loop: none, auto or an engine

vars == <<stage, confVars, networkVars, daemon, loop>>

Init ==
    /\ ConfInit /\ BindInit
    /\ daemon \in BOOLEAN
    /\ loop = "none"

-----------------------------------------------------------------------------
(* Before the sockets. *)

\* Console logging is refused to a daemon; fork() and setsid() may fail.  The parent, which
\* exits at once, is not modelled.
Daemonize ==
    /\ stage = "daemon"
    /\ stage' \in IF ~daemon THEN {"log"}
                  ELSE IF config["log_type"] = "console" THEN {"exited"}
                  ELSE {"log", "exited"}
    /\ UNCHANGED <<confVars, networkVars, daemon, loop>>

\* A file is opened: it is in the table if fopen() succeeds.  The process goes on anyway.
OpenFile(use, next) ==
    /\ open' \in {open, Opened(open, use)}
    /\ stage' = next
    /\ UNCHANGED <<confVars, pc, paths, host, address, sockfd, result, fds, workerVars, misfit,
                   daemon, loop>>

OpenLog ==
    /\ stage = "log" /\ config["log_type"] = "file"
    /\ OpenFile("log", "output")
    /\ log_file' = IF open' = open THEN -1 ELSE Lowest(open)

ConsoleLog ==
    /\ stage = "log" /\ config["log_type"] = "console"
    /\ stage' = "output"
    /\ UNCHANGED <<confVars, networkVars, daemon, loop>>

OpenOutput ==
    /\ stage = "output"
    /\ OpenFile("output", "bind")
    /\ UNCHANGED log_file

-----------------------------------------------------------------------------
(* The loop, and the end. *)

Known == {<<"select">>, <<"poll">>, <<"epoll">>, <<"iouring">>, <<"devpoll">>, <<"port">>}

\* Mutant of Libev: the engine is not checked.
LibevAny(engine) ==
    IF engine \in Known THEN engine[1] ELSE "auto"

\* pgprtdbg_libev: the engine to ask for.  An unknown or unavailable one costs a line of the
\* log, which the lines of the start follow at once.
Libev(engine) == IF engine \in Known /\ engine[1] \in Engines THEN engine[1] ELSE "auto"

NoLoopImplementation ==
    /\ stage = "bind" /\ pc = "libev"
    /\ pc' = "exited"
    /\ UNCHANGED <<stage, confVars, paths, open, host, address, sockfd, result, fds, log_file,
                   workerVars, misfit, daemon, loop>>

\* The loop is made, the watchers are started and the lines of the start are written.
StartIo ==
    /\ stage = "bind" /\ pc = "libev"
    /\ IF NoLog(log_file)
       THEN pc' = "exited" /\ UNCHANGED loop
       ELSE pc' = "ready" /\ loop' = Libev(config["libev"])
    /\ UNCHANGED <<stage, confVars, paths, open, host, address, sockfd, result, fds, log_file,
                   workerVars, misfit, daemon>>

\* Mutant of ShutdownMain: the path is forgotten.
ShutdownMainKeepsPath ==
    /\ stage = "bind" /\ pc = "ready"
    /\ open' = Closed(open, FdsOf(fds) \cup {fd \in DOMAIN open : open[fd] = "unix"})
    /\ pc' = "closing"
    /\ UNCHANGED <<stage, confVars, paths, host, address, sockfd, result, fds, log_file, workerVars,
                   misfit, daemon, loop>>

\* shutdown_io and shutdown_uds.  The path to remove is put together in a longer buffer than
\* the one that was bound.
ShutdownMain ==
    /\ stage = "bind" /\ pc = "ready"
    /\ open' = Closed(open, FdsOf(fds) \cup {fd \in DOMAIN open : open[fd] = "unix"})
    /\ misfit' = (misfit \/ Misfits(open, FdsOf(fds), "listener"))
    /\ paths' = IF UnixSocket THEN paths \ {PathIn(MaxString)} ELSE paths
    /\ pc' = "closing"
    /\ UNCHANGED <<stage, confVars, host, address, sockfd, result, fds, log_file, workerVars,
                   daemon, loop>>

\* The loop is destroyed, the trace file and the log are closed; fclose(NULL) if there is
\* no trace file.
CloseFiles ==
    /\ stage = "bind" /\ pc = "closing"
    /\ IF HasOpen(open, "output")
       THEN /\ open' = Closed(open, {fd \in DOMAIN open : open[fd] \in {"output", "log"}})
            /\ loop' = "none" /\ pc' = "stopped"
       ELSE pc' = "exited" /\ UNCHANGED <<open, loop>>
    /\ UNCHANGED <<stage, confVars, paths, host, address, sockfd, result, fds, log_file, workerVars,
                   misfit, daemon>>

-----------------------------------------------------------------------------
Next ==
    \/ ReadConfiguration /\ UNCHANGED <<networkVars, daemon, loop>>
    \/ Daemonize \/ OpenLog \/ ConsoleLog \/ OpenOutput
    \/ stage = "bind" /\ (Bind \/ Worker) /\ UNCHANGED <<stage, confVars, daemon, loop>>
    \/ NoLoopImplementation \/ StartIo \/ ShutdownMain \/ CloseFiles

Spec == Init /\ [][Next]_vars

-----------------------------------------------------------------------------
(* Properties. *)

TypeOK ==
    /\ stage \in {"read", "validate", "daemon", "log", "output", "bind", "exited"}
    /\ ConfTypeOK /\ NetworkTypeOK
    /\ daemon \in BOOLEAN
    /\ loop \in {"none", "auto"} \cup Engines

\* The inductive invariant of the whole: the sockets come last, there is no log before it is
\* opened, and what was released stays so.
StartupInv ==
    /\ stage # "bind" => pc = "unix" /\ wpc = "unborn"
    /\ stage \in {"read", "validate", "daemon", "log"} => log_file = -1
    /\ pc \in {"closing", "stopped"} /\ UnixSocket /\ Len(SocketPath) <= MaxPath =>
          SocketPath \notin paths
    /\ pc = "stopped" => DOMAIN open = {}

\* A main process that has ended well (main.c:360-390) holds no descriptor, and its Unix
\* socket is no longer in the file system, unless its path was too long for bind
\* (network.c:265, 342: the two buffers differ).
ReleasesAll ==
    pc = "stopped" =>
        /\ DOMAIN open = {}
        /\ UnixSocket /\ Len(SocketPath) <= MaxPath => SocketPath \notin paths
=============================================================================
