------------------------------- MODULE Network -------------------------------
(***************************************************************************)
(* The descriptors of the main process and of one worker: how the main     *)
(* process binds its sockets (src/libpgprtdbg/network.c:58-131, 396-505,   *)
(* main.c:287-335), what accept_cb and the worker do with the table they   *)
(* inherit (main.c:395-446), and how the worker connects to the server and *)
(* closes what it has (network.c:136-256, worker.c:96-135).                *)
(*                                                                         *)
(* A descriptor is the lowest number that is free, so a number that was    *)
(* closed soon names something else.  Any system call may fail, and most   *)
(* failures write a line to the log.  The process that has begun to bind   *)
(* has read its configuration and opened its files: Startup has both.      *)
(***************************************************************************)
EXTENDS Configuration, FiniteSets

CONSTANTS
    Interfaces,      \* for each interface, how many addresses it has
    Addresses,       \* how many addresses the host of the configuration has
    SocketFile,      \* the name of the Unix socket, .s.PGSQL.<port>
    LeftPaths,       \* Unix sockets that an earlier process may have left behind
    MaxPath,         \* what bind_unix_socket has room for in its path
    MaxFds           \* MAX_FDS

ASSUME NetworkAssumption ==
    /\ Interfaces \in Seq(Nat \ {0}) /\ Interfaces # <<>>
    /\ Addresses \in Nat \ {0}
    /\ SocketFile \in Seq(STRING) /\ LeftPaths \subseteq Seq(STRING)
    /\ MaxPath \in 1 .. MaxString
    /\ MaxFds \in Nat \ {0}

Uses == {"log", "output", "unix", "listener", "client", "server"}

Star == config["host"] = <<"*">>
UnixSocket == config["unix_socket_dir"] # <<>>
Hosts == IF Star THEN Interfaces ELSE <<Addresses>>

VARIABLES
    pc,        \* main process: unix, host, address, setup, libev, ready, closing, stopped,
               \* exited
    paths,     \* the Unix sockets that the file system holds
    open,      \* its table: descriptor -> what it is used for
    host,      \* the loop over interfaces
    address,   \* the loop over addresses of one host
    sockfd,
    result,    \* descriptors of this host (new_fds)
    fds,       \* descriptors of all hosts (star_fds, main_fds)
    log_file,  \* the descriptor its log_file writes to, -1 if it has none
    wpc,       \* worker: unborn, forked, closing, logging, start, connect, setup, relay,
               \* stop, exited, crashed
    wopen,     \* its table
    wlog_file, \* its log_file
    ai,        \* the listening socket the client came in on
    client_fd, server_fd,
    misfit     \* history: a close() has hit what the caller did not mean

bindVars == <<pc, paths, open, host, address, sockfd, result, fds, log_file>>
workerVars == <<wpc, wopen, wlog_file, ai, client_fd, server_fd>>
networkVars == <<bindVars, workerVars, misfit>>

\* The path of the Unix socket, and what is left of it in a buffer of n characters.
SocketPath == config["unix_socket_dir"] \o SocketFile
PathIn(n) == SubSeq(SocketPath, 1, IF Len(SocketPath) > n THEN n ELSE Len(SocketPath))

BindInit ==
    /\ pc = "unix" /\ open = [fd \in {} |-> "log"]
    /\ paths \in SUBSET LeftPaths
    /\ host = 1 /\ address = 1 /\ sockfd = -1
    /\ result = <<>> /\ fds = <<>> /\ log_file = -1
    /\ wpc = "unborn" /\ wopen = [fd \in {} |-> "log"] /\ wlog_file = -1
    /\ ai = -1 /\ client_fd = -1 /\ server_fd = -1
    /\ misfit = FALSE

-----------------------------------------------------------------------------
(* The table of a process. *)

Lowest(table) ==
    CHOOSE fd \in 0 .. Cardinality(DOMAIN table) :
        fd \notin DOMAIN table /\ \A other \in 0 .. fd - 1 : other \in DOMAIN table

Opened(table, use) ==
    [fd \in DOMAIN table \cup {Lowest(table)} |->
        IF fd \in DOMAIN table THEN table[fd] ELSE use]

\* pgprtdbg_disconnect of some descriptors; -1 and a number that is not open do nothing.
Closed(table, closing) == [fd \in DOMAIN table \ closing |-> table[fd]]

Misfits(table, closing, use) == \E fd \in closing \cap DOMAIN table : table[fd] # use

FdsOf(sequence) == {sequence[i] : i \in DOMAIN sequence}

HasOpen(table, use) == \E fd \in DOMAIN table : table[fd] = use

\* The log is a file, and log_file is NULL: nobody has looked at the result of
\* pgprtdbg_start_logging.
NoLog(log) == config["log_type"] = "file" /\ log = -1

\* A line of the log ends a main process without one.
Logs(next) == IF NoLog(log_file) THEN "exited" ELSE next

-----------------------------------------------------------------------------
(* The main process binds. *)

\* A path that exists is removed first.
BindUnix ==
    /\ pc = "unix"
    /\ IF UnixSocket
       THEN open' = Opened(open, "unix") /\ paths' = paths \cup {PathIn(MaxPath)}
       ELSE UNCHANGED <<open, paths>>
    /\ pc' = "host"
    /\ UNCHANGED <<host, address, sockfd, result, fds, log_file, workerVars, misfit>>

BindUnixFails ==
    /\ pc = "unix" /\ UnixSocket
    /\ paths' \in {paths, paths \ {PathIn(MaxPath)}}
    /\ pc' = "exited"
    /\ UNCHANGED <<open, host, address, sockfd, result, fds, log_file, workerVars, misfit>>

\* getifaddrs.
InterfacesFail ==
    /\ pc = "host" /\ Star /\ host = 1
    /\ pc' = "exited"
    /\ UNCHANGED <<paths, open, host, address, sockfd, result, fds, log_file, workerVars, misfit>>

\* getaddrinfo.
Resolve ==
    /\ pc = "host" /\ host <= Len(Hosts)
    /\ address' = 1 /\ result' = <<>>
    /\ pc' = "address"
    /\ UNCHANGED <<paths, open, host, sockfd, fds, log_file, workerVars, misfit>>

Socket ==
    /\ pc = "address" /\ address <= Hosts[host]
    /\ sockfd' = Lowest(open)
    /\ open' = Opened(open, "listener")
    /\ pc' = "setup"
    /\ UNCHANGED <<paths, host, address, result, fds, log_file, workerVars, misfit>>

SocketFails ==
    /\ pc = "address" /\ address <= Hosts[host]
    /\ address' = address + 1
    /\ pc' = Logs("address")
    /\ UNCHANGED <<paths, open, host, sockfd, result, fds, log_file, workerVars, misfit>>

\* The options, bind and listen have succeeded.
Listen ==
    /\ pc = "setup"
    /\ result' = Append(result, sockfd)
    /\ address' = address + 1
    /\ pc' = "address"
    /\ UNCHANGED <<paths, open, host, sockfd, fds, log_file, workerVars, misfit>>

\* Mutant of SetupFails: the descriptor is not closed.
SetupFailsLeaks ==
    /\ pc = "setup"
    /\ address' = address + 1
    /\ pc' = "address"
    /\ UNCHANGED <<paths, open, host, sockfd, result, fds, log_file, workerVars, misfit>>

\* One of them has failed: disconnect, a line for bind and listen, and the next address.
SetupFails ==
    /\ pc = "setup"
    /\ open' = Closed(open, {sockfd})
    /\ misfit' = (misfit \/ Misfits(open, {sockfd}, "listener"))
    /\ address' = address + 1
    /\ pc' \in {"address", Logs("address")}
    /\ UNCHANGED <<paths, host, sockfd, result, fds, log_file, workerVars>>

\* bind_host returns 0, and its descriptors join the others.
HostBound ==
    /\ pc = "address" /\ address > Hosts[host] /\ result # <<>>
    /\ fds' = fds \o result
    /\ host' = host + 1
    /\ pc' = "host"
    /\ UNCHANGED <<paths, open, address, sockfd, result, log_file, workerVars, misfit>>

\* bind_host returns 1, with a line if it was getaddrinfo: an interface is skipped, a
\* single host ends the program.
HostFails ==
    /\ \/ pc = "host" /\ host <= Len(Hosts) /\ pc' = IF Star THEN Logs("host") ELSE "exited"
       \/ pc = "address" /\ address > Hosts[host] /\ result = <<>>
             /\ pc' = IF Star THEN "host" ELSE "exited"
    /\ host' = host + 1
    /\ UNCHANGED <<paths, open, address, sockfd, result, fds, log_file, workerVars, misfit>>

\* pgprtdbg_bind returns 0, also when no interface could be bound.
Bound ==
    /\ pc = "host" /\ host > Len(Hosts)
    /\ pc' = IF Len(fds) > MaxFds THEN "exited" ELSE "libev"
    /\ UNCHANGED <<paths, open, host, address, sockfd, result, fds, log_file, workerVars, misfit>>

-----------------------------------------------------------------------------
(* accept_cb: the worker gets a copy of the table with the client in it, the main process *)
(* closes the client. *)

AcceptAndFork ==
    /\ pc = "ready" /\ wpc = "unborn"
    /\ \E fd \in FdsOf(fds) \cup {u \in DOMAIN open : open[u] = "unix"} : ai' = fd
    /\ client_fd' = Lowest(open)
    /\ wopen' = Opened(open, "client") /\ wlog_file' = log_file
    /\ wpc' = "forked"
    /\ UNCHANGED <<bindVars, server_fd, misfit>>

\* Mutant of ShutdownIo: the log is opened first.
ShutdownIoOpensLog ==
    /\ wpc = "forked"
    /\ wopen' = Opened(Closed(wopen, FdsOf(fds)), "log")
    /\ wpc' = "closing"
    /\ UNCHANGED <<bindVars, wlog_file, ai, client_fd, server_fd, misfit>>

\* shutdown_io in the child.
ShutdownIo ==
    /\ wpc = "forked"
    /\ wopen' = Closed(wopen, FdsOf(fds))
    /\ misfit' = (misfit \/ Misfits(wopen, FdsOf(fds), "listener"))
    /\ wpc' = "closing"
    /\ UNCHANGED <<bindVars, wlog_file, ai, client_fd, server_fd>>

\* Mutant of DisconnectListener: it comes after the log has been opened.
DisconnectListenerLate ==
    /\ wpc = "closing"
    /\ wlog_file' = IF config["log_type"] = "file" THEN Lowest(wopen) ELSE wlog_file
    /\ wopen' = Closed(IF config["log_type"] = "file" THEN Opened(wopen, "log") ELSE wopen, {ai})
    /\ wpc' = "start"
    /\ UNCHANGED <<bindVars, ai, client_fd, server_fd, misfit>>

\* pgprtdbg_disconnect(ai->socket): the second close of a TCP socket, the first of the
\* Unix one.
DisconnectListener ==
    /\ wpc = "closing"
    /\ wopen' = Closed(wopen, {ai})
    /\ misfit' = (misfit \/ Misfits(wopen, {ai}, IF ai \in FdsOf(fds) THEN "listener" ELSE "unix"))
    /\ wpc' = "logging"
    /\ UNCHANGED <<bindVars, wlog_file, ai, client_fd, server_fd>>

\* pgprtdbg_start_logging opens a log that is a file once more, and log_file no longer is the
\* one of the main process, also when fopen() fails.
StartLogging ==
    /\ wpc = "logging"
    /\ IF config["log_type"] = "file"
       THEN \/ wopen' = Opened(wopen, "log") /\ wlog_file' = Lowest(wopen)
            \/ wopen' = wopen /\ wlog_file' = -1
       ELSE UNCHANGED <<wopen, wlog_file>>
    /\ wpc' = "start"
    /\ UNCHANGED <<bindVars, ai, client_fd, server_fd, misfit>>

\* pgprtdbg_memory_init and the first line of the worker's log: memset stores through NULL
\* if there is no room for buffer_size bytes, and the line if there is no log.
StartClient ==
    /\ wpc = "start"
    /\ wpc' = IF config["buffer_size"] < 0 \/ NoLog(wlog_file) THEN "crashed" ELSE "connect"
    /\ UNCHANGED <<bindVars, wopen, wlog_file, ai, client_fd, server_fd, misfit>>

-----------------------------------------------------------------------------
(* The worker connects, and closes what it has. *)

ConnectSocket ==
    /\ wpc = "connect"
    /\ server_fd' = Lowest(wopen)
    /\ wopen' = Opened(wopen, "server")
    /\ wpc' = "setup"
    /\ UNCHANGED <<bindVars, wlog_file, ai, client_fd, misfit>>

\* getaddrinfo fails, and server_fd is -1, or socket() does.  The loop is not entered again.
ConnectSocketFails ==
    /\ wpc = "connect"
    /\ wpc' = "stop"
    /\ UNCHANGED <<bindVars, wopen, wlog_file, ai, client_fd, server_fd, misfit>>

Connected ==
    /\ wpc = "setup"
    /\ wpc' = "relay"
    /\ UNCHANGED <<bindVars, wopen, wlog_file, ai, client_fd, server_fd, misfit>>

\* An option or connect() fails on the first address: disconnect and return 1.
\* server_fd keeps the number.
ConnectFails ==
    /\ wpc = "setup"
    /\ wopen' = Closed(wopen, {server_fd})
    /\ misfit' = (misfit \/ Misfits(wopen, {server_fd}, "server"))
    /\ wpc' = "stop"
    /\ UNCHANGED <<bindVars, wlog_file, ai, client_fd, server_fd>>

\* ev_loop_new returns NULL, and nobody looks.
NoLoop ==
    /\ wpc = "setup"
    /\ wpc' = "crashed"
    /\ UNCHANGED <<bindVars, wopen, wlog_file, ai, client_fd, server_fd, misfit>>

EndRelay ==
    /\ wpc = "relay"
    /\ wpc' = "stop"
    /\ UNCHANGED <<bindVars, wopen, wlog_file, ai, client_fd, server_fd, misfit>>

\* Mutant of Disconnect: the server's descriptor is forgotten.
DisconnectClientOnly ==
    /\ wpc = "stop"
    /\ wopen' = Closed(wopen, {client_fd})
    /\ wpc' = "exited"
    /\ UNCHANGED <<bindVars, wlog_file, ai, client_fd, server_fd, misfit>>

\* Both sockets, whether or not the connection came about.
Disconnect ==
    /\ wpc = "stop"
    /\ wopen' = Closed(wopen, {client_fd, server_fd})
    /\ misfit' = (misfit \/ Misfits(wopen, {client_fd}, "client")
                         \/ Misfits(wopen, {server_fd}, "server"))
    /\ wpc' = "exited"
    /\ UNCHANGED <<bindVars, wlog_file, ai, client_fd, server_fd>>

-----------------------------------------------------------------------------
Bind ==
    \/ BindUnix \/ BindUnixFails \/ InterfacesFail \/ Resolve
    \/ Socket \/ SocketFails \/ Listen \/ SetupFails
    \/ HostBound \/ HostFails \/ Bound

Worker ==
    \/ AcceptAndFork \/ ShutdownIo \/ DisconnectListener \/ StartLogging \/ StartClient
    \/ ConnectSocket \/ ConnectSocketFails \/ Connected \/ ConnectFails
    \/ NoLoop \/ EndRelay \/ Disconnect

-----------------------------------------------------------------------------
(* Properties. *)

Table(table) == DOMAIN table \subseteq Nat /\ \A fd \in DOMAIN table : table[fd] \in Uses

NetworkTypeOK ==
    /\ pc \in {"unix", "host", "address", "setup", "libev", "ready", "closing", "stopped",
               "exited"}
    /\ paths \in SUBSET Seq(STRING)
    /\ wpc \in {"unborn", "forked", "closing", "logging", "start", "connect", "setup", "relay",
                "stop", "exited", "crashed"}
    /\ Table(open) /\ Table(wopen)
    /\ host \in Nat \ {0} /\ address \in Nat \ {0}
    /\ result \in Seq(Nat) /\ fds \in Seq(Nat)
    /\ log_file \in Int /\ wlog_file \in Int
    /\ sockfd \in Int /\ ai \in Int /\ client_fd \in Int /\ server_fd \in Int
    /\ pc \notin {"closing", "stopped", "exited"} =>
          FdsOf(fds) \cup FdsOf(result) \subseteq DOMAIN open
    /\ misfit \in BOOLEAN

UsedFor(table, use) == {fd \in DOMAIN table : table[fd] = use}

\* The descriptors of the host that is being bound.
Current ==
    (IF pc \in {"address", "setup"} THEN FdsOf(result) ELSE {})
        \cup (IF pc = "setup" THEN {sockfd} ELSE {})

Distinct(sequence) ==
    \A i, j \in DOMAIN sequence : sequence[i] = sequence[j] => i = j

\* The inductive invariant of the main process: what it listens on is what it has stored, or
\* is about to store, each of them once.
BindInv ==
    /\ IsFiniteSet(DOMAIN open)
    /\ UsedFor(open, "client") = {} /\ UsedFor(open, "server") = {}
    /\ pc \notin {"closing", "stopped", "exited"} =>
          UsedFor(open, "listener") = FdsOf(fds) \cup Current
    /\ pc \in {"unix", "host", "libev", "ready"} => FdsOf(result) \subseteq FdsOf(fds)
    /\ Distinct(fds)
    /\ pc \in {"address", "setup"} => Distinct(result) /\ FdsOf(fds) \cap FdsOf(result) = {}
    /\ pc = "setup" => sockfd \in Nat /\ sockfd \notin FdsOf(fds) \cup FdsOf(result)
    /\ pc = "closing" => UsedFor(open, "listener") = {} /\ UsedFor(open, "unix") = {}

Live == {"forked", "closing", "logging", "start", "connect", "setup", "relay", "stop"}

\* The inductive invariant of the worker: what each number it holds or has held is used for.
WorkerInv ==
    /\ ~misfit
    /\ IsFiniteSet(DOMAIN wopen)
    /\ wpc # "unborn" => pc \in {"ready", "closing", "stopped", "exited"}
    /\ wpc = "forked" => UsedFor(wopen, "listener") = FdsOf(fds)
    /\ wpc \notin {"unborn", "forked"} => UsedFor(wopen, "listener") = {}
    /\ wpc = "closing" => FdsOf(fds) \cap DOMAIN wopen = {}
    /\ wpc \in {"forked", "closing"} => ai \in FdsOf(fds) \cup UsedFor(wopen, "unix")
    /\ wpc \in Live => UsedFor(wopen, "client") = {client_fd}
    /\ wpc \in {"unborn", "forked", "closing", "logging", "start", "connect"} =>
          server_fd = -1 /\ UsedFor(wopen, "server") = {}
    /\ wpc \in {"setup", "relay"} => UsedFor(wopen, "server") = {server_fd}
    /\ wpc = "stop" => UsedFor(wopen, "server") = {server_fd} \cap DOMAIN wopen
    /\ wpc = "exited" => UsedFor(wopen, "client") = {} /\ UsedFor(wopen, "server") = {}

\* The inductive invariant of the logs: a log_file that is not NULL is open for as long as its
\* process may write to it, and a worker past its first line has one.
Logging == {"start", "connect", "setup", "relay", "stop"}

LogInv ==
    config["log_type"] = "file" =>
        /\ pc # "stopped" /\ log_file # -1 => log_file \in UsedFor(open, "log")
        /\ pc \in {"ready", "closing"} => log_file # -1
        /\ wpc \in Logging /\ wlog_file # -1 => wlog_file \in UsedFor(wopen, "log")
        /\ wpc \in Logging \ {"start"} => wlog_file # -1

\* Whoever serves writes to a log of its own (logging.c:55-71): the number behind its log_file
\* is still the log, in the main process from its first line (main.c:337) to the end of its
\* sockets, in a worker from its first line (worker.c:86) to the last (worker.c:124), although
\* nobody looks at the result of pgprtdbg_start_logging (main.c:279, worker.c:64) and both
\* processes close sockets by number, some of them twice, after they have opened it.
LogIsOpen ==
    config["log_type"] = "file" =>
        /\ pc \in {"ready", "closing"} => log_file \in UsedFor(open, "log")
        /\ wpc \in Logging \ {"start"} => wlog_file \in UsedFor(wopen, "log")

\* Whatever fails on the way (network.c:443-491, main.c:298-335), the main process listens
\* on exactly the descriptors it knows of, each of them once: none leaks and none is stale.
ListenersExact ==
    pc = "ready" =>
        /\ FdsOf(fds) = UsedFor(open, "listener")
        /\ Distinct(fds)

\* No close() hits a descriptor that has been given to something else since, although the
\* code closes twice the listening socket a client came in on (main.c:427-428) and the
\* socket of a failed connection (network.c:224, worker.c:135).
ClosesOwn == ~misfit

\* A worker that relays (worker.c:102-121) holds its client and its server and none of the
\* TCP sockets the main process listens on; one that has ended its session
\* (worker.c:134-135) holds neither peer, wherever the connection failed.
WorkerDescriptors ==
    /\ wpc = "relay" =>
          /\ client_fd \in DOMAIN wopen /\ wopen[client_fd] = "client"
          /\ server_fd \in DOMAIN wopen /\ wopen[server_fd] = "server"
          /\ ~HasOpen(wopen, "listener")
    /\ wpc = "exited" => ~HasOpen(wopen, "client") /\ ~HasOpen(wopen, "server")
=============================================================================
