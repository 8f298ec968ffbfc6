# A TLA+ model of pgprtdbg

pgprtdbg sits between PostgreSQL clients and one PostgreSQL server. It relays
both directions of every connection and writes one line per protocol message to
a trace file. This directory holds TLA+ modules that model its processes, its
locks, its decoder, its relay and its start from the configuration file on, TLC
configurations that check them, and TLAPS proofs of every safety property of the passing runs but one. All paths
below are relative to `src/src/` of the repository unless they begin with `src/`.

## The system

| Component | Source | State it keeps | Operations |
|---|---|---|---|
| Main process | `main.c` | `keep_running`, `client_number`, listening sockets | startup, `accept_cb`, `shutdown_cb`, the kill loop, statistics |
| Worker, one process per client | `libpgprtdbg/worker.c` | `running`, `exit_code`, `connected`, two sockets | registration, connection, loop, `sigquit_cb`, cleanup |
| Shared memory | `shmem.c`, `pgprtdbg.h` | `pids`, `active_connections`, `log_lock`, trace semaphore, counters, settings | mapped before the first fork |
| Event counters | `counter.c` | messages and bytes of each client | increments by workers, `output_statistics` by the main process |
| Log | `logging.c` | the flag `log_lock`, the log file | lock with timeout, unlock, line, memory dump |
| Decoder | `protocol.c`, `utils.c` | one byte buffer per worker, for both directions | `pgprtdbg_client`, `pgprtdbg_server`, `fe_*`, `be_*`, `output_write` |
| Relay | `pipeline.c`, `message.c`, `memory.c` | one buffer for the chunk in hand | `read_message`, `write_message`, the two callbacks |
| Network | `network.c`, `main.c` | the descriptors of each process, the path of the Unix socket | bind, connect, disconnect, Unix socket |
| Configuration | `configuration.c` | the settings, the one server | defaults, read, validate |
| Trace semaphore | `protocol.c` | `config->lock` | `sem_wait` and `sem_post` around each line |
| Traffic files | `utils.c` | a file per side of a client | append a chunk |
| Helpers | `utils.c` | none | byte readers, libev engines |

The main process forks a worker per client. From then on they interact through
shared memory (the table of pids, the count of connections, the counters, the
log lock, the semaphore of the trace file) and through one signal, SIGQUIT, from
the main process to the workers. A worker is one thread with a libev loop; its
two callbacks read a chunk from one socket, give it to the decoder and write it
to the other socket with a blocking call. Nothing is persisted but the log, the
trace and the traffic files, and nothing is read back.

What is hard here, and what makes each part correct:

- **Registration, cleanup and the kill loop** test and store in the table without
  synchronisation, while workers come, go and die. Correct means: no worker is in
  the table twice or after it has cleaned up, a worker goes missing in one known
  way only, and a shutdown reaches everybody in the table.
- **Limits**: one worker more than slots, one counter more than clients, an atomic
  `unsigned short`. Correct means: the count is exact, counters are not shared below the
  limit, statistics are complete.
- **The log lock** may give up after a second, and its holder may die. Correct means:
  it excludes as long as nobody gives up, degrades in a bounded way and never
  blocks a caller for ever.
- **The decoder** sees chunks, not messages, from both directions in one buffer.
  Correct means: the trace is the conversation, whatever the chunks are.
- **The relay** is one thread with blocking writes between two peers. Correct
  means: two pipes, complete up to the end of a stream, that do not stand still.
- **The walks over fields** trust counts and lengths that a peer has sent. Correct means: they end
  where their message does, as long as the message boundaries are right.
- **Configuration and start** copy texts without their ends, use a variable before it is set and
  ignore results. Correct means: the server is the one the file names, and nobody serves without the files
  it needs to log.
- **Descriptors** are inherited by workers, closed twice in two places, and opened in loops
  in which every call may fail. Correct means: nothing leaks, nothing stale is kept and no close hits
  somebody else's descriptor.

`PROJECT.json` lists every hazard at its line with the properties that cover it.

## The modules

| Module | What it is |
|---|---|
| `Lifecycle` | main process, workers, table of pids, connections, counters, shutdown |
| `LifecycleProofs` | theorems about it |
| `LogLock` | the log lock and its sections; implements `LogSection` |
| `LogLockProofs` | theorems about it |
| `LogSection` | abstract: what a caller of the log lock may count on |
| `System` | composes `Lifecycle`, `LogSection` and the semaphore of the trace file |
| `SystemProofs` | theorems about it |
| `MessageTrace` | abstract: what the trace file promises |
| `Fields` | the walks of `fe_*` and `be_*` over a message, as operators |
| `Decoder` | the decoder of one worker, with `Fields`; implements `MessageTrace` |
| `DecoderProofs` | theorems about it |
| `Pipe` | abstract: two FIFO pipes that may break |
| `Relay` | the relay of one worker; implements `Pipe` |
| `RelayProofs` | theorems about it |
| `Configuration` | the configuration file and its validation |
| `Network` | extends it: descriptors and paths of the main process and of one worker |
| `Startup` | extends it: the main process from its first line to its last, without its loop |
| `StartupProofs` | theorems about it, `Network` and `Configuration` |
| `Lemmas` | induction over the naturals; prefixes, pieces and `FlattenSeq` of sequences |
| `MCLifecycle`, `MCSystem`, `MCDecoder`, `MCRelay`, `MCStartup` | workers and symmetry, conversations, sessions, lines and interfaces for TLC |

### Lifecycle

`pc[w]` is the place of a worker in `pgprtdbg_worker`: `scan` and `claim` are the
test and the store of the registration loop (worker.c:77-84), `clearscan` and
`clear` those of the cleanup (147-154), `connect` the connection, `ready` the time
before `ev_signal_start`, `loop` the libev loop, `relaying` a callback between
counting a chunk and the return of its blocking write, `stopping` and `decrement`
the rest of the cleanup. `main` and `kill_i` are the main process and the index of its
kill loop. The optimised build loads `config->pids[i]` once for the test and the
`kill`, so `KillTest` keeps what it has loaded in `seen` and `KillSend` uses it.
A SIGQUIT ends a worker that has no handler and is recorded in `sigquit` otherwise;
`ev_signal_stop` forgets it. `relayed`, `lost` and `registered` are history. A
counter's increment is one step when one worker owns it and may use any older value
when several share it.

Abstracted: the four fields of a counter are one count; a pid is never given
to another process; SIGQUIT is delivered at once; descriptors are in `Network`, the log and the
trace file in `System`, the traffic files in `Relay`. `accept()` failing changes nothing and is not an action.

### LogLock

The compare-and-swap, the sleep, the clock and the retry of `pgprtdbg_log_lock` are
actions, as are every line of a section and the unlock. `late[p]` says that
`difftime` has reached a second since the call; as `time()` counts whole seconds it may be
true after the first millisecond. A process may die between any two lines.

`LogSection` says what is left for a caller: a call always enters, with the flag or, after a timeout, without;
leaving frees the flag whoever holds it; a death leaves it. `LogLock` implements it, with `flag` the
lock and `inside` the processes between lock and unlock.

### System

`System` conjoins to every action of `Lifecycle` what the process does to the log and to the trace file, and
adds the steps between. `at[p]` is the place of a process relative to a section: `out`, `in`,
`trace` (in `output_write`, with the semaphore), `refuses` and then `refused` (the section of a failed
`pgprtdbg_connect`, and after it) and `fails` (the section of an error or an end of file). The sections
are those a process enters on its way: "Start client" after the registration, the line of a connection that failed, the
line of `pgprtdbg_libev` when the configuration names an engine that libev does not have (the constant `EngineMissing`: workers
ask again, each for itself), the decoder's around `BeginRelay`, the line of an error or end of file before `running` is
cleared, "Stop client", and, in the main process, the line of a client past the last counter and of the shutdown. Each enters and leaves as `LogSection` allows, so the
composition rests on what `log_lock` shows. A crash takes place where it can: the decoder's inside its
section, SIGPIPE outside, and without a trace file (`file`, whatever `fopen` returned) the first
`fputs` with the semaphore in hand. `died` is history: the processes that have ended inside a section since the flag was last
freed. `LockLeftOnlyByDead` says that the flag is taken with nobody inside only if there is one; a death outside a section, such as SIGPIPE's,
does not excuse it. As every action conjoins one of `Lifecycle` or leaves its variables alone, what is
shown of `Lifecycle`'s safety holds of the composition by construction; no run asks for that.

### Decoder, Fields and MessageTrace

`data` is the static buffer of protocol.c:97 as numbers, so that a decoder that has
lost the boundaries reads what the code reads. `Read` takes a chunk of any size from either
socket and enters a handler; the handler's actions are the branches of its loop, one
iteration a step. A startup packet that is not complete or not known ends the process:
`exit(1)` for an unknown request, and for a short one the size of the rest wraps
(utils.c:563), `malloc` fails and `memset` stores at NULL. A message whose length reads -1, or a packet of size 0,
is processed and nothing is removed, so the same iteration comes again and again (`Spins`): in the model it is the same
action as any other iteration, and `OutputWrite` keeps one of the lines that it repeats without end. The peers are external; a script says which messages they send, what each
message waits for (`after`), and which packets the decoder relies on to arrive in one
chunk (`whole`: the packets without a kind byte). `Orderly` makes the peers take turns.
`mixed` and `cut` are history: a chunk was read while the other side was inside a
message, and a chunk has cut such a packet; `splits` counts the chunks that end inside a message, for the bound
`MaxSplits`. `WellFormed` says for which conversations the decoder is made: a message with a kind has the length it states, a packet
without one is known to `fe_zero` and arrives whole, the server sends nothing behind a refusal of SSL before
the client has answered it, and a notice arrives whole. `MCDecoder` has TLC evaluate it for its conversations: all but that of the run
`notice` are well formed. `refused` records that the decoder has written bytes of its own to the client, as it does for protocol 2.0
and then relays the packet all the same.

`Fields` has one operator per `fe_*` and `be_*` function, which returns the offset behind the last byte the
function reads; one beyond the buffer means that it has read past it, or written past the stack (`OverreadKills`, or an outcome that
changes nothing, as what lies there is not defined). `be_D` puts each column in an array on the stack (protocol.c:892), and
`fe_p` has its whole message dumped in 256 KiB there (protocol.c:792, logging.c:173); neither is bounded by `buffer_size`, as the buffer holds
reassembled messages. `ColumnRoom` and `DumpRoom` are the room there is; a message that needs more (`TooLarge`) is well formed and ends the worker all
the same, which `StopsOnlyConfused` names as the one exception to its claim. In the code the rooms are some 8 MB
(the usual limit of a stack) and some 85,000 bytes. PostgreSQL's rows may hold values of 1 GB; its servers of today refuse
authentication messages above 65,535 bytes, but the decoder reads what the client sends before the server refuses it. The operators also show where the loops of the code
end early: `be_E` runs while the offset is below `length - 4`, and `be_R` below `length - 8`, so a short last
field of an error and a short last SASL mechanism are not in the log. `Slack` in `FieldsMatchMessage` allows exactly that. The text of a
line is left out.

### Relay and Pipe

Traffic is counted in pieces; a message is a head piece and further pieces, each
with the byte it begins with. `inbox` and `outbox` are the socket buffers on both sides of
the worker. `Poll` collects the ready sockets, the callbacks of all of them run in the same
iteration (also after the first has cleared `running`), `Write` passes one piece at a
time, as far as there is room. Between the decoder and the write `Save` appends the chunk to the file of its side when
`save_traffic` is set; when the file cannot be opened, the worker writes to NULL (`SaveFails`). What it appends is a dump: two digits
for each byte, printed from a signed char (utils.c:399), so that a byte of `HighBytes` (above 0x7F) comes out as `FFFFFFxx`, of which the next byte
overwrites all but `FF`. `Dump` keeps the digits and leaves out the text below them.

All chunks are read into one buffer, `data`, which is not cleared between them, and `Fatal` compares the severity at fixed
places in it, also when the chunk is shorter. So a server chunk that is the `E` of an ordinary error alone ends the session as
fatal if an earlier chunk, perhaps the client's own query, has left `FATAL` at that place. `EndsForReason` states how far
this goes and no farther. A write to a side that has closed may succeed, fail or end the process with
SIGPIPE. `Relayed` is the test of `msg->kind`. The reset a close may cause at the far end, which can
destroy data already written, is left out, and so is the signal, which is in `Lifecycle`.
The decoder is here a step that returns or exits; that it may also spin is shown in `Decoder`.

### Network

`open` and `wopen` are the descriptor tables of the main process and of one worker, as functions from
a number to its use; a new descriptor has the lowest free number, so a number that was closed is soon used
again. The loops of `pgprtdbg_bind` (interfaces) and `bind_host` (addresses) are actions, and each
call in them may succeed or fail; the hosts are those of the configuration that was read, and a failure
that writes a line ends a process that has no log (`Logs`). `AcceptAndFork` gives the worker a copy of the table with the client in
it. From there the model has every `pgprtdbg_disconnect` of a worker: those of `shutdown_io`, of the listening
socket the client came in on, of the server's socket in `pgprtdbg_connect`, and of both at the end.
`misfit` is history: a close has hit a descriptor with another use than the one it meant.
`paths` holds the Unix sockets in the file system, including one an earlier process left. The path is put together twice, to
bind it in a buffer of 107 bytes and to remove it in one of 128, so a directory that is too long leaves its socket behind:
`ReleasesAll` speaks of paths that fit; without that restriction TLC finds the socket that stays.
`log_file` and `wlog_file` are what the pointer of that name has in the main process and in the worker, as the number of
its descriptor: the worker inherits one, and `pgprtdbg_start_logging` replaces it by what its own `fopen` returns, NULL included.
A line written with none ends the process (`StartClient`, `Logs`). `LogIsOpen` relates that pointer to the table of descriptors, which is where
a close of a stale number would hurt it. The standard streams and libev's own descriptors are left out, as they
only shift the numbers: a worker makes its event loop after it has connected and nothing is closed twice once it has.

Two outcomes are worth knowing. With the host `*`, `pgprtdbg_bind` returns 0 when no interface could be bound, so
the main process starts and listens on the Unix socket only, or on nothing. And a worker whose client came in
over TCP keeps the main process's Unix socket open, as `shutdown_io` covers the TCP sockets only;
`WorkerDescriptors` therefore speaks of these.

### Configuration

The file is any sequence of the lines in `Lines`, of any length; `section`, `idx_server` and `srv` are the locals of
`pgprtdbg_read_configuration`. `srv` is not initialised: `Stack` is the set of what it may hold. A text is a sequence of
pieces, so that two things the copies do are visible: `Cut` at `MISC_LENGTH - 1`, and `Over`, a `memcpy` without
the terminator, which leaves the end of an older, longer text when a key is given twice. A value that is not followed by a blank or an end
of line (the last line of a file without one) is not found. A section that is not `[pgprtdbg]` stores the server read
so far, so the first of them stores what the stack held; `ServerFromFile` shows that the end of the file always puts
the right one in its place, except behind a section `[]`, whose empty name keeps it from doing so.

`DumpLength` is the length of what `pgprtdbg_log_mem` and `write_traffic` make of a chunk. With the largest `buffer_size`
the validation lets through it is 200,700 bytes, below the 262,144 they reserve; `DumpFits` says no more than that of a chunk (for the dump
of a reassembled message see `Fields`). A negative `buffer_size` is not refused and ends every worker (`StartClient` in `Network`).

### Startup

The main process with `Configuration` and `Network` in their places: daemon, log, trace file, sockets, engine, and
after the loop the release of it all. `stage` is its place up to the sockets, `pc` from there on. The results of
`pgprtdbg_start_logging` and of the `fopen` of the trace file are ignored, so `OpenLog` and `OpenOutput` go on
either way. A missing log ends the process at its first line. A missing trace
file goes unnoticed: the main process serves without, each worker dies at its first line, and so does the main
process when it closes it. `Libev` chooses the engine from the name and from what libev supports.

## The runs

| Run | Question | Bounds | Distinct states |
|---|---|---|---|
| `system` | table of pids, kill loop, log lock and trace semaphore together | 2 workers, 2 slots, 1 chunk | 4,730,000 |
| `lifecycle` | count of connections, counters, statistics; main process and signalled workers end | 2 workers, 1 slot, 1 chunk | 121,000 |
| `lost_pid` | violation: a connection is missing in the table | 2 workers, 2 slots | |
| `active_connections` | violation: a dead worker is counted as an active connection | 2 workers, 2 slots | |
| `log_lock` | exclusion, degradation, progress, what callers count on | 3 processes, 2 sections of 2 lines | 418,000 |
| `session` | the trace of an orderly session is complete, every walk ends with its message, only what is too large stops the decoder | 18 + 29 messages, two of them too large, chunks up to 24 bytes | 1,300 |
| `free_peers` | what happens when the peers do not take turns | 3 + 3 messages, chunks up to 24 bytes, 4 cuts | 153,000 |
| `interleaved` | violation: a line for a message nobody sent | 3 + 3 messages | |
| `notice` | violation: a notice cut after its first byte | 2 + 3 messages | |
| `relay` | two pipes, traffic files, end of stream, reasons to end, progress | 4 + 4 pieces, sockets and chunks of 2 | 158,000 |
| `chunk_kind` | violation: a session ended by a byte of data | 4 + 2 pieces | |
| `startup` | the server is the file's; logs are open; descriptors and paths are neither leaked nor stale nor closed by mistake | 17 kinds of lines, 2 interfaces of 2 addresses or a host of 2, 3 sockets at most | 847,000 |

Every name that bounds a model is a CONSTANT: `MaxConnections`, `MaxMessages`,
`MaxSections`, `MaxLines`, `MaxChunk`, `MaxSplits`, `Capacity`, `BufferSize`, `Lines`, `MaxString`, `Stack`, `Interfaces`,
`Addresses`, `MaxPath`, `MaxFds`, `Engines`, and the scripts. `MaxBuffer` is the code's own 65535. `EngineMissing`, `HighBytes`,
`ColumnRoom` and `DumpRoom` bound nothing: they say what the environment is. The rooms are small in `session`, so that a row and an
authentication response exceed them, and larger than any message in the other runs.

Why they are enough. A race on a slot takes two workers, and a store on somebody else's
registration a third phase of either; two slots let the kill loop and the clearing loop
pass one and find a worker in another. In `system` the same two workers and the main process are three callers of the log,
enough for one inside, one that gave up and one that died. With one slot and two workers the
table is full and `accept_cb` refuses; failing forks use up client numbers, so that both workers may share the trash counter. Three
processes let one call give up while a second holds the lock and a third waits. A
message of 5 to 46 bytes has every kind of cut (in the kind, in the length, in the body, on the
boundary), and chunks span up to four messages. Four chunks that end inside a message let either side be cut twice. Sockets of two pieces are full, half
full and empty, chunks have one or two pieces, so that a chunk of one leaves the second of an older one in the buffer, and the client has enough to fill both
sockets on the way to a blocked server, so the cycle in `Stalled` does occur. Two interfaces of two
addresses let any mixture of failures happen, leave numbers free below others, and exceed a `MAX_FDS` of three. Every kind of
setting that changes what follows has a line, with a text that is cut, a number that is too large or negative, a value that does not end, an unknown key
and a section without a name among them; as texts are at most four pieces long, files of any length give finitely many states.
Symmetry over workers is
used where only safety is checked. The runs with `CHECK_DEADLOCK FALSE` are those where the
system may stop: the workers have ended, the processes have had their sections, the
conversation is over.

The passing runs say what the code gets right; the violations are disagreements with its own
words, each described under `findings` in `PROJECT.json`:

1. `EveryConnectionRegistered`: two workers that register at once share a slot.
2. `TraceFaithful`: two directions in one buffer give lines for messages nobody sent.
3. `TraceComplete` under `NoticeClient`/`NoticeServer`: a lone `N` is taken for the refusal of SSL at any
   time.
4. `SuccessMeansTerminate`: the first byte of a chunk is taken for the kind of a message.
5. `ActiveConnectionsLive`: a worker that dies in a callback is never counted out, so `active_connections` is not "the active
   number of connections" of pgprtdbg.h:110, and main.c:412 turns clients away by it. `ActiveConnectionsExact` states, and
   the proof shows, what it is: the dead stay in it.

Four more have no run of their own. The traffic files show `FF` for every byte above 0x7F (utils.c:399, `Dump`), though
doc/CONFIGURATION.md:32 speaks of saving the traffic: `SavedBeforeSent` is about dumps. A Unix socket in a directory with a long name is
not removed (network.c:262 and 342, `PathIn`). The comment at
network.c:166 says that `pgprtdbg_connect` connects to the first address it can, but the first failure ends the call
(`ConnectFails`). And the comment at network.c:442 says the same of `bind_host`, which binds all it can (`Listen`).

### Fairness

- `Lifecycle`: a process that can run does. The main process's steps after a shutdown, and a worker's
  registration, connection and cleanup are weakly fair. `HandleSigquit` and `LeaveLoop` are
  strongly fair: libev polls its signal pipe in each iteration and each callback breaks the
  loop, so a worker that keeps returning to its loop sees both. Nothing is assumed of clients,
  of the return of a blocking write, or of failures.
- `LogLock`: a process inside the lock runs on, and the clock advances. The
  compare-and-swap is not fair: it may fail in every attempt.
- `Decoder`: a handler that can take a step takes it. No chunk need ever arrive.
- `Relay`: the worker runs when it can, a peer sends what it has to send and reads unless it
  is itself blocked in a write. Nobody has to close.

## What is proved

All safety properties of the passing runs, the action properties and the refinements among them, are
theorems, but `FieldsMatchMessage`. They hold for every value of the constants that the named assumptions
(`LifecycleAssumption`, `SystemAssumption`, `LogLockAssumption`, `DecoderAssumption`, `RelayAssumption`,
`ConfigurationAssumption`, `NetworkAssumption`, `StartupAssumption`) allow: any finite set of workers or processes, any number of slots,
sections, lines, interfaces and addresses, any file, any traffic and any chunks. TLC evaluates each assumption in
the runs, and each inductive invariant was checked with TLC on the instances of the runs before it was proved.

**Lifecycle** (`LifecycleProofs`)

- `TypeCorrect` includes that no index leaves its table, and that the kill loop sends only to workers.
- `RegistryIsSound`. `RegistrySound` is not inductive: a clearing loop that has passed a slot must
  know that its pid is not behind it. `RegistryInv` adds that, and that the loops start at
  the first slot.
- `LostOnlyByOverwriteAlways` is inductive with the types.
- `ActiveConnectionsCounted`. `ActiveInv` adds that a worker outside the connected phases is not
  counted; with it every increment adds a worker to the set that is counted, every decrement takes one
  away, and the count cannot fall below zero.
- `ShutdownReachesAll`. `ShutdownInv` says where each worker that was registered when the main
  loop ended can be: signalled, stopped, or in a slot that the kill loop has not reached; and what
  the loop has loaded is what its slot held. The proof uses `RegistrySound` (a worker has one slot) and
  `LostOnlyByOverwrite` (it has one at all).
- `CountersAreExact`. `CounterInv` adds that client numbers grow, that a counter nobody owns is zero,
  and that the kill loop holds the pid of a worker that was forked. `StatisticsAreComplete` follows from it.

**LogLock** (`LogLockProofs`)

- `DegradationIsBounded` is inductive with the types; the proof counts the writers.
- `ExclusionUntilTimeout` from `ExclusiveInv`: as long as nobody has given up, a free
  flag means nobody writes, there is at most one writer, and it wrote the last line of its section.
- `LogLockImplementsSection`: each step is a step of `LogSection` or leaves the flag and the inside alone.

**System** (`SystemProofs`)

- `SystemInv` adds to `SemaphoreSurvives` that a worker writes its lines inside a callback, where it has a handler for SIGQUIT.
  `SemaphoreAlwaysSurvives` follows. `LockIsLeftOnlyByDead` is inductive with the types: a process that ends inside joins `died` as it leaves
  the inside, and whoever frees the flag empties `died`.
- Each action of `System` conjoins one of `Lifecycle` or leaves its variables alone (the lemma `SystemImplementsLifecycle`). So
  `SystemRegistryIsSound`, `SystemLosesOnlyByOverwrite` and `SystemShutdownReachesAll` are consequences of the theorems on
  `Lifecycle`, not new proofs.

**Relay** (`RelayProofs`)

- `FlowInv`: what a side has read, the chunk in hand and the two sockets is what was sent, in order. `RelayIsTwoPipes` (each
  step is one of `Pipe` or a stutter) and `EndIsLast` follow.
- `FilesAreAhead` from `SavedInv`, which says of how much of a chunk the dump is in the file at each place of the loop. It is about what is in
  the files and when; that a dump does not keep every byte is said above.
- `EndHasReason` from `BufferInv`: whatever is in the shared buffer is zero or a piece that a side has sent.

**Startup, Network, Configuration** (`StartupProofs`)

- `ServerIsFromFile` from `ConfInv`: while the file is read nothing is stored before a server begins, and one that has begun has a name.
- `DumpAlwaysFits` needs the bound of `pgprtdbg.h:47` on the buffer, and nothing else.
- `ListenersAreExact` from `BindInv`: what the main process listens on is what it has stored or is about to store, each once.
- `ClosesOnlyOwn` and `WorkerHoldsItsOwn` from `WorkerInv`: what each number that a worker holds, or has held, is used for at each place.
- `LogStaysOpen` from `LogInv`: each `log_file` that is not NULL is the number of a descriptor of the log, in the worker from its own open on.
  `BindInv` and `WorkerInv` say that the numbers that are closed by then are those of sockets.
- `EverythingIsReleased` from `StartupInv`: the sockets come last, and what was released stays so.

**Decoder** (`DecoderProofs`)

- `DecoderTypeCorrect` holds for all scripts, well formed or not.
- The other five are about conversations for which the decoder is made: they assume `Conversation`
  (`WellFormed` of the two scripts). `TraceIsComplete` and `DecoderImplementsMessageTrace` assume `Orderly` as well, as their properties are
  false without it (`interleaved`); `NothingStopsTheDecoder` assumes `WalksStay`, that no walk over the fields of a message that the stack has room for leaves the buffer,
  since how far the recursive walks get cannot be proved here; a message that is too large is not assumed away, but is the exception the theorem states. TLC evaluates `Conversation` and
  `WalksStay` for the conversations of its runs. The theorems then speak of every conversation of that kind, of any length, and of every way to cut it.
- `TraceIsFaithful` and the others rest on `DecoderInv`. The trace alone is not inductive, as it says nothing of the bytes that are left. `Understood` says that there
  is a number of messages of each side that have been taken off (`d`), that the trace has their lines and no other (`Consumed`), and that
  the buffer is the rest of one side while nothing of the other is left (`Holds`, `NoneLeft`). Then the buffer begins with the next message of that
  side (`FrontFacts`), the handler's test of it and the size it removes are those of that message (`ClientFront`,
  `ServerFront`), and taking it off leads to `d + 1` (`Advance`). `EachIterationTakesOne` says just that of every iteration (`Taken`), which
  a decoder that took a byte too many or too few, or that spun, would not do. For a refusal of one byte, which has no length, `RefusalLast` says that nothing
  lies behind it; that follows from what the server waits for (`Answered`, `RefusalWaits`). `NotCut` does the same for packets that have to arrive whole.
- The streams of bytes and of kinds are flattened sequences, and `Lemmas` proves what `FlattenSeq` makes of a prefix, by
  induction over the naturals in terms of sets (`SetInduction`), from the library's theorem on well-founded relations.

Only model-checked: the liveness properties (`ShutdownTerminates`, `QuitWorkerEnds`,
`EveryCallReturns`, `HandlerReturns`, `Relays`, `ClosedEnds`), which are out of TLAPS's reach here, and
`FieldsMatchMessage`, which is about what the recursive walks of `Fields` compute. The liveness of the workers is checked on
`Lifecycle` alone: the state graph of `System` is too large for it within the time of a run.

## What is not modelled

- The command line, the refusal to run as root, the signal for a core dump: each is a test or a call
  before anything else has a state.
- The layout of the log, of trace lines and of dumps, and the markers, numbers and times in traffic files: formatting.
- The names of the engines that are printed, `statistics_output` beyond its setting, the options of sockets (one step
  that may fail).
- The port is printed into five bytes (network.c:148), so one of five digits has no terminator: what follows is
  not defined and no property would hold or fail by it.
- Reuse of a dead worker's pid by the operating system: the slot of a crashed worker keeps its pid, and the
  kill loop may then signal a process that is not a worker.
- Functions nothing calls: `pgprtdbg_read_block_message`, `pgprtdbg_create_message` and the copies of messages, the
  64 bit readers and most of the writers of `utils.c`.
- The build, the packaging and the documents.

## Plan

Done, in this order: `Lifecycle` and its proofs, `LogLock` and its proofs, `Decoder` with
`MessageTrace`, `Relay` with `Pipe`, `Network`; then `Fields`, `LogSection`, `System`, `Configuration`, `Startup`, and
the shared buffer and the traffic files in `Relay`. No component with behaviour of its own is left.

Then the proofs: `SystemProofs`, the refinement of `LogSection`, `StartupProofs`, `RelayProofs`, and `Lemmas` with `DecoderProofs`.

Next:

1. `FieldsMatchMessage` for the walks that do not loop, and that `Skip`, `AfterString` and the counted loops never go back, so that
   `WalksStay` can be reduced to a condition on the fields of single messages.
2. `Conversation` from the grammar of the protocol: which scripts of whole sessions are well formed.
