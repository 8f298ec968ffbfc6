---------------------------- MODULE Configuration ----------------------------
(***************************************************************************)
(* How the main process comes by its configuration                         *)
(* (src/libpgprtdbg/configuration.c): the defaults, one pass over the      *)
(* lines of a file, and the validation.  The file is any sequence of the   *)
(* lines of Lines; its length is not bounded.                              *)
(*                                                                         *)
(* A text is a sequence of pieces, which stand for its characters: what    *)
(* matters is that a text is cut at MISC_LENGTH - 1 and copied over an      *)
(* older one, whose end stays when it was longer.                          *)
(***************************************************************************)
EXTENDS Integers, Sequences

CONSTANTS
    Lines,       \* the lines a file may have
    MaxString,   \* MISC_LENGTH - 1
    MaxBuffer,   \* MAX_BUFFER_SIZE, also the default
    Stack        \* what the stack may hold where the local variable srv is

StringKeys == {"host", "output", "unix_socket_dir", "log_path", "libev", "statistics_output"}
BoolKeys == {"output_sockets", "save_traffic", "keep_alive", "nodelay"}
IntKeys == {"port", "buffer_size", "backlog"}
Keys == StringKeys \cup BoolKeys \cup IntKeys \cup {"log_type"}

\* A section in brackets, a key with its text and the number atoi makes of it, or anything
\* that extract_key_value makes nothing of.  ended: the value is followed by a blank or by
\* the end of the line, which a line of LINE_LENGTH and the last of a file may lack.
LineType(line) ==
    \/ line.type = "section" /\ line.name \in Seq(STRING)
    \/ line.type = "setting" /\ line.key \in STRING /\ line.text \in Seq(STRING)
          /\ line.number \in Int /\ line.ended \in BOOLEAN
    \/ line.type = "other"

Server == [name : Seq(STRING), host : Seq(STRING), port : Int]

NoServer == [name |-> <<>>, host |-> <<>>, port |-> 0]

ASSUME ConfigurationAssumption ==
    /\ \A line \in Lines : LineType(line)
    /\ MaxString \in Nat \ {0}
    /\ MaxBuffer \in Nat \ {0} /\ MaxBuffer <= 65535
    /\ Stack \subseteq Server

VARIABLES
    stage,       \* read, validate, then the steps of Startup, exited
    section, idx_server, srv,   \* locals of pgprtdbg_read_configuration
    config,      \* the settings by their key
    server,      \* config->server[0]
    origin,      \* history: where server comes from: none, stack, file
    unnamed      \* history: a section without a name came first

confVars == <<section, idx_server, srv, config, server, origin, unnamed>>

\* pgprtdbg_create_shared_memory and pgprtdbg_init_configuration.
Defaults ==
    [key \in Keys |->
        CASE key \in StringKeys -> <<>>
          [] key \in BoolKeys -> key = "keep_alive"
          [] key = "log_type" -> "console"
          [] key = "buffer_size" -> MaxBuffer
          [] key = "backlog" -> -1
          [] key = "port" -> 0]

\* The mapping is zeroed; the local srv is not.
ConfInit ==
    /\ stage = "read"
    /\ section = <<>> /\ idx_server = -1 /\ srv \in Stack
    /\ config = Defaults
    /\ server = NoServer
    /\ origin = "none" /\ unnamed = FALSE

-----------------------------------------------------------------------------
(* pgprtdbg_read_configuration. *)

\* No file: exit(1).
NoConfiguration ==
    /\ stage = "read" /\ section = <<>> /\ idx_server = -1
    /\ stage' = "exited"
    /\ UNCHANGED confVars

Cut(text) == SubSeq(text, 1, IF Len(text) > MaxString THEN MaxString ELSE Len(text))

\* memcpy of a text without its terminator: the end of a longer one stays.
Over(old, text) == Cut(text) \o SubSeq(old, Len(Cut(text)) + 1, Len(old))

MainSection == <<"pgprtdbg">>

\* Any section but the main one begins a server; the one before it, if only what the stack
\* held, is stored.  A second server ends the program.
ReadSection(line) ==
    /\ stage = "read" /\ line.type = "section"
    /\ section' = Cut(line.name)
    /\ IF section' = MainSection
       THEN UNCHANGED <<stage, idx_server, srv, server, origin, unnamed>>
       ELSE /\ idx_server' = idx_server + 1
            /\ stage' = IF idx_server = -1 THEN "read" ELSE "exited"
            /\ server' = IF idx_server = -1 THEN srv ELSE server
            /\ origin' = IF idx_server = -1 THEN "stack" ELSE origin
            /\ srv' = [NoServer EXCEPT !.name = section']
            /\ unnamed' = (unnamed \/ section' = <<>>)
    /\ UNCHANGED config

AsBool(text) == text \in {<<"on">>, <<"true">>, <<"1">>}

AsLoggingType(text) == IF text = <<"file">> THEN "file" ELSE "console"

\* Mutant of AsBufferSize: no limit.
AsBufferSizeAny(number) == number

\* Nothing keeps it above zero.
AsBufferSize(number) == IF number > MaxBuffer THEN MaxBuffer ELSE number

\* The value a key of the main section gets.
Setting(line) ==
    CASE line.key \in StringKeys -> Over(config[line.key], line.text)
      [] line.key \in BoolKeys -> AsBool(line.text)
      [] line.key = "log_type" -> AsLoggingType(line.text)
      [] line.key = "buffer_size" -> AsBufferSize(line.number)
      [] line.key \in {"port", "backlog"} -> line.number

\* extract_key_value finds a key and a value.
IsSetting(line) == stage = "read" /\ line.type = "setting" /\ line.ended

ReadMain(line) ==
    /\ IsSetting(line) /\ section = MainSection /\ line.key \in Keys
    /\ config' = [config EXCEPT ![line.key] = Setting(line)]
    /\ UNCHANGED <<stage, section, idx_server, srv, server, origin, unnamed>>

ReadServer(line) ==
    /\ IsSetting(line) /\ section \notin {MainSection, <<>>} /\ line.key \in {"host", "port"}
    /\ srv' = IF line.key = "host"
              THEN [srv EXCEPT !.name = Over(@, section), !.host = Over(@, line.text)]
              ELSE [srv EXCEPT !.name = Over(@, section), !.port = line.number]
    /\ UNCHANGED <<stage, section, idx_server, config, server, origin, unnamed>>

\* Other lines, a key that its section does not know and a value that does not end are
\* passed over: nothing changes, and no action stands for them.

\* Mutant of EndOfFile: the test of idx_server has an off-by-one.
EndOfFileFirstLost ==
    /\ stage = "read"
    /\ IF idx_server > 0 /\ srv.name # <<>>
       THEN server' = srv /\ origin' = "file"
       ELSE UNCHANGED <<server, origin>>
    /\ stage' = "validate"
    /\ section' = <<>> /\ idx_server' = -1 /\ srv' = NoServer
    /\ UNCHANGED <<config, unnamed>>

\* The last server is stored, and the locals are gone.
EndOfFile ==
    /\ stage = "read"
    /\ IF idx_server # -1 /\ srv.name # <<>>
       THEN server' = srv /\ origin' = "file"
       ELSE UNCHANGED <<server, origin>>
    /\ stage' = "validate"
    /\ section' = <<>> /\ idx_server' = -1 /\ srv' = NoServer
    /\ UNCHANGED <<config, unnamed>>

-----------------------------------------------------------------------------
(* pgprtdbg_validate_configuration. *)

Valid ==
    /\ config["host"] # <<>> /\ config["port"] # 0 /\ config["output"] # <<>>
    /\ server.name # <<>> /\ server.host # <<>> /\ server.port # 0

Validate ==
    /\ stage = "validate"
    /\ Valid
    /\ stage' = "daemon"
    /\ config' = [config EXCEPT !["backlog"] = IF @ <= 0 THEN 4 ELSE @]
    /\ UNCHANGED <<section, idx_server, srv, server, origin, unnamed>>

ValidateFails ==
    /\ stage = "validate"
    /\ ~Valid
    /\ stage' = "exited"
    /\ UNCHANGED confVars

ReadConfiguration ==
    \/ NoConfiguration
    \/ \E line \in Lines : ReadSection(line) \/ ReadMain(line) \/ ReadServer(line)
    \/ EndOfFile \/ Validate \/ ValidateFails

-----------------------------------------------------------------------------
(* Properties. *)

ConfTypeOK ==
    /\ DOMAIN config = Keys
    /\ \A key \in StringKeys : config[key] \in Seq(STRING) /\ Len(config[key]) <= MaxString
    /\ \A key \in BoolKeys : config[key] \in BOOLEAN
    /\ \A key \in IntKeys : config[key] \in Int
    /\ config["log_type"] \in {"console", "file"}
    /\ section \in Seq(STRING) /\ server \in Server /\ srv \in Server
    /\ origin \in {"none", "stack", "file"} /\ unnamed \in BOOLEAN
    /\ idx_server \in -1 .. 1

Accepted == stage \notin {"read", "validate", "exited"}

\* The inductive invariant behind the next two properties: while the file is read, nothing is
\* stored before a server begins, and one that has begun has a name.
ConfInv ==
    /\ stage = "read" =>
          /\ idx_server \in {-1, 0}
          /\ IF idx_server = -1 THEN server = NoServer ELSE unnamed \/ srv.name # <<>>
    /\ stage = "validate" => origin = "file" \/ unnamed \/ server = NoServer
    /\ Accepted => origin = "file" \/ unnamed
    /\ config["buffer_size"] <= MaxBuffer

\* srv is copied to the shared memory before anything is stored in it
\* (configuration.c:127-131): what the stack held is never taken for the server the file
\* names, in whatever order the sections come, unless a section has no name.
ServerFromFile == Accepted => origin = "file" \/ unnamed

\* pgprtdbg_log_mem and write_traffic (logging.c:169-232, utils.c:364-430) dump a chunk of
\* n bytes twice, in hexadecimal and as text, with an end of line after every 32.
DumpLength(n) == 3 * n + 2 * ((n - 1) \div 32) + 1

\* Whatever buffer_size the file asks for (configuration.c:309), the dump of a chunk of
\* that size and its terminator fit the 256 KiB both functions reserve for it.
DumpFits ==
    Accepted /\ config["buffer_size"] > 0 =>
        DumpLength(config["buffer_size"]) < 256 * 1024
=============================================================================
