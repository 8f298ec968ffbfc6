------------------------------- MODULE Decoder -------------------------------
(***************************************************************************)
(* The decoder of one worker (src/libpgprtdbg/protocol.c:92-405 and        *)
(* utils.c:526-576): each chunk the worker reads, from either socket, is   *)
(* appended to one buffer, `data', and complete messages are taken off its *)
(* front and written to the trace file.  The two directions share that     *)
(* buffer.                                                                 *)
(*                                                                         *)
(* Bytes are numbers, so a decoder that has lost the message boundaries    *)
(* reads what the code would read.  Fields says how far the code reads into *)
(* a message; the text it makes of it, and the log lines, are left out.    *)
(***************************************************************************)
EXTENDS Integers, Sequences, FiniteSets, SequencesExt, Fields

CONSTANTS
    ClientScript,  \* the messages the client sends: records [bytes, line, after, whole]
    ServerScript,  \* and the server's
    Orderly,       \* the peers take turns, and what should arrive whole does
    MaxChunk,      \* bound: bytes of one read()
    MaxSplits      \* bound: chunks that end inside a message, while the peers are free

Sides == {"client", "server"}
NoLine == 0    \* a message that has no line in the trace

\* bytes: the message.  line: its kind, or NoLine.  after: how many messages of the other
\* side must have arrived before this one is sent.  whole: the decoder relies on
\* its arrival in one chunk.
Message == [bytes : Seq(0 .. 255), line : 0 .. 255, after : Nat, whole : BOOLEAN]

ASSUME DecoderAssumption ==
    /\ ClientScript \in Seq(Message) /\ ServerScript \in Seq(Message)
    /\ \A i \in DOMAIN ClientScript : ClientScript[i].bytes # <<>>
    /\ \A i \in DOMAIN ServerScript : ServerScript[i].bytes # <<>>
    /\ Orderly \in BOOLEAN
    /\ MaxChunk \in Nat \ {0} /\ MaxSplits \in Nat

Script(side) == IF side = "client" THEN ClientScript ELSE ServerScript
Other(side) == IF side = "client" THEN "server" ELSE "client"

Bytes(messages) == FlattenSeq([i \in DOMAIN messages |-> messages[i].bytes])
Stream(side) == Bytes(Script(side))

\* Where the k-th message of a side ends in its stream.
End(side, k) == Len(Bytes(SubSeq(Script(side), 1, k)))

VARIABLES
    pos,     \* bytes read from each socket
    data,    \* the buffer
    pc,      \* idle, or the handler that runs: client, server; dead
    trace,   \* the lines of the trace file: <<side, kind>>
    refused, \* the decoder has written a refusal of its own to the client
    mixed,   \* history: a chunk was read while the other side was inside a message
    cut,     \* history: a chunk ended inside a message that should arrive whole
    splits   \* history: chunks that ended inside a message, counted for the bound

vars == <<pos, data, pc, trace, refused, mixed, cut, splits>>

Init ==
    /\ pos = [side \in Sides |-> 0]
    /\ data = <<>>
    /\ pc = "idle"
    /\ trace = <<>>
    /\ refused = FALSE
    /\ mixed = FALSE /\ cut = FALSE /\ splits = 0

-----------------------------------------------------------------------------
(* The two peers, and the read that takes a chunk from one of them. *)

\* Messages of a side that have arrived completely.
Delivered(side) ==
    Cardinality({k \in DOMAIN Script(side) : End(side, k) <= pos[side]})

\* The peers keep to the protocol: no message before what it answers.
MaySend(side, k) == Script(side)[k].after <= Delivered(Other(side))

Boundary(side, n) == \E k \in 0 .. Len(Script(side)) : End(side, k) = n

AtBoundary(side) == Boundary(side, pos[side])

\* A chunk of n bytes contains only bytes that have been sent.
Arrives(side, n) ==
    \A k \in DOMAIN Script(side) :
        pos[side] <= End(side, k - 1) /\ End(side, k - 1) < pos[side] + n => MaySend(side, k)

\* A chunk of n bytes ends inside a message that should arrive whole.
Cuts(side, n) ==
    \E k \in DOMAIN Script(side) :
        /\ Script(side)[k].whole
        /\ End(side, k - 1) < pos[side] + n /\ pos[side] + n < End(side, k)

\* Mutants of DataAppend: the new data are copied to the front, or twice.
DataAppendFront(chunk) == chunk \o data
DataAppendTwice(chunk) == data \o chunk \o chunk

\* pgprtdbg_data_append: at the end of the buffer.
DataAppend(chunk) == data \o chunk

\* pgprtdbg_read_message, then the head of pgprtdbg_client or pgprtdbg_server.
Read(side) ==
    \E n \in 1 .. MaxChunk :
        /\ pc = "idle"
        /\ pos[side] + n <= Len(Stream(side))
        /\ Arrives(side, n)
        /\ Orderly => AtBoundary(Other(side)) /\ ~Cuts(side, n)
        /\ splits' = IF Orderly \/ Boundary(side, pos[side] + n) THEN splits ELSE splits + 1
        /\ splits' <= MaxSplits
        /\ data' = DataAppend(SubSeq(Stream(side), pos[side] + 1, pos[side] + n))
        /\ pos' = [pos EXCEPT ![side] = @ + n]
        /\ pc' = side
        /\ mixed' = (mixed \/ ~AtBoundary(Other(side)))
        /\ cut' = (cut \/ Cuts(side, n))
        /\ UNCHANGED <<trace, refused>>

-----------------------------------------------------------------------------
(* One iteration of the loop over the buffer. *)

\* pgprtdbg_data_remove.
DataRemove(n) == SubSeq(data, n + 1, Len(data))

\* fe_zero knows these requests: protocol 3.0, cancel, SSL and GSS, and protocol 2.0.
ProtocolTwo == 131072
Requests == {196608, 80877102, 80877103, 80877104, ProtocolTwo}

Request == Int32(data, 4)
PacketSize == Int32(data, 0)

IsStartup == data # <<>> /\ data[1] = 0 /\ Len(data) >= 8

\* Mutant of IsMessage: a message that fills the buffer exactly has to wait.
IsMessageStrict ==
    /\ data # <<>> /\ data[1] # 0 /\ Len(data) >= 5
    /\ LET size == Length(data) + 1 IN 0 <= size /\ size < Len(data)

\* A message with a kind byte; data_size < length + 1 compares without sign.
IsMessage ==
    /\ data # <<>> /\ data[1] # 0 /\ Len(data) >= 5
    /\ LET size == Length(data) + 1 IN 0 <= size /\ size <= Len(data)

\* The server's one-byte answer to an SSL or GSS request.
IsRefusal == data = <<78>>

\* fe_zero for a startup packet, and the removal of as many bytes as it says it has.  A
\* client of protocol 2.0 gets a refusal, and is relayed all the same.
ClientStartup ==
    /\ pc = "client"
    /\ IsStartup
    /\ Request \in Requests
    /\ PacketSize <= Len(data)
    /\ data' = DataRemove(PacketSize)
    /\ refused' = (refused \/ Request = ProtocolTwo)
    /\ UNCHANGED <<pos, pc, trace, mixed, cut, splits>>

\* An unknown request ends the process: exit(1).  So does a packet that has not arrived
\* completely: the size of what is left wraps, malloc fails, and memset stores at NULL.
ClientStartupFails ==
    /\ pc = "client"
    /\ IsStartup
    /\ Request \notin Requests \/ PacketSize > Len(data)
    /\ pc' = "dead"
    /\ UNCHANGED <<pos, data, trace, refused, mixed, cut, splits>>

\* fe_* and be_*: what they tell of the message at the front, its text left out.  An
\* unsupported kind gets its line as well.
FrontendLine == <<"client", data[1]>>
BackendLine == <<"server", data[1]>>

\* What a message takes up: nothing, when its length reads -1.
Size == Length(data) + 1

\* Bound: an iteration that takes nothing off the buffer repeats itself for ever, lines
\* included, and the model keeps one of them.
OutputWrite(line) ==
    IF Size = 0 /\ trace # <<>> /\ Last(trace) = line THEN trace ELSE Append(trace, line)

\* Mutants of ClientMessage: the message is not removed, or its kind byte is not.
ClientMessageStays ==
    /\ pc = "client"
    /\ IsMessage
    /\ trace' = OutputWrite(FrontendLine)
    /\ UNCHANGED <<pos, data, pc, refused, mixed, cut, splits>>

ClientMessageKeepsByte ==
    /\ pc = "client"
    /\ IsMessage
    /\ trace' = OutputWrite(FrontendLine)
    /\ data' = DataRemove(Size - 1)
    /\ UNCHANGED <<pos, pc, refused, mixed, cut, splits>>

ClientMessage ==
    /\ pc = "client"
    /\ IsMessage
    /\ trace' = OutputWrite(FrontendLine)
    /\ data' = DataRemove(Size)
    /\ UNCHANGED <<pos, pc, refused, mixed, cut, splits>>

ServerMessage ==
    /\ pc = "server"
    /\ IsMessage
    /\ trace' = OutputWrite(BackendLine)
    /\ data' = DataRemove(Size)
    /\ UNCHANGED <<pos, pc, refused, mixed, cut, splits>>

\* Where the walk over the fields of what is at the front of a buffer ends.
FieldsOf(side, buffer) ==
    CASE side = "client" /\ buffer[1] = 0 -> FeZero(buffer)
      [] side = "client" /\ buffer[1] # 0 -> FeFields(buffer)
      [] side = "server" -> BeFields(buffer)

FieldsEnd == FieldsOf(pc, data)

Overreads(side, buffer) == FieldsOf(side, buffer) > Len(buffer)

\* Behind the buffer lies whatever the heap has there, behind an array whatever the stack
\* has: the walk may come back as if nothing had happened, and the actions above go on, or
\* end the process.
OverreadKills ==
    /\ pc \in Sides
    /\ (pc = "client" /\ IsStartup) \/ IsMessage
    /\ Overreads(pc, data)
    /\ pc' = "dead"
    /\ UNCHANGED <<pos, data, trace, refused, mixed, cut, splits>>

\* be_N on the single byte; no line is written.
ServerRefusal ==
    /\ pc = "server"
    /\ IsRefusal
    /\ data' = DataRemove(1)
    /\ UNCHANGED <<pos, pc, trace, refused, mixed, cut, splits>>

\* Mutant of ClientDone: the loop has no way out but an empty buffer.
ClientDoneWhenEmpty ==
    /\ pc = "client"
    /\ data = <<>>
    /\ pc' = "idle"
    /\ UNCHANGED <<pos, data, trace, refused, mixed, cut, splits>>

\* The buffer is empty or what it holds is not complete: wait for the next chunk.
ClientDone ==
    /\ pc = "client"
    /\ ~IsStartup /\ ~IsMessage
    /\ pc' = "idle"
    /\ UNCHANGED <<pos, data, trace, refused, mixed, cut, splits>>

ServerDone ==
    /\ pc = "server"
    /\ ~IsRefusal /\ ~IsMessage
    /\ pc' = "idle"
    /\ UNCHANGED <<pos, data, trace, refused, mixed, cut, splits>>

-----------------------------------------------------------------------------
Handler ==
    \/ ClientStartup \/ ClientStartupFails \/ ClientMessage \/ ClientDone
    \/ ServerRefusal \/ ServerMessage \/ ServerDone
    \/ OverreadKills

Next == Handler \/ \E side \in Sides : Read(side)

Spec == Init /\ [][Next]_vars

\* A handler that can take another step takes it; the peers need not send anything.
FairSpec == Spec /\ WF_vars(Handler)

-----------------------------------------------------------------------------
(* Properties. *)

TypeOK ==
    /\ \A side \in Sides : pos[side] \in 0 .. Len(Stream(side))
    /\ DOMAIN pos = Sides
    /\ data \in Seq(0 .. 255)
    /\ Len(data) <= pos["client"] + pos["server"]
    /\ pc \in Sides \cup {"idle", "dead"}
    /\ trace \in Seq(Sides \X (1 .. 255))
    /\ {refused, mixed, cut} \subseteq BOOLEAN /\ splits \in 0 .. MaxSplits

\* The kinds of the messages of a script that get a line.
KindsOf(messages) ==
    FlattenSeq([i \in DOMAIN messages |->
        IF messages[i].line = NoLine THEN <<>> ELSE <<messages[i].line>>])

\* The kinds in the lines of a side.
Traced(side) ==
    FlattenSeq([i \in DOMAIN trace |-> IF trace[i][1] = side THEN <<trace[i][2]>> ELSE <<>>])

\* README.md:3, "an application that turns PostgreSQL protocol v3 interaction into a trace
\* file": the lines of a side are the kinds of the messages it has sent, in their order.
TraceFaithful == \A side \in Sides : IsPrefix(Traced(side), KindsOf(Script(side)))

\* Between two handlers (protocol.c:116-197, 221-332) the trace has a line for every
\* message that has arrived completely, whatever the chunks were, and the buffer holds the
\* bytes of the incomplete one and nothing else.
TraceComplete ==
    pc = "idle" =>
        /\ \A side \in Sides :
              Traced(side) = KindsOf(SubSeq(Script(side), 1, Delivered(side)))
        /\ \E side \in Sides :
              data = SubSeq(Stream(side), End(side, Delivered(side)) + 1, pos[side])

\* The loop takes nothing off the buffer and never ends: a length of -1, or a packet without
\* a kind of size 0.
Spins ==
    \/ pc \in Sides /\ IsMessage /\ Size = 0
    \/ pc = "client" /\ IsStartup /\ Request \in Requests /\ PacketSize = 0

\* A message the stack has no room for: be_D's array for a column (protocol.c:892), or fe_p's
\* dump (protocol.c:792, logging.c:173).
TooLarge(side, m) == IF side = "client" THEN TooLargeFe(m) ELSE TooLargeBe(m)

\* Such a message is at the front of the buffer.
TooLargeInFront ==
    \E side \in Sides : \E k \in DOMAIN Script(side) :
        /\ TooLarge(side, Script(side)[k].bytes)
        /\ IsPrefix(Script(side)[k].bytes, data)

\* The decoder ends the worker (protocol.c:489, utils.c:556, or a walk past its buffer or
\* its stack), spins (protocol.c:132, 190), or sends bytes of its own to a client that did
\* not speak protocol 2.0 (protocol.c:480) only when a packet it relies on did not arrive
\* whole, or the two directions have met in the buffer; but a message that is too large for
\* the stack may end it without either.
StopsOnlyConfused ==
    pc = "dead" \/ Spins \/ refused =>
        cut \/ mixed \/ (pc = "dead" /\ ~refused /\ TooLargeInFront)

\* How far before the end of a message the walk over its fields may end: it reads them
\* all, but the loops of be_E and of be_R stop while a short last field is left, and the
\* zero behind the fields of an error is not read.  Of the other kinds only the header is
\* read.
Slack ==
    CASE pc = "client" /\ data[1] \in {66, 67, 68, 69, 80, 81, 100, 102, 112} -> 0
      [] pc = "server" /\ data[1] \in {67, 68, 75, 83, 84, 90, 100} -> 0
      [] pc = "server" /\ data[1] = 69 -> 5
      [] pc = "server" /\ data[1] = 82 -> 8
      [] OTHER -> Size

\* fe_* and be_* (protocol.c:493-1285) find the fields where the peer has put them: no walk
\* leaves the message it began in, NULL columns, empty lists and several fields included,
\* and each ends where the message does, unless the message is too large for the stack.
FieldsMatchMessage ==
    [][pc' = pc /\ pc \in Sides /\ IsMessage /\ ~mixed /\ ~cut /\ ~TooLarge(pc, data) =>
          FieldsEnd \in Size - Slack .. Size]_vars

\* Until the two directions meet in the buffer the trace is right, also while the other
\* side is free to send.
FaithfulUntilConfused == ~cut /\ ~mixed => TraceFaithful

\* Until a packet is cut or the two directions meet, every iteration of the loops
\* (protocol.c:116-197, 221-332) takes off the buffer exactly one message of the side whose
\* chunk has arrived, however the chunks have cut it: the messages without a kind, whose size
\* is not compared with what is there, and the lone byte of a refusal included.
TakesOneMessage ==
    [][pc' = pc /\ pc \in Sides /\ ~cut /\ ~mixed =>
          \E k \in DOMAIN Script(pc) : data = Script(pc)[k].bytes \o data']_vars

\* The handler returns, and gives back the log lock (protocol.c:201, 336), or dies, unless it
\* spins.
HandlerReturns == pc \in Sides ~> pc \notin Sides \/ Spins

-----------------------------------------------------------------------------
(* What the proofs need. *)

\* A message with a kind byte and the length it has.
HasKind(m) ==
    Len(m.bytes) >= 5 /\ m.bytes[1] = m.line /\ Length(m.bytes) + 1 = Len(m.bytes)

\* A packet without a kind that fe_zero knows, protocol 2.0 apart.
IsPacket(m) ==
    /\ m.whole /\ Len(m.bytes) >= 8 /\ m.bytes[1] = 0 /\ Int32(m.bytes, 0) = Len(m.bytes)
    /\ Int32(m.bytes, 4) \in Requests \ {ProtocolTwo}

\* The conversations the decoder is made for.  What follows the refusal of a request waits
\* for a message of the client that has waited for the refusal, and a notice, whose first
\* byte alone looks like the refusal, arrives whole.
WellFormed(client, server) ==
    /\ \A i \in DOMAIN client :
          IF client[i].line = NoLine THEN IsPacket(client[i]) ELSE HasKind(client[i])
    /\ \A i \in DOMAIN server :
          IF server[i].line = NoLine THEN server[i].bytes = <<78>>
          ELSE HasKind(server[i]) /\ (server[i].line = 78 => server[i].whole)
    /\ \A i \in DOMAIN server :
          server[i].line = NoLine /\ i < Len(server) =>
              \E c \in DOMAIN client : c <= server[i + 1].after /\ i <= client[c].after

Conversation == WellFormed(ClientScript, ServerScript)

\* No walk over the fields of a message that the stack has room for leaves the buffer,
\* whatever has arrived behind it.  The refusal has no fields.
WalksStay ==
    \A side \in Sides : \A k \in DOMAIN Script(side) :
        \A n \in End(side, k) .. Len(Stream(side)) :
            Script(side)[k].bytes # <<78>> /\ ~TooLarge(side, Script(side)[k].bytes) =>
                ~Overreads(side, SubSeq(Stream(side), End(side, k - 1) + 1, n))

\* d: how many messages of each side have been taken off the buffer.
Consumed(d) ==
    \A side \in Sides :
        /\ d[side] \in 0 .. Len(Script(side))
        /\ End(side, d[side]) <= pos[side]
        /\ Traced(side) = KindsOf(SubSeq(Script(side), 1, d[side]))

\* The buffer holds what is left of one side, and nothing is left of the other.
Holds(d, side) ==
    /\ End(Other(side), d[Other(side)]) = pos[Other(side)]
    /\ data = SubSeq(Stream(side), End(side, d[side]) + 1, pos[side])

\* No message of the side is left that has arrived completely.
NoneLeft(d, side) ==
    d[side] < Len(Script(side)) => pos[side] < End(side, d[side] + 1)

\* Nothing has been read behind a refusal that is still in the buffer.
RefusalLast(d) ==
    \A k \in DOMAIN ServerScript :
        d["server"] < k /\ ServerScript[k].line = NoLine => pos["server"] <= End("server", k)

\* A message that has begun to arrive had the answers it waited for.
Answered ==
    \A side \in Sides : \A k \in DOMAIN Script(side) :
        End(side, k - 1) < pos[side] => MaySend(side, k)

\* No side is inside a message that should arrive whole.
NotCut ==
    \A side \in Sides : \A k \in DOMAIN Script(side) :
        Script(side)[k].whole => pos[side] <= End(side, k - 1) \/ End(side, k) <= pos[side]

\* d tells what has become of the bytes: the lines are those of the messages that have been
\* taken off, and the buffer is what is left of one side.
UnderstoodAs(d) ==
    /\ Consumed(d) /\ RefusalLast(d)
    /\ pc \in Sides => Holds(d, pc) /\ NoneLeft(d, Other(pc))
    /\ pc = "idle" => /\ \E side \in Sides : Holds(d, side)
                      /\ \A side \in Sides : NoneLeft(d, side)

Understood ==
    \E d \in [Sides -> 0 .. Len(ClientScript) + Len(ServerScript)] : UnderstoodAs(d)

\* The inductive invariant: as long as the decoder is not confused, it has understood.
DecoderInv ==
    /\ Answered
    /\ Orderly => ~mixed /\ ~cut
    /\ ~cut => NotCut
    /\ ~cut /\ ~mixed => Understood /\ ~refused

\* The decoder implements the promise of the trace file.
Promise == INSTANCE MessageTrace WITH
    Conversation <- [side \in Sides |-> KindsOf(Script(side))]

ImplementsMessageTrace == Promise!Spec
=============================================================================
