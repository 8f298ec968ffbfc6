-------------------------------- MODULE Relay --------------------------------
(***************************************************************************)
(* The relay of one worker (src/libpgprtdbg/pipeline.c and message.c, in   *)
(* the loop of worker.c:118-121): one thread that waits for either socket, *)
(* reads a chunk and writes it to the other one with blocking calls.       *)
(* What the decoder does with a chunk is in Decoder, the signal in         *)
(* Lifecycle.                                                              *)
(*                                                                         *)
(* Traffic is counted in pieces: a message is a head piece, with its kind  *)
(* byte, and further pieces, each with whatever byte it begins with; the   *)
(* second holds the severity of an error.  The peers and the socket        *)
(* buffers between them and the worker are external.                       *)
(***************************************************************************)
EXTENDS Integers, Sequences, SequencesExt

CONSTANTS
    Bytes,       \* what a piece may begin with
    HighBytes,   \* those of 0x80 and above
    Traffic,     \* for each side, the pieces it sends: records [byte, head, fatal, after]
    Eager,       \* sides that read while they have something to send
    Capacity,    \* pieces a socket buffer holds
    SaveTraffic, \* save_traffic
    BufferSize   \* buffer_size: pieces of one read()

Sides == {"client", "server"}
Other(side) == IF side = "client" THEN "server" ELSE "client"

\* byte: what the piece begins with.  head: it begins a message.  fatal: it reads FATAL or
\* PANIC, and not 0A000, where the code looks for them if it is the second of a chunk.
\* after: pieces its sender has to receive first.
Piece == [byte : Bytes, head : BOOLEAN, fatal : BOOLEAN, after : Nat]

ASSUME RelayAssumption ==
    /\ {"0", "E", "X"} \subseteq Bytes /\ HighBytes \subseteq Bytes
    /\ Traffic \in [Sides -> Seq(Piece)]
    /\ Eager \subseteq Sides
    /\ Capacity \in Nat \ {0} /\ BufferSize \in Nat \ {0, 1}
    /\ SaveTraffic \in BOOLEAN

Zero == [byte |-> "0", head |-> FALSE, fatal |-> FALSE, after |-> 0]

VARIABLES
    sent,       \* how many pieces each side has sent
    inbox,      \* pieces on their way from a side to the worker
    outbox,     \* pieces on their way from the worker to a side
    received,   \* pieces a side has received
    open,       \* the side has not closed its socket
    saved,      \* the digits that the file of a side holds, one byte to a piece
    pc,         \* poll, callback, decoded, write, ended
    pending,    \* sides whose callbacks this iteration of the loop has still to run
    reader,     \* the side whose chunk is relayed
    data,       \* the one buffer that every chunk is read into
    length,     \* of the chunk
    offset,     \* how much of it has been written
    running, exit_code

peerVars == <<sent, inbox, outbox, received, open>>
loopVars == <<pc, pending, running, exit_code>>
chunkVars == <<reader, data, length, offset>>
vars == <<peerVars, loopVars, chunkVars, saved>>

msg == SubSeq(data, 1, length)
Cleared == [i \in 1 .. BufferSize |-> Zero]

Init ==
    /\ sent = [side \in Sides |-> 0]
    /\ inbox = [side \in Sides |-> <<>>] /\ outbox = [side \in Sides |-> <<>>]
    /\ received = [side \in Sides |-> <<>>]
    /\ open = [side \in Sides |-> TRUE]
    /\ saved = [side \in Sides |-> <<>>]
    /\ pc = "poll" /\ pending = {}
    /\ reader = "client" /\ data = Cleared /\ length = 0 /\ offset = 0
    /\ running = TRUE /\ exit_code = "failure"

-----------------------------------------------------------------------------
(* The peers. *)

\* The side has a piece to send that waits for nothing.
Due(side) ==
    /\ open[side]
    /\ sent[side] < Len(Traffic[side])
    /\ Traffic[side][sent[side] + 1].after <= Len(received[side])

Send(side) ==
    /\ pc # "ended"
    /\ Due(side)
    /\ Len(inbox[side]) < Capacity
    /\ sent' = [sent EXCEPT ![side] = @ + 1]
    /\ inbox' = [inbox EXCEPT ![side] = Append(@, Traffic[side][sent[side] + 1])]
    /\ UNCHANGED <<outbox, received, open, loopVars, chunkVars, saved>>

\* A side that is not eager is blocked in its own write while it has something to send.
Receive(side) ==
    /\ open[side] /\ outbox[side] # <<>>
    /\ side \in Eager \/ ~Due(side)
    /\ received' = [received EXCEPT ![side] = Append(@, Head(outbox[side]))]
    /\ outbox' = [outbox EXCEPT ![side] = Tail(@)]
    /\ UNCHANGED <<sent, inbox, open, loopVars, chunkVars, saved>>

Close(side) ==
    /\ open[side]
    /\ open' = [open EXCEPT ![side] = FALSE]
    /\ UNCHANGED <<sent, inbox, outbox, received, loopVars, chunkVars, saved>>

-----------------------------------------------------------------------------
(* One iteration of the loop; the callbacks of all ready sockets run in it. *)

\* Mutant of Ready: the server's socket is not watched.
ReadyClientOnly == {side \in {"client"} : inbox[side] # <<>> \/ ~open[side]}

Ready == {side \in Sides : inbox[side] # <<>> \/ ~open[side]}

Poll ==
    /\ pc = "poll"
    /\ Ready # {}
    /\ pending' = Ready
    /\ pc' = "callback"
    /\ UNCHANGED <<peerVars, running, exit_code, chunkVars, saved>>

\* Mutant of Read: the chunk is taken for one of the side that was read before.
ReadKeepsReader(side) ==
    /\ pc = "callback" /\ side \in pending /\ inbox[side] # <<>>
    /\ length' = IF Len(inbox[side]) <= BufferSize THEN Len(inbox[side]) ELSE BufferSize
    /\ data' = SubSeq(inbox[side], 1, length') \o SubSeq(data, length' + 1, BufferSize)
    /\ inbox' = [inbox EXCEPT ![side] = SubSeq(@, length' + 1, Len(@))]
    /\ offset' = 0
    /\ pending' = pending \ {side}
    /\ pc' = "decoded"
    /\ UNCHANGED <<sent, outbox, received, open, running, exit_code, reader, saved>>

\* pgprtdbg_read_message and the decoder.  What a longer chunk left in the buffer stays.
Read(side) ==
    /\ pc = "callback" /\ side \in pending /\ inbox[side] # <<>>
    /\ length' = IF Len(inbox[side]) <= BufferSize THEN Len(inbox[side]) ELSE BufferSize
    /\ data' = SubSeq(inbox[side], 1, length') \o SubSeq(data, length' + 1, BufferSize)
    /\ inbox' = [inbox EXCEPT ![side] = SubSeq(@, length' + 1, Len(@))]
    /\ reader' = side /\ offset' = 0
    /\ pending' = pending \ {side}
    /\ pc' = "decoded"
    /\ UNCHANGED <<sent, outbox, received, open, running, exit_code, saved>>

\* pgprtdbg_client calls exit(1) before anything is saved or written.
DecoderExits ==
    /\ pc = "decoded" /\ reader = "client"
    /\ pc' = "ended" /\ pending' = {}
    /\ exit_code' = "failure"
    /\ UNCHANGED <<peerVars, running, chunkVars, saved>>

\* sprintf("%02X") of a signed char: a byte of 0x80 and above comes out as eight digits,
\* FFFFFF first, of which the next byte overwrites all but two.
Printed(byte) == IF byte \in HighBytes THEN "FF" ELSE byte

\* The digits of a dump.  The text beside them is left out, and so is what the long digits
\* leave behind that text when a chunk has less than six bytes.
Dump(pieces) == [i \in 1 .. Len(pieces) |-> Printed(pieces[i].byte)]

\* Mutant of Save: no more than a piece of a chunk is saved.
SaveFirst ==
    /\ pc = "decoded"
    /\ saved' = IF SaveTraffic THEN [saved EXCEPT ![reader] = Append(@, Dump(msg)[1])] ELSE saved
    /\ pc' = "write"
    /\ UNCHANGED <<peerVars, pending, running, exit_code, chunkVars>>

\* write_traffic appends the dump of the chunk to the file of its side and closes it; then
\* pgprtdbg_write_message is entered.
Save ==
    /\ pc = "decoded"
    /\ saved' = IF SaveTraffic THEN [saved EXCEPT ![reader] = @ \o Dump(msg)] ELSE saved
    /\ pc' = "write"
    /\ UNCHANGED <<peerVars, pending, running, exit_code, chunkVars>>

\* fopen() fails, and NULL is written to.
SaveFails ==
    /\ pc = "decoded" /\ SaveTraffic
    /\ pc' = "ended" /\ pending' = {} /\ exit_code' = "SIGSEGV"
    /\ UNCHANGED <<peerVars, running, chunkVars, saved>>

\* The code a callback leaves when it cannot go on with a side.
Failure(side) == IF side = "client" THEN "client_failure" ELSE "server_failure"

\* Mutants of EndOfFile: the callback forgets running = 0, and takes the end of the
\* stream for reached while the socket still holds data.
EndOfFileKeepsRunning(side) ==
    /\ pc = "callback" /\ side \in pending
    /\ inbox[side] = <<>> /\ ~open[side]
    /\ exit_code' \in {Failure(side)} \cup (IF side = "server" THEN {exit_code} ELSE {})
    /\ pending' = pending \ {side}
    /\ UNCHANGED <<peerVars, pc, running, chunkVars, saved>>

EndOfFileEarly(side) ==
    /\ pc = "callback" /\ side \in pending
    /\ ~open[side]
    /\ running' = FALSE
    /\ exit_code' \in {Failure(side)} \cup (IF side = "server" THEN {exit_code} ELSE {})
    /\ pending' = pending \ {side}
    /\ UNCHANGED <<peerVars, pc, chunkVars, saved>>

\* read() returns 0 or an error: the buffer is cleared; client_done, client_error,
\* server_done, server_error.  The third does not touch exit_code.
EndOfFile(side) ==
    /\ pc = "callback" /\ side \in pending
    /\ inbox[side] = <<>> /\ ~open[side]
    /\ running' = FALSE
    /\ exit_code' \in {Failure(side)} \cup (IF side = "server" THEN {exit_code} ELSE {})
    /\ pending' = pending \ {side}
    /\ data' = Cleared /\ length' = 0 /\ offset' = 0
    /\ UNCHANGED <<peerVars, pc, reader, saved>>

-----------------------------------------------------------------------------
(* write_message, and the rest of the callback. *)

\* Mutant of Write: a short write is taken for a whole one.
WriteShort ==
    LET to == Other(reader) IN
    /\ pc = "write" /\ offset < Len(msg)
    /\ open[to] /\ Len(outbox[to]) < Capacity
    /\ outbox' = [outbox EXCEPT ![to] = Append(@, msg[offset + 1])]
    /\ offset' = Len(msg)
    /\ UNCHANGED <<sent, inbox, received, open, loopVars, reader, data, length, saved>>

\* write() takes what the socket has room for, and blocks while it has none.
Write ==
    LET to == Other(reader) IN
    /\ pc = "write" /\ offset < Len(msg)
    /\ open[to] /\ Len(outbox[to]) < Capacity
    /\ outbox' = [outbox EXCEPT ![to] = Append(@, msg[offset + 1])]
    /\ offset' = offset + 1
    /\ UNCHANGED <<sent, inbox, received, open, loopVars, reader, data, length, saved>>

\* The peer is gone, and the kernel does not know it yet.
WriteIntoVoid ==
    /\ pc = "write" /\ offset < Len(msg)
    /\ ~open[Other(reader)]
    /\ offset' = Len(msg)
    /\ UNCHANGED <<peerVars, loopVars, reader, data, length, saved>>

\* The peer is gone, and write() says so.
WriteFails ==
    /\ pc = "write" /\ offset < Len(msg)
    /\ ~open[Other(reader)]
    /\ running' = FALSE /\ exit_code' = Failure(Other(reader))
    /\ pc' = "callback"
    /\ UNCHANGED <<peerVars, pending, chunkVars, saved>>

\* The peer is gone, and SIGPIPE, which nothing handles, ends the process.
WriteKills ==
    /\ pc = "write" /\ offset < Len(msg)
    /\ ~open[Other(reader)]
    /\ pc' = "ended" /\ pending' = {} /\ exit_code' = "SIGPIPE"
    /\ UNCHANGED <<peerVars, running, chunkVars, saved>>

\* Mutant of Fatal: the severity is not looked at.
FatalAny == data[1].byte = "E"

\* The severity is compared at fixed places of the buffer, however short the chunk.
Fatal == data[1].byte = "E" /\ data[2].fatal

\* msg->kind is the first byte of the chunk: 'X' ends the session, and so does a fatal 'E'.
Relayed ==
    /\ pc = "write" /\ offset = Len(msg)
    /\ LET terminate == reader = "client" /\ data[1].byte = "X"
           fatal == reader = "server" /\ Fatal
       IN  /\ running' = (running /\ ~terminate /\ ~fatal)
           /\ exit_code' = IF terminate THEN "success"
                           ELSE IF fatal THEN "server_fatal" ELSE exit_code
    /\ pc' = "callback"
    /\ UNCHANGED <<peerVars, pending, chunkVars, saved>>

\* The worker goes on while running, or closes both sockets and exits.
EndIteration ==
    /\ pc = "callback" /\ pending = {}
    /\ pc' = IF running THEN "poll" ELSE "ended"
    /\ UNCHANGED <<peerVars, pending, running, exit_code, chunkVars, saved>>

-----------------------------------------------------------------------------
Step ==
    \/ Poll \/ EndIteration \/ Save \/ Relayed
    \/ Write \/ WriteIntoVoid \/ WriteFails \/ WriteKills
    \/ \E side \in Sides : Read(side) \/ EndOfFile(side)

Next ==
    \/ Step \/ DecoderExits \/ SaveFails
    \/ \E side \in Sides : Send(side) \/ Receive(side) \/ Close(side)

Spec == Init /\ [][Next]_vars

(***************************************************************************)
(* The worker runs on when it can; a peer sends what it has and reads what *)
(* there is when it is not blocked itself.  No peer has to close.          *)
(***************************************************************************)
Fairness ==
    /\ WF_vars(Step)
    /\ \A side \in Sides : WF_vars(Send(side)) /\ WF_vars(Receive(side))

FairSpec == Spec /\ Fairness

-----------------------------------------------------------------------------
(* Properties. *)

Digits == Bytes \cup {"FF"}
Pieces(side) == {Traffic[side][i] : i \in DOMAIN Traffic[side]}

TypeOK ==
    /\ sent \in [Sides -> Nat] /\ open \in [Sides -> BOOLEAN]
    /\ inbox \in [Sides -> Seq(Piece)] /\ outbox \in [Sides -> Seq(Piece)]
    /\ received \in [Sides -> Seq(Piece)] /\ saved \in [Sides -> Seq(Digits)]
    /\ \A side \in Sides :
          /\ sent[side] <= Len(Traffic[side])
          /\ Len(inbox[side]) <= Capacity /\ Len(outbox[side]) <= Capacity
          /\ inbox[side] \in Seq(Pieces(side))
    /\ pc \in {"poll", "callback", "decoded", "write", "ended"}
    /\ pending \subseteq Sides
    /\ reader \in Sides
    /\ data \in Seq(Piece) /\ Len(data) = BufferSize
    /\ length \in 0 .. BufferSize /\ offset \in 0 .. length
    /\ \A i \in 1 .. length : data[i] \in Pieces(reader)
    /\ running \in BOOLEAN
    /\ exit_code \in {"success", "failure", "client_failure", "server_failure",
                      "server_fatal", "SIGPIPE", "SIGSEGV"}

\* How many pieces of a side the worker has read, how many of them have got to the socket of
\* the other side, and how many it has in its hands.
Taken(side) == sent[side] - Len(inbox[side])
Passed(side) == Len(received[Other(side)]) + Len(outbox[Other(side)])
InHand(side) == IF pc \in {"decoded", "write"} /\ reader = side THEN length - offset ELSE 0

\* The inductive invariant behind the pipes: what is anywhere on the way is the traffic of
\* its side, at its place.  What is received, in the one socket, in the hands of the worker
\* and in the other socket makes up what was sent, until the receiver or the worker ends.
InPlace(side) ==
    LET to == Other(side) IN
    /\ \A i \in 1 .. Len(received[to]) : received[to][i] = Traffic[side][i]
    /\ \A i \in 1 .. Len(outbox[to]) : outbox[to][i] = Traffic[side][Len(received[to]) + i]
    /\ \A i \in 1 .. Len(inbox[side]) : inbox[side][i] = Traffic[side][Taken(side) + i]

ChunkInPlace(side) ==
    pc \in {"decoded", "write"} /\ reader = side =>
        /\ length > 0 /\ length <= Taken(side) /\ (pc = "decoded" => offset = 0)
        /\ \A i \in 1 .. length : data[i] = Traffic[side][Taken(side) - length + i]

Counted(side) ==
    /\ Passed(side) + InHand(side) <= Taken(side)
    /\ open[Other(side)] /\ pc # "ended" => Passed(side) + InHand(side) = Taken(side)

FlowInv == \A side \in Sides : InPlace(side) /\ ChunkInPlace(side) /\ Counted(side)

\* The inductive invariant behind the traffic files: a file is the dump of what has been read
\* of its side, but for a chunk that is still with the decoder, and is ahead of the sockets.
Fresh(side) == IF pc = "decoded" /\ reader = side THEN length ELSE 0

SavedSoFar(side) ==
    /\ \A i \in 1 .. Len(saved[side]) : saved[side][i] = Printed(Traffic[side][i].byte)
    /\ Passed(side) <= Len(saved[side])
    /\ Len(saved[side]) + Fresh(side) <= Taken(side)
    /\ pc # "ended" => Len(saved[side]) + Fresh(side) = Taken(side)

SavedInv == SaveTraffic => \A side \in Sides : SavedSoFar(side)

\* The inductive invariant behind the reasons to end: what is in the buffer was sent by a
\* side, or is zero.
BufferInv ==
    \A i \in 1 .. BufferSize :
        data[i] = Zero \/ \E side \in Sides : \E j \in 1 .. sent[side] : data[i] = Traffic[side][j]

\* The relay implements two pipes (message.c:159-268): whatever the chunks and the short
\* writes, nothing is lost in the middle, repeated or reordered.
Queue(side) ==
    LET to == Other(side) IN
    IF ~open[to] THEN <<>>
    ELSE IF pc = "ended" THEN outbox[to]
    ELSE IF pc \in {"decoded", "write"} /\ reader = side
         THEN outbox[to] \o SubSeq(msg, offset + 1, Len(msg)) \o inbox[side]
         ELSE outbox[to] \o inbox[side]

Promise == INSTANCE Pipe WITH
    queue <- [side \in Sides |-> Queue(side)],
    received <- [side \in Sides |-> received[Other(side)]],
    broken <- [side \in Sides |-> ~open[Other(side)] \/ pc = "ended"]

ImplementsPipe == Promise!Spec

\* The worker takes the end of a stream (pipeline.c:80-82, 193-195) as the end of the
\* session only when all that came before it has been passed on.
EndOfFileIsLast ==
    [][\A side \in Sides : EndOfFile(side) /\ open[Other(side)] =>
          received[Other(side)] \o outbox[Other(side)] =
              SubSeq(Traffic[side], 1, sent[side])]_vars

\* The files of save_traffic are ahead of the traffic (pipeline.c:62-66, 161-164): nothing
\* reaches a socket whose dump is not in the file of its side before, in the same order, and
\* nothing is in it that is not the dump of what was sent, wherever the worker dies.  A dump
\* does not keep every byte: from 0x80 on it shows FF (utils.c:399).
SavedBeforeSent ==
    SaveTraffic =>
        \A side \in Sides :
            LET passed == received[Other(side)] \o outbox[Other(side)]
            IN  /\ IsPrefix(Dump(passed), saved[side])
                /\ IsPrefix(saved[side], Dump(SubSeq(Traffic[side], 1, sent[side])))

\* The worker leaves its loop by itself only for a reason (pipeline.c:74-78, 172-191): a side
\* has closed, the client has sent a piece that begins with an X, or the server one that
\* begins with an E while a piece of the session, of either side, reads FATAL; the bytes an
\* earlier chunk left in the buffer count, those of nobody do not.
EndsForReason ==
    ~running =>
        \/ \E side \in Sides : ~open[side]
        \/ \E i \in 1 .. sent["client"] : Traffic["client"][i].byte = "X"
        \/ /\ \E i \in 1 .. sent["server"] : Traffic["server"][i].byte = "E"
           /\ \E side \in Sides : \E i \in 1 .. sent[side] : Traffic[side][i].fatal

\* The one way in which the relay stands still: the worker is blocked in write()
\* (message.c:231) to a side that does not read because its own write to the worker is
\* blocked, as a server that answers before it reads on.
Stalled ==
    LET to == Other(reader) IN
    /\ pc = "write" /\ offset < Len(msg)
    /\ open[to] /\ to \notin Eager /\ Due(to)
    /\ Len(outbox[to]) = Capacity /\ Len(inbox[to]) = Capacity

\* Everything that is sent arrives, unless its receiver closes, the worker ends or the
\* relay stalls; the loop (worker.c:118-121) starves neither side.
Relays ==
    \A side \in Sides : \A n \in 1 .. Len(Traffic[side]) :
        [](sent[side] >= n =>
              \/ <>(Len(received[Other(side)]) >= n \/ ~open[Other(side)] \/ pc = "ended")
              \/ <>[]Stalled)

\* A worker does not outlive its connections (pipeline.c:92-101, 225-233): once a side has
\* closed, the worker ends, unless the relay stalls.
ClosedEnds ==
    \A side \in Sides : [](~open[side] => <>(pc = "ended") \/ <>[]Stalled)

\* pgprtdbg.h:121, "The kind of the message": the worker ends with success when the kind
\* says Terminate, so a client with that worker has sent a Terminate.
SuccessMeansTerminate ==
    exit_code = "success" =>
        \E i \in 1 .. sent["client"] :
            Traffic["client"][i].byte = "X" /\ Traffic["client"][i].head
=============================================================================
