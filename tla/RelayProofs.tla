---------------------------- MODULE RelayProofs ----------------------------
(***************************************************************************)
(* Theorems about Relay, for any traffic, any socket and any buffer size.  *)
(***************************************************************************)
EXTENDS Relay, SequenceTheorems, TLAPS

(* The two sides, and the chunk that a read leaves in the buffer. *)

\* The two sides: each has the other, and it is not itself.
LEMMA OtherSide == \A side \in Sides : /\ Other(side) \in Sides /\ Other(side) # side
                                       /\ Other(Other(side)) = side
  BY DEF Sides, Other

\* There are only two sides.
LEMMA TwoSides == \A s, t \in Sides : t # s => t = Other(s)
  BY DEF Sides, Other

\* What a side sends is made of pieces.
LEMMA PiecesArePieces == \A side \in Sides : Pieces(side) \subseteq Piece
  BY RelayAssumption DEF Pieces

\* Every element of the traffic is one of the pieces of its side.
LEMMA PiecesHold ==
  \A side \in Sides : \A i \in 1 .. Len(Traffic[side]) : Traffic[side][i] \in Pieces(side)
  BY RelayAssumption DEF Pieces

\* The byte memset() writes is a piece.
LEMMA ZeroIsPiece == Zero \in Piece
<1>1. "0" \in Bytes
  BY RelayAssumption
<1> QED BY <1>1 DEF Zero, Piece

\* Sequences that are joined or cut out of others, element by element.
LEMMA Joined ==
  ASSUME NEW S, NEW s \in Seq(S), NEW t \in Seq(S)
  PROVE  s \o t \in Seq(S) /\ Len(s \o t) = Len(s) + Len(t)
  OBVIOUS

\* An element of two sequences joined.
LEMMA JoinedAt ==
  ASSUME NEW S, NEW s \in Seq(S), NEW t \in Seq(S), NEW i \in 1 .. Len(s) + Len(t)
  PROVE  (s \o t)[i] = IF i <= Len(s) THEN s[i] ELSE t[i - Len(s)]
  OBVIOUS

\* The type and the length of a part of a sequence.
LEMMA Part ==
  ASSUME NEW S, NEW s \in Seq(S), NEW m \in Nat, NEW n \in Nat, m <= n, n <= Len(s)
  PROVE  SubSeq(s, m + 1, n) \in Seq(S) /\ Len(SubSeq(s, m + 1, n)) = n - m
  OBVIOUS

\* An element of a part of a sequence.
LEMMA PartAt ==
  ASSUME NEW S, NEW s \in Seq(S), NEW m \in Nat, NEW n \in Nat, m <= n, n <= Len(s),
         NEW i \in 1 .. n - m
  PROVE  SubSeq(s, m + 1, n)[i] = s[m + i]
  OBVIOUS

\* The front of a sequence is copied over the front of another.
Over(box, buffer, n) == SubSeq(box, 1, n) \o SubSeq(buffer, n + 1, Len(buffer))

\* What memcpy() of the first n elements leaves in a buffer.
LEMMA CopyOver ==
  ASSUME NEW S, NEW box \in Seq(S), NEW buffer \in Seq(S),
         NEW n \in Nat, n <= Len(box), n <= Len(buffer)
  PROVE  /\ Over(box, buffer, n) \in Seq(S) /\ Len(Over(box, buffer, n)) = Len(buffer)
         /\ \A i \in 1 .. n : Over(box, buffer, n)[i] = box[i]
         /\ \A i \in n + 1 .. Len(buffer) : Over(box, buffer, n)[i] = buffer[i]
<1> DEFINE c == SubSeq(box, 1, n)
           d == SubSeq(buffer, n + 1, Len(buffer))
<1>1. c \in Seq(S) /\ Len(c) = n
  OBVIOUS
<1>2. ASSUME NEW i \in 1 .. n PROVE c[i] = box[i]
  OBVIOUS
<1>3. d \in Seq(S) /\ Len(d) = Len(buffer) - n
  BY Part
<1>4. ASSUME NEW i \in 1 .. Len(buffer) - n PROVE d[i] = buffer[n + i]
  BY PartAt
<1> HIDE DEF c, d
<1>5. c \o d \in Seq(S) /\ Len(c \o d) = Len(c) + Len(d)
  BY <1>1, <1>3, Joined, Zenon
<1>6. ASSUME NEW i \in 1 .. Len(c) + Len(d)
      PROVE  (c \o d)[i] = IF i <= Len(c) THEN c[i] ELSE d[i - Len(c)]
  BY <1>1, <1>3, JoinedAt, Zenon
<1>7. c \o d \in Seq(S) /\ Len(c \o d) = Len(buffer)
  BY <1>1, <1>3, <1>5
<1>8. ASSUME NEW i \in 1 .. n PROVE (c \o d)[i] = box[i]
  BY <1>1, <1>2, <1>3, <1>6
<1>9. ASSUME NEW i \in n + 1 .. Len(buffer) PROVE (c \o d)[i] = buffer[i]
  <2>1. i - n \in 1 .. Len(buffer) - n /\ i \in 1 .. Len(c) + Len(d) /\ ~(i <= Len(c))
    BY <1>1, <1>3
  <2>2. (c \o d)[i] = d[i - n]
    BY <1>1, <1>6, <2>1
  <2>3. d[i - n] = buffer[n + (i - n)]
    BY <1>4, <2>1
  <2> QED BY <2>2, <2>3
<1> QED BY <1>7, <1>8, <1>9 DEF c, d, Over

\* The chunk is what was at the front of the socket, the rest of the buffer is as it was,
\* and the socket keeps the rest.
LEMMA ReadChunk ==
  ASSUME TypeOK, NEW side \in Sides, Read(side)
  PROVE  /\ length' \in 1 .. BufferSize /\ length' <= Len(inbox[side])
         /\ data' \in Seq(Piece) /\ Len(data') = BufferSize
         /\ \A i \in 1 .. length' : data'[i] = inbox[side][i]
         /\ \A i \in length' + 1 .. BufferSize : data'[i] = data[i]
         /\ inbox' \in [Sides -> Seq(Piece)] /\ inbox'[side] \in Seq(Pieces(side))
         /\ Len(inbox'[side]) = Len(inbox[side]) - length'
         /\ \A i \in 1 .. Len(inbox'[side]) : inbox'[side][i] = inbox[side][length' + i]
         /\ inbox'[Other(side)] = inbox[Other(side)]
<1>1. PICK box, buffer, chunk, n :
        box = inbox[side] /\ buffer = data /\ chunk = data' /\ n = length'
  OBVIOUS
<1>2. box \in Seq(Piece) /\ Len(box) \in Nat \ {0}
  BY <1>1 DEF TypeOK, Read
<1>3. buffer \in Seq(Piece) /\ BufferSize = Len(buffer) /\ BufferSize \in Nat \ {0, 1}
  BY <1>1, RelayAssumption DEF TypeOK
<1>4. /\ n \in Nat /\ n > 0 /\ n <= BufferSize /\ n <= Len(box)
      /\ Len(box) \in Nat /\ Len(box) <= Len(box)
  BY <1>1, <1>2, <1>3 DEF Read
<1>5. chunk = Over(box, buffer, n)
  BY <1>1, <1>3 DEF Read, Over
<1>6. /\ chunk \in Seq(Piece) /\ Len(chunk) = Len(buffer)
      /\ \A i \in 1 .. n : chunk[i] = box[i]
      /\ \A i \in n + 1 .. Len(buffer) : chunk[i] = buffer[i]
  <2>1. box \in Seq(Piece) /\ buffer \in Seq(Piece)
    BY <1>2, <1>3
  <2>2. n \in Nat /\ n <= Len(box) /\ n <= Len(buffer)
    BY <1>3, <1>4
  <2> QED BY <1>5, <2>1, <2>2, CopyOver
<1>7. PICK rest : rest = SubSeq(box, n + 1, Len(box))
  OBVIOUS
<1>8. rest \in Seq(Piece) /\ Len(rest) = Len(box) - n
  BY <1>2, <1>4, <1>7, Part, Zenon
<1>9. ASSUME NEW i \in 1 .. Len(box) - n PROVE rest[i] = box[n + i]
  BY <1>2, <1>4, <1>7, PartAt, Zenon
<1>a. rest \in Seq(Pieces(side))
  <2>1. box \in Seq(Pieces(side))
    BY <1>1 DEF TypeOK
  <2> QED BY <1>4, <1>7, <2>1, Part, Zenon
<1>b. inbox' = [inbox EXCEPT ![side] = rest]
  BY <1>1, <1>7 DEF Read
<1>c. /\ inbox' \in [Sides -> Seq(Piece)] /\ inbox'[side] = rest
       /\ inbox'[Other(side)] = inbox[Other(side)]
  BY <1>8, <1>b, OtherSide DEF TypeOK
<1>d. length' \in 1 .. BufferSize /\ length' <= Len(inbox[side])
  BY <1>1, <1>3, <1>4
<1>e. /\ data' \in Seq(Piece) /\ Len(data') = BufferSize
      /\ \A i \in 1 .. length' : data'[i] = inbox[side][i]
      /\ \A i \in length' + 1 .. BufferSize : data'[i] = data[i]
  BY <1>1, <1>3, <1>6, Zenon
<1>f. /\ inbox'[side] \in Seq(Pieces(side))
      /\ Len(inbox'[side]) = Len(inbox[side]) - length'
      /\ \A i \in 1 .. Len(inbox'[side]) : inbox'[side][i] = inbox[side][length' + i]
  BY <1>1, <1>8, <1>9, <1>a, <1>c, Zenon
<1> QED BY <1>c, <1>d, <1>e, <1>f

-----------------------------------------------------------------------------
(* Types. *)

\* The message is what read() has put at the front of the buffer.
LEMMA MsgIs ==
  ASSUME TypeOK
  PROVE  /\ msg \in Seq(Piece) /\ Len(msg) = length
         /\ \A i \in 1 .. length : msg[i] = data[i]
<1>1. /\ data \in Seq(Piece) /\ length \in Nat /\ length <= Len(data)
  BY RelayAssumption DEF TypeOK
<1> QED BY <1>1 DEF msg

\* The buffer as memset() leaves it.
LEMMA ClearedBuffer ==
  /\ Cleared \in Seq(Piece) /\ Len(Cleared) = BufferSize
  /\ \A i \in 1 .. BufferSize : Cleared[i] = Zero
  BY ZeroIsPiece, RelayAssumption DEF Cleared

\* A dump has a place for every piece, with the digits of the byte it begins with.
LEMMA DumpIs ==
  ASSUME NEW pieces \in Seq(Piece)
  PROVE  /\ Dump(pieces) \in Seq(Digits) /\ Len(Dump(pieces)) = Len(pieces)
         /\ \A i \in 1 .. Len(pieces) : Dump(pieces)[i] = Printed(pieces[i].byte)
<1>1. \A i \in 1 .. Len(pieces) : pieces[i] \in Piece
  OBVIOUS
<1>2. \A i \in 1 .. Len(pieces) : Printed(pieces[i].byte) \in Digits
  BY <1>1 DEF Printed, Digits, Piece
<1> QED BY <1>2 DEF Dump

\* The first states have the types.
LEMMA TypeInit == Init => TypeOK
<1> SUFFICES ASSUME Init PROVE TypeOK
  OBVIOUS
<1> USE RelayAssumption
<1>1. /\ sent \in [Sides -> Nat] /\ open \in [Sides -> BOOLEAN]
      /\ inbox \in [Sides -> Seq(Piece)] /\ outbox \in [Sides -> Seq(Piece)]
      /\ received \in [Sides -> Seq(Piece)] /\ saved \in [Sides -> Seq(Digits)]
  BY DEF Init
<1>2. ASSUME NEW side \in Sides
      PROVE  /\ sent[side] <= Len(Traffic[side])
             /\ Len(inbox[side]) <= Capacity /\ Len(outbox[side]) <= Capacity
             /\ inbox[side] \in Seq(Pieces(side))
  BY DEF Init
<1>3. data \in Seq(Piece) /\ Len(data) = BufferSize
  BY ClearedBuffer DEF Init
<1> QED BY <1>1, <1>2, <1>3 DEF Init, TypeOK, Sides

\* Every step keeps the types.
LEMMA TypeNext == TypeOK /\ [Next]_vars => TypeOK'
<1> SUFFICES ASSUME TypeOK, [Next]_vars PROVE TypeOK'
  OBVIOUS
<1> USE RelayAssumption
<1>1. CASE UNCHANGED vars
  BY <1>1 DEF vars, peerVars, loopVars, chunkVars, TypeOK, Pieces
<1>2. CASE Poll
  BY <1>2 DEF Poll, Ready, peerVars, chunkVars, TypeOK
<1>3. CASE EndIteration
  BY <1>3 DEF EndIteration, peerVars, chunkVars, TypeOK
<1>4. CASE Save
  <2>1. saved' \in [Sides -> Seq(Digits)]
    BY <1>4, MsgIs, DumpIs DEF Save, TypeOK
  <2> QED BY <1>4, <2>1 DEF Save, peerVars, chunkVars, TypeOK
<1>5. CASE Relayed
  BY <1>5 DEF Relayed, peerVars, chunkVars, TypeOK
<1>6. CASE Write
  <2>0. offset < length /\ offset + 1 \in 1 .. length /\ length <= BufferSize
    BY <1>6, MsgIs DEF Write, TypeOK
  <2>1. msg[offset + 1] \in Piece /\ Other(reader) \in Sides
    BY <2>0, MsgIs, OtherSide DEF TypeOK
  <2>2. outbox' = [outbox EXCEPT ![Other(reader)] = Append(@, msg[offset + 1])]
    BY <1>6 DEF Write
  <2>3. outbox' \in [Sides -> Seq(Piece)]
    BY <2>1, <2>2 DEF TypeOK
  <2>4. ASSUME NEW side \in Sides PROVE Len(outbox'[side]) <= Capacity
    BY <1>6, <2>1, <2>2 DEF Write, TypeOK
  <2>5. offset' \in 0 .. length
    BY <1>6, <2>0 DEF Write, TypeOK
  <2> QED BY <1>6, <2>3, <2>4, <2>5 DEF Write, loopVars, TypeOK
<1>7. CASE WriteIntoVoid
  <2>1. offset' \in 0 .. length
    BY <1>7, MsgIs DEF WriteIntoVoid, TypeOK
  <2> QED BY <1>7, <2>1 DEF WriteIntoVoid, peerVars, loopVars, TypeOK
<1>8. CASE WriteFails
  BY <1>8, OtherSide DEF WriteFails, peerVars, chunkVars, TypeOK, Failure
<1>9. CASE WriteKills
  BY <1>9 DEF WriteKills, peerVars, chunkVars, TypeOK
<1>10. ASSUME NEW side \in Sides, Read(side) PROVE TypeOK'
  <2>1. /\ length' \in 1 .. BufferSize /\ length' <= Len(inbox[side])
        /\ data' \in Seq(Piece) /\ Len(data') = BufferSize
        /\ \A i \in 1 .. length' : data'[i] = inbox[side][i]
        /\ inbox' \in [Sides -> Seq(Piece)] /\ inbox'[side] \in Seq(Pieces(side))
        /\ Len(inbox'[side]) = Len(inbox[side]) - length'
        /\ inbox'[Other(side)] = inbox[Other(side)]
    BY <1>10, ReadChunk
  <2>2. ASSUME NEW i \in 1 .. length' PROVE data'[i] \in Pieces(side)
    <3>1. inbox[side] \in Seq(Pieces(side)) /\ i \in 1 .. Len(inbox[side])
      BY <2>1 DEF TypeOK
    <3>2. inbox[side][i] \in Pieces(side)
      BY <3>1
    <3> QED BY <2>1, <3>2
  <2>3. ASSUME NEW s \in Sides
        PROVE  Len(inbox'[s]) <= Capacity /\ inbox'[s] \in Seq(Pieces(s))
    <3>1. CASE s = side
      BY <2>1, <3>1 DEF TypeOK
    <3>2. CASE s = Other(side)
      BY <2>1, <3>2 DEF TypeOK
    <3> QED BY <3>1, <3>2, TwoSides
  <2>4. /\ pc' = "decoded" /\ pending' \subseteq Sides /\ reader' = side /\ offset' = 0
        /\ UNCHANGED <<sent, outbox, received, open, running, exit_code, saved>>
    BY <1>10 DEF Read, TypeOK
  <2>5. length' \in 0 .. BufferSize /\ offset' \in 0 .. length'
    BY <2>1, <2>4
  <2> QED BY <2>1, <2>2, <2>3, <2>4, <2>5 DEF TypeOK
<1>11. ASSUME NEW side \in Sides, EndOfFile(side) PROVE TypeOK'
  <2>1. data' \in Seq(Piece) /\ Len(data') = BufferSize
    BY <1>11, ClearedBuffer DEF EndOfFile
  <2>2. length' = 0 /\ length' \in 0 .. BufferSize /\ offset' \in 0 .. length'
    BY <1>11 DEF EndOfFile
  <2>3. \A i \in 1 .. length' : data'[i] \in Pieces(reader')
    BY <2>2
  <2>4. exit_code' \in {exit_code, "client_failure", "server_failure"}
    BY <1>11 DEF EndOfFile, Failure
  <2>5. /\ running' = FALSE /\ pending' \subseteq Sides
        /\ UNCHANGED <<sent, inbox, outbox, received, open, pc, reader, saved>>
    BY <1>11 DEF EndOfFile, peerVars, TypeOK
  <2> QED BY <2>1, <2>2, <2>3, <2>4, <2>5 DEF TypeOK
<1>12. CASE DecoderExits
  BY <1>12 DEF DecoderExits, peerVars, chunkVars, TypeOK
<1>13. CASE SaveFails
  BY <1>13 DEF SaveFails, peerVars, chunkVars, TypeOK
<1>14. ASSUME NEW side \in Sides, Send(side) PROVE TypeOK'
  <2>1. sent[side] + 1 \in 1 .. Len(Traffic[side])
    <3>1. sent[side] \in Nat /\ sent[side] <= Len(Traffic[side])
      BY DEF TypeOK
    <3>2. sent[side] < Len(Traffic[side])
      BY <1>14, Zenon DEF Send, Due
    <3>3. Len(Traffic[side]) \in Nat
      <4>1. Traffic[side] \in Seq(Piece)
        BY RelayAssumption
      <4> QED BY <4>1
    <3> QED BY <3>1, <3>2, <3>3
  <2>0. /\ Traffic[side][sent[side] + 1] \in Pieces(side)
        /\ Traffic[side][sent[side] + 1] \in Piece
    BY <2>1, PiecesHold, PiecesArePieces
  <2>2. inbox' = [inbox EXCEPT ![side] = Append(@, Traffic[side][sent[side] + 1])]
    BY <1>14 DEF Send
  <2>3. inbox' \in [Sides -> Seq(Piece)]
    BY <2>0, <2>2 DEF TypeOK
  <2>4. ASSUME NEW s \in Sides
        PROVE  Len(inbox'[s]) <= Capacity /\ inbox'[s] \in Seq(Pieces(s))
    BY <1>14, <2>0, <2>2 DEF Send, TypeOK
  <2>5. sent' \in [Sides -> Nat] /\ \A s \in Sides : sent'[s] <= Len(Traffic[s])
    BY <1>14, <2>1 DEF Send, TypeOK
  <2> QED BY <1>14, <2>3, <2>4, <2>5 DEF Send, loopVars, chunkVars, TypeOK
<1>15. ASSUME NEW side \in Sides, Receive(side) PROVE TypeOK'
  <2>1. Head(outbox[side]) \in Piece /\ Tail(outbox[side]) \in Seq(Piece)
        /\ Len(Tail(outbox[side])) = Len(outbox[side]) - 1
    BY <1>15 DEF Receive, TypeOK
  <2>2. received' \in [Sides -> Seq(Piece)] /\ outbox' \in [Sides -> Seq(Piece)]
    BY <1>15, <2>1 DEF Receive, TypeOK
  <2>3. ASSUME NEW s \in Sides PROVE Len(outbox'[s]) <= Capacity
    BY <1>15, <2>1 DEF Receive, TypeOK
  <2> QED BY <1>15, <2>2, <2>3 DEF Receive, loopVars, chunkVars, TypeOK
<1>16. ASSUME NEW side \in Sides, Close(side) PROVE TypeOK'
  BY <1>16 DEF Close, loopVars, chunkVars, TypeOK
<1> QED BY <1>1, <1>2, <1>3, <1>4, <1>5, <1>6, <1>7, <1>8, <1>9, <1>10, <1>11, <1>12,
           <1>13, <1>14, <1>15, <1>16 DEF Next, Step

\* What is on the way in a socket or in the buffer belongs to the side it was read from, and
\* no socket and no buffer holds more than it has room for (message.c:159-268).
THEOREM TypeCorrect == Spec => []TypeOK
  BY TypeInit, TypeNext, PTL DEF Spec

-----------------------------------------------------------------------------
(* The flow through the worker. *)

\* The counts that the bookkeeping is made of are natural numbers.
LEMMA Numbers ==
  ASSUME TypeOK, NEW side \in Sides
  PROVE  /\ sent[side] \in Nat /\ Len(inbox[side]) \in Nat /\ Len(outbox[side]) \in Nat
         /\ Len(received[side]) \in Nat /\ Len(saved[side]) \in Nat
         /\ length \in Nat /\ offset \in Nat /\ offset <= length
         /\ Taken(side) \in Int /\ Passed(side) \in Nat /\ InHand(side) \in Nat
         /\ Fresh(side) \in Nat
<1>1. /\ sent[side] \in Nat /\ Len(inbox[side]) \in Nat /\ Len(outbox[side]) \in Nat
      /\ Len(received[side]) \in Nat /\ Len(saved[side]) \in Nat
      /\ Len(received[Other(side)]) \in Nat /\ Len(outbox[Other(side)]) \in Nat
  BY OtherSide DEF TypeOK
<1>2. length \in Nat /\ offset \in Nat /\ offset <= length
  BY RelayAssumption DEF TypeOK
<1>3. Taken(side) \in Int
  BY <1>1 DEF Taken
<1>4. Passed(side) \in Nat
  <2>1. PICK r, b : r = Len(received[Other(side)]) /\ b = Len(outbox[Other(side)])
    OBVIOUS
  <2>2. r \in Nat /\ b \in Nat
    BY <1>1, <2>1
  <2>3. Passed(side) = r + b
    BY <2>1, Zenon DEF Passed
  <2> QED BY <2>2, <2>3
<1>5. InHand(side) \in Nat
  BY <1>2 DEF InHand
<1>6. Fresh(side) \in Nat
  BY <1>2 DEF Fresh
<1> QED BY <1>1, <1>2, <1>3, <1>4, <1>5, <1>6

\* The queues are in place when the relay begins.
LEMMA FlowInit == Init => FlowInv
<1> SUFFICES ASSUME Init, NEW side \in Sides
             PROVE  InPlace(side) /\ ChunkInPlace(side) /\ Counted(side)
  BY DEF FlowInv
<1>1. /\ received[Other(side)] = <<>> /\ outbox[Other(side)] = <<>> /\ inbox[side] = <<>>
      /\ sent[side] = 0 /\ pc = "poll"
  BY OtherSide DEF Init
<1>2. Taken(side) = 0 /\ Passed(side) = 0 /\ InHand(side) = 0
  <2>1. /\ Len(received[Other(side)]) = 0 /\ Len(outbox[Other(side)]) = 0
        /\ Len(inbox[side]) = 0
    BY <1>1
  <2>2. Taken(side) = 0 - 0 /\ Passed(side) = 0 + 0
    BY <1>1, <2>1, Zenon DEF Taken, Passed
  <2> QED BY <1>1, <2>2 DEF InHand
<1>3. InPlace(side)
  BY <1>1 DEF InPlace
<1>4. ChunkInPlace(side) /\ Counted(side)
  BY <1>1, <1>2 DEF ChunkInPlace, Counted
<1> QED BY <1>3, <1>4

\* A step that moves nothing in the sockets.
LEMMA FlowQuiet ==
  ASSUME TypeOK, FlowInv,
         UNCHANGED <<sent, inbox, outbox, received>>,
         \A side \in Sides : open'[side] => open[side],
         pc' # "ended" => pc # "ended",
         pc' \in {"decoded", "write"} =>
            pc \in {"decoded", "write"} /\ UNCHANGED <<reader, data, length>>,
         pc' = "decoded" => pc = "decoded" /\ UNCHANGED offset,
         \A side \in Sides :
            /\ InHand(side)' \in Nat /\ InHand(side)' <= InHand(side)
            /\ open'[Other(side)] /\ pc' # "ended" => InHand(side)' = InHand(side)
  PROVE  FlowInv'
<1> SUFFICES ASSUME NEW side \in Sides
             PROVE  InPlace(side)' /\ ChunkInPlace(side)' /\ Counted(side)'
  BY DEF FlowInv
<1>1. InPlace(side) /\ ChunkInPlace(side) /\ Counted(side)
  BY DEF FlowInv
<1>2. Taken(side)' = Taken(side) /\ Passed(side)' = Passed(side)
  BY DEF Taken, Passed
<1>3. InPlace(side)'
  BY <1>1, <1>2 DEF InPlace
<1>4. ChunkInPlace(side)'
  BY <1>1, <1>2 DEF ChunkInPlace
<1>5. Counted(side)'
  BY <1>1, <1>2, Numbers, OtherSide DEF Counted
<1> QED BY <1>3, <1>4, <1>5

\* A peer that sends keeps the queues in place.
LEMMA FlowSend ==
  ASSUME TypeOK, FlowInv, NEW side \in Sides, Send(side)
  PROVE  FlowInv'
<1> SUFFICES ASSUME NEW s \in Sides
             PROVE  InPlace(s)' /\ ChunkInPlace(s)' /\ Counted(s)'
  BY DEF FlowInv
<1>1. InPlace(s) /\ ChunkInPlace(s) /\ Counted(s)
  BY DEF FlowInv
<1>2. /\ UNCHANGED <<outbox, received, open, pc, reader, data, length, offset>>
      /\ Passed(s)' = Passed(s) /\ InHand(s)' = InHand(s)
  BY DEF Send, loopVars, chunkVars, Passed, InHand
<1>3. CASE s = side
  <2>1. PICK piece : piece = Traffic[s][sent[s] + 1]
    OBVIOUS
  <2>2. sent'[s] = sent[s] + 1 /\ inbox'[s] = Append(inbox[s], piece)
    BY <1>3, <2>1 DEF Send, TypeOK
  <2>3. inbox[s] \in Seq(Piece) /\ sent[s] \in Nat
    BY DEF TypeOK
  <2>4. piece \in Piece
    BY <1>3, <2>1, <2>3, PiecesHold, PiecesArePieces DEF Send, Due, TypeOK
  <2>5. /\ Len(inbox'[s]) = Len(inbox[s]) + 1 /\ inbox'[s][Len(inbox[s]) + 1] = piece
        /\ \A i \in 1 .. Len(inbox[s]) : inbox'[s][i] = inbox[s][i]
    BY <2>2, <2>3, <2>4
  <2>6. Taken(s)' = Taken(s) /\ Taken(s) + (Len(inbox[s]) + 1) = sent[s] + 1
    BY <2>2, <2>3, <2>5 DEF Taken
  <2>7. ASSUME NEW i \in 1 .. Len(inbox'[s])
        PROVE  inbox'[s][i] = Traffic[s][Taken(s) + i]
    <3>1. CASE i = Len(inbox[s]) + 1
      BY <2>1, <2>5, <2>6, <3>1
    <3>2. CASE i \in 1 .. Len(inbox[s])
      BY <1>1, <2>5, <3>2 DEF InPlace
    <3> QED BY <2>3, <2>5, <3>1, <3>2
  <2> QED BY <1>1, <1>2, <2>6, <2>7 DEF InPlace, ChunkInPlace, Counted
<1>4. CASE s # side
  <2>1. sent'[s] = sent[s] /\ inbox'[s] = inbox[s]
    BY <1>4 DEF Send, TypeOK
  <2>2. Taken(s)' = Taken(s)
    BY <2>1 DEF Taken
  <2> QED BY <1>1, <1>2, <2>1, <2>2 DEF InPlace, ChunkInPlace, Counted
<1> QED BY <1>3, <1>4

\* A peer that receives keeps the queues in place.
LEMMA FlowReceive ==
  ASSUME TypeOK, FlowInv, NEW side \in Sides, Receive(side)
  PROVE  FlowInv'
<1> SUFFICES ASSUME NEW s \in Sides
             PROVE  InPlace(s)' /\ ChunkInPlace(s)' /\ Counted(s)'
  BY DEF FlowInv
<1>1. InPlace(s) /\ ChunkInPlace(s) /\ Counted(s)
  BY DEF FlowInv
<1>2. /\ UNCHANGED <<sent, inbox, open, pc, reader, data, length, offset>>
      /\ Taken(s)' = Taken(s) /\ InHand(s)' = InHand(s)
  BY DEF Receive, loopVars, chunkVars, Taken, InHand
<1>3. PICK to : to = Other(s)
  OBVIOUS
<1>4. to \in Sides /\ received[to] \in Seq(Piece) /\ outbox[to] \in Seq(Piece)
  BY <1>3, OtherSide DEF TypeOK
<1>5. CASE to = side
  <2>1. /\ outbox[to] # <<>>
        /\ received'[to] = Append(received[to], Head(outbox[to]))
        /\ outbox'[to] = Tail(outbox[to])
    BY <1>4, <1>5 DEF Receive, TypeOK
  <2>2. /\ Len(outbox[to]) > 0 /\ Len(outbox'[to]) = Len(outbox[to]) - 1
        /\ \A i \in 1 .. Len(outbox[to]) - 1 : outbox'[to][i] = outbox[to][i + 1]
    BY <1>4, <2>1
  <2>3. /\ Len(received'[to]) = Len(received[to]) + 1
        /\ received'[to][Len(received[to]) + 1] = outbox[to][1]
        /\ \A i \in 1 .. Len(received[to]) : received'[to][i] = received[to][i]
    BY <1>4, <2>1, <2>2
  <2>4. Passed(s)' = Passed(s) /\ \A i \in Int :
           Len(received[to]) + (i + 1) = Len(received'[to]) + i
    <3>1. PICK r, b : r = Len(received[to]) /\ b = Len(outbox[to])
      OBVIOUS
    <3>2. r \in Nat /\ b \in Nat
      BY <1>4, <3>1
    <3>3. Len(received'[to]) = r + 1 /\ Len(outbox'[to]) = b - 1
      BY <2>2, <2>3, <3>1
    <3>4. Passed(s) = r + b /\ Passed(s)' = (r + 1) + (b - 1)
      BY <1>3, <3>1, <3>3, Zenon DEF Passed
    <3>5. r + b = (r + 1) + (b - 1) /\ \A i \in Int : r + (i + 1) = (r + 1) + i
      BY <3>2
    <3> QED BY <3>1, <3>3, <3>4, <3>5, Zenon
  <2>5. ASSUME NEW i \in 1 .. Len(received'[to])
        PROVE  received'[to][i] = Traffic[s][i]
    <3>1. CASE i = Len(received[to]) + 1
      BY <1>1, <1>3, <1>4, <2>2, <2>3, <3>1 DEF InPlace
    <3>2. CASE i \in 1 .. Len(received[to])
      BY <1>1, <1>3, <2>3, <3>2 DEF InPlace
    <3> QED BY <1>4, <2>3, <3>1, <3>2
  <2>6. ASSUME NEW i \in 1 .. Len(outbox'[to])
        PROVE  outbox'[to][i] = Traffic[s][Len(received'[to]) + i]
    <3>1. i + 1 \in 1 .. Len(outbox[to]) /\ i \in 1 .. Len(outbox[to]) - 1
      BY <1>4, <2>2
    <3>2. outbox[to][i + 1] = Traffic[s][Len(received[to]) + (i + 1)]
      BY <1>1, <1>3, <3>1 DEF InPlace
    <3>3. Len(received[to]) + (i + 1) = Len(received'[to]) + i
      <4>1. i \in Int
        OBVIOUS
      <4> QED BY <2>4, <4>1, Zenon
    <3> QED BY <2>2, <3>1, <3>2, <3>3
  <2>7. InPlace(s)'
    BY <1>1, <1>2, <1>3, <2>5, <2>6 DEF InPlace
  <2> QED BY <1>1, <1>2, <2>4, <2>7 DEF ChunkInPlace, Counted
<1>6. CASE to # side
  <2>1. received'[to] = received[to] /\ outbox'[to] = outbox[to]
    BY <1>4, <1>6 DEF Receive, TypeOK
  <2>2. Passed(s)' = Passed(s)
    BY <1>3, <2>1 DEF Passed
  <2> QED BY <1>1, <1>2, <1>3, <2>1, <2>2 DEF InPlace, ChunkInPlace, Counted
<1> QED BY <1>5, <1>6

\* read() keeps the queues in place: what it takes is in the buffer.
LEMMA FlowRead ==
  ASSUME TypeOK, FlowInv, NEW side \in Sides, Read(side)
  PROVE  FlowInv'
<1> SUFFICES ASSUME NEW s \in Sides
             PROVE  InPlace(s)' /\ ChunkInPlace(s)' /\ Counted(s)'
  BY DEF FlowInv
<1>1. InPlace(s) /\ ChunkInPlace(s) /\ Counted(s)
  BY DEF FlowInv
<1>2. /\ UNCHANGED <<sent, outbox, received, open>> /\ Passed(s)' = Passed(s)
      /\ pc = "callback" /\ pc' = "decoded" /\ reader' = side /\ offset' = 0
      /\ InHand(s) = 0
  BY DEF Read, Passed, InHand
<1>3. CASE s = side
  <2>1. PICK t, n, k : t = Taken(s) /\ n = length' /\ k = Len(inbox[s])
    OBVIOUS
  <2>2. /\ n \in Nat /\ n > 0 /\ n <= k
        /\ \A i \in 1 .. n : data'[i] = inbox[s][i]
        /\ Len(inbox'[s]) = k - n
        /\ \A i \in 1 .. k - n : inbox'[s][i] = inbox[s][n + i]
    BY <1>3, <2>1, ReadChunk, RelayAssumption
  <2>3. k \in Nat /\ t \in Nat /\ sent[s] \in Nat /\ t = sent[s] - k
    BY <1>1, <1>2, <2>1, Numbers DEF Counted, Taken
  <2>4. Taken(s)' = t + n
    <3>1. Taken(s)' = sent[s] - (k - n)
      BY <1>2, <2>2 DEF Taken
    <3> QED BY <2>2, <2>3, <3>1
  <2>5. InHand(s)' = n
    <3>1. InHand(s)' = n - 0
      BY <1>2, <1>3, <2>1, Zenon DEF InHand
    <3>2. n - 0 = n
      BY <2>2
    <3> QED BY <3>1, <3>2, Zenon
  <2>6. \A i \in 1 .. k : inbox[s][i] = Traffic[s][t + i]
    BY <1>1, <2>1 DEF InPlace
  <2>7. ASSUME NEW i \in 1 .. k - n PROVE inbox'[s][i] = Traffic[s][t + n + i]
    <3>1. n + i \in 1 .. k /\ t + (n + i) = t + n + i
      BY <2>2, <2>3
    <3> QED BY <2>2, <2>6, <3>1
  <2>8. ASSUME NEW i \in 1 .. n PROVE data'[i] = Traffic[s][t + n - n + i]
    <3>1. i \in 1 .. k /\ t + n - n + i = t + i
      BY <2>2, <2>3
    <3> QED BY <2>2, <2>6, <3>1
  <2>9. InPlace(s)'
    BY <1>1, <1>2, <2>2, <2>4, <2>7 DEF InPlace
  <2>10. ChunkInPlace(s)'
    <3>1. t + n \in Nat /\ n <= t + n
      BY <2>2, <2>3
    <3>2. PICK v, l, d : v = Taken(s)' /\ l = length' /\ d = data'
      OBVIOUS
    <3>3. v = t + n /\ l = n
      BY <2>1, <2>4, <3>2, Zenon
    <3>4. l > 0 /\ l <= v
      BY <2>2, <3>1, <3>3, Zenon
    <3>5. \A i \in 1 .. l : d[i] = Traffic[s][v - l + i]
      <4> SUFFICES ASSUME NEW i \in 1 .. l PROVE d[i] = Traffic[s][v - l + i]
        OBVIOUS
      <4>1. i \in 1 .. n /\ v - l + i = t + n - n + i
        BY <2>2, <2>3, <3>3
      <4>2. d[i] = Traffic[s][t + n - n + i]
        BY <2>8, <3>2, <4>1, Zenon
      <4> QED BY <4>1, <4>2, Zenon
    <3>6. /\ length' > 0 /\ length' <= Taken(s)' /\ offset' = 0
          /\ \A i \in 1 .. length' : data'[i] = Traffic[s][Taken(s)' - length' + i]
      BY <1>2, <3>2, <3>4, <3>5, Zenon
    <3> QED BY <3>6, Zenon DEF ChunkInPlace
  <2>11. Counted(s)'
    <3>1. Passed(s) \in Nat
      BY Numbers
    <3> QED BY <1>1, <1>2, <2>1, <2>2, <2>3, <2>4, <2>5, <3>1 DEF Counted
  <2> QED BY <2>9, <2>10, <2>11
<1>4. CASE s # side
  <2>1. inbox'[s] = inbox[s]
    BY <1>4 DEF Read, TypeOK
  <2>2. Taken(s)' = Taken(s) /\ InHand(s)' = 0
    BY <1>2, <1>4, <2>1 DEF Taken, InHand
  <2>3. InPlace(s)'
    BY <1>1, <1>2, <2>1, <2>2 DEF InPlace
  <2>4. ChunkInPlace(s)'
    BY <1>2, <1>4 DEF ChunkInPlace
  <2>5. Counted(s)'
    BY <1>1, <1>2, <2>2 DEF Counted
  <2> QED BY <2>3, <2>4, <2>5
<1> QED BY <1>3, <1>4

\* write() keeps the queues in place: what it passes on was next.
LEMMA FlowWrite ==
  ASSUME TypeOK, FlowInv, Write
  PROVE  FlowInv'
<1> SUFFICES ASSUME NEW s \in Sides
             PROVE  InPlace(s)' /\ ChunkInPlace(s)' /\ Counted(s)'
  BY DEF FlowInv
<1>1. InPlace(s) /\ ChunkInPlace(s) /\ Counted(s)
  BY DEF FlowInv
<1>2. /\ UNCHANGED <<sent, inbox, received, open, pc, reader, data, length>>
      /\ Taken(s)' = Taken(s) /\ pc = "write" /\ offset' = offset + 1
  BY DEF Write, Taken, loopVars
<1>3. PICK to : to = Other(s)
  OBVIOUS
<1>4. to \in Sides /\ received[to] \in Seq(Piece) /\ outbox[to] \in Seq(Piece)
  BY <1>3, OtherSide DEF TypeOK
<1>5. CASE reader = s
  <2>1. PICK t, r, b, n, o : /\ t = Taken(s) /\ r = Len(received[to])
                             /\ b = Len(outbox[to]) /\ n = length /\ o = offset
    OBVIOUS
  <2>2. t \in Int /\ r \in Nat /\ b \in Nat /\ n \in Nat /\ o \in Nat
    BY <1>4, <2>1, Numbers
  <2>3. /\ o < n /\ open[to] /\ Len(msg) = n
        /\ outbox'[to] = Append(outbox[to], msg[o + 1])
    BY <1>3, <1>4, <1>5, <2>1, MsgIs DEF Write, TypeOK
  <2>4. r + b + (n - o) = t
    <3>1. Passed(s) = r + b
      BY <1>3, <2>1, Zenon DEF Passed
    <3>2. InHand(s) = n - o
      BY <1>2, <1>5, <2>1 DEF InHand
    <3> QED BY <1>1, <1>2, <1>3, <2>1, <2>3, <3>1, <3>2 DEF Counted
  <2>5. o + 1 \in 1 .. n /\ t - n + (o + 1) = r + (b + 1)
    BY <2>2, <2>3, <2>4
  <2>6. msg[o + 1] \in Piece /\ msg[o + 1] = Traffic[s][r + (b + 1)]
    <3>1. msg[o + 1] = data[o + 1] /\ data[o + 1] \in Piece
      BY <2>1, <2>5, MsgIs
    <3>2. data[o + 1] = Traffic[s][t - n + (o + 1)]
      BY <1>1, <1>2, <1>5, <2>1, <2>5 DEF ChunkInPlace
    <3> QED BY <2>5, <3>1, <3>2
  <2>7. /\ Len(outbox'[to]) = b + 1 /\ outbox'[to][b + 1] = msg[o + 1]
        /\ \A i \in 1 .. b : outbox'[to][i] = outbox[to][i]
    <3>1. msg[o + 1] \in Piece /\ outbox'[to] = Append(outbox[to], msg[o + 1])
      BY <2>3, <2>6
    <3> QED BY <1>4, <2>1, <3>1
  <2>8. ASSUME NEW i \in 1 .. b + 1 PROVE outbox'[to][i] = Traffic[s][r + i]
    <3>1. CASE i = b + 1
      BY <2>6, <2>7, <3>1
    <3>2. CASE i \in 1 .. b
      BY <1>1, <1>3, <2>1, <2>7, <3>2 DEF InPlace
    <3> QED BY <2>2, <3>1, <3>2
  <2>9. InPlace(s)'
    BY <1>1, <1>2, <1>3, <2>1, <2>7, <2>8 DEF InPlace
  <2>10. ChunkInPlace(s)'
    BY <1>1, <1>2 DEF ChunkInPlace
  <2>11. Counted(s)'
    <3>1. Passed(s)' = r + (b + 1)
      BY <1>2, <1>3, <2>1, <2>7, Zenon DEF Passed
    <3>2. InHand(s)' = n - (o + 1)
      BY <1>2, <1>5, <2>1 DEF InHand
    <3>3. r + (b + 1) + (n - (o + 1)) = t
      BY <2>2, <2>4
    <3>4. Passed(s)' + InHand(s)' = Taken(s)'
      BY <1>2, <2>1, <3>1, <3>2, <3>3, Zenon
    <3>5. t <= t /\ Taken(s)' = t
      BY <1>2, <2>1, <2>2
    <3> QED BY <3>4, <3>5, Zenon DEF Counted
  <2> QED BY <2>9, <2>10, <2>11
<1>6. CASE reader # s
  <2>1. outbox'[to] = outbox[to]
    BY <1>3, <1>4, <1>6, OtherSide DEF Write, TypeOK
  <2>2. Passed(s)' = Passed(s) /\ InHand(s)' = InHand(s)
    BY <1>2, <1>3, <1>6, <2>1 DEF Passed, InHand
  <2> QED BY <1>1, <1>2, <1>3, <2>1, <2>2 DEF InPlace, ChunkInPlace, Counted
<1> QED BY <1>5, <1>6

\* Every step keeps the queues in place.
LEMMA FlowNext == TypeOK /\ FlowInv /\ [Next]_vars => FlowInv'
<1> SUFFICES ASSUME TypeOK, FlowInv, [Next]_vars PROVE FlowInv'
  OBVIOUS
<1>n. \A side \in Sides : InHand(side) \in Nat
  BY Numbers
<1>0. /\ length \in Nat /\ offset \in Nat /\ offset <= length /\ length - length = 0
      /\ Len(msg) = length
  BY RelayAssumption, MsgIs DEF TypeOK
<1>1. CASE UNCHANGED vars
  <2>1. \A side \in Sides : InHand(side)' = InHand(side)
    BY <1>1 DEF vars, loopVars, chunkVars, InHand
  <2> QED BY <1>1, <1>n, <2>1, FlowQuiet DEF vars, peerVars, loopVars, chunkVars
<1>2. CASE Poll \/ EndIteration \/ \E side \in Sides : EndOfFile(side)
  <2>1. /\ UNCHANGED <<sent, inbox, outbox, received, open>>
        /\ (pc = "callback" \/ pc = "poll") /\ pc' \in {"poll", "callback", "ended"}
    BY <1>2 DEF Poll, EndIteration, EndOfFile, peerVars
  <2>2. pc # "ended" /\ pc' \notin {"decoded", "write"} /\ pc \notin {"decoded", "write"}
    BY <1>2 DEF Poll, EndIteration, EndOfFile
  <2>3. \A side \in Sides : InHand(side)' = 0 /\ InHand(side) = 0
    BY <2>2 DEF InHand
  <2> QED BY <2>1, <2>2, <2>3, FlowQuiet
<1>3. CASE DecoderExits \/ SaveFails \/ WriteKills
  <2>1. UNCHANGED <<sent, inbox, outbox, received, open>> /\ pc' = "ended"
    BY <1>3 DEF DecoderExits, SaveFails, WriteKills, peerVars
  <2>2. \A side \in Sides : InHand(side)' = 0
    BY <2>1 DEF InHand
  <2> QED BY <1>n, <2>1, <2>2, FlowQuiet
<1>4. CASE Save
  <2>1. /\ UNCHANGED <<sent, inbox, outbox, received, open, reader, data, length, offset>>
        /\ pc = "decoded" /\ pc' = "write"
    BY <1>4 DEF Save, peerVars, chunkVars
  <2>2. \A side \in Sides : InHand(side)' = InHand(side)
    BY <2>1 DEF InHand
  <2> QED BY <1>n, <2>1, <2>2, FlowQuiet
<1>5. CASE Relayed
  <2>1. /\ UNCHANGED <<sent, inbox, outbox, received, open>>
        /\ pc = "write" /\ pc' = "callback" /\ offset = length
    BY <1>0, <1>5 DEF Relayed, peerVars
  <2>2. \A side \in Sides : InHand(side)' = 0 /\ InHand(side) = 0
    BY <1>0, <2>1 DEF InHand
  <2> QED BY <2>1, <2>2, FlowQuiet
<1>6. CASE WriteIntoVoid
  <2>1. /\ UNCHANGED <<sent, inbox, outbox, received, open, pc, reader, data, length>>
        /\ pc = "write" /\ ~open[Other(reader)] /\ offset' = length
    BY <1>0, <1>6 DEF WriteIntoVoid, peerVars, loopVars
  <2>2. \A side \in Sides : /\ InHand(side)' = 0
                            /\ open[Other(side)] => InHand(side) = 0
    BY <1>0, <2>1 DEF InHand
  <2> QED BY <1>n, <2>1, <2>2, FlowQuiet
<1>7. CASE WriteFails
  <2>1. /\ UNCHANGED <<sent, inbox, outbox, received, open>>
        /\ pc = "write" /\ ~open[Other(reader)] /\ pc' = "callback"
    BY <1>7 DEF WriteFails, peerVars
  <2>2. \A side \in Sides : /\ InHand(side)' = 0
                            /\ open[Other(side)] => InHand(side) = 0
    BY <2>1 DEF InHand
  <2> QED BY <1>n, <2>1, <2>2, FlowQuiet
<1>8. ASSUME NEW side \in Sides, Close(side) PROVE FlowInv'
  <2>1. UNCHANGED <<sent, inbox, outbox, received, pc, reader, data, length, offset>>
    BY <1>8 DEF Close, loopVars, chunkVars
  <2>2. \A s \in Sides : open'[s] => open[s]
    BY <1>8 DEF Close, TypeOK
  <2>3. \A s \in Sides : InHand(s)' = InHand(s)
    BY <2>1 DEF InHand
  <2> QED BY <1>n, <2>1, <2>2, <2>3, FlowQuiet
<1> QED BY <1>1, <1>2, <1>3, <1>4, <1>5, <1>6, <1>7, <1>8, FlowRead, FlowWrite, FlowSend,
           FlowReceive DEF Next, Step

\* The queues are in place in every state.
LEMMA FlowCorrect == Spec => [](TypeOK /\ FlowInv)
  BY TypeInit, TypeNext, FlowInit, FlowNext, PTL DEF Spec

\* What the steps that move a piece do to the counts.
LEMMA SendCounts ==
  ASSUME TypeOK, NEW side \in Sides, Send(side), NEW s \in Sides
  PROVE  Taken(s)' = Taken(s) /\ Passed(s)' = Passed(s)
<1>1. Passed(s)' = Passed(s)
  BY DEF Send, Passed
<1>2. CASE s = side
  <2>1. PICK k, n, piece : /\ k = Len(inbox[s]) /\ n = sent[s]
                           /\ piece = Traffic[s][sent[s] + 1]
    OBVIOUS
  <2>2. /\ inbox[s] \in Seq(Piece) /\ sent'[s] = sent[s] + 1
        /\ inbox'[s] = Append(inbox[s], piece)
    BY <1>2, <2>1 DEF Send, TypeOK
  <2>0. k \in Nat /\ n \in Nat /\ n + 1 \in 1 .. Len(Traffic[s])
    <3>1. k \in Nat /\ n \in Nat
      BY <2>1, Numbers, Zenon
    <3>2. n < Len(Traffic[s])
      BY <1>2, <2>1, Zenon DEF Send, Due
    <3>3. Len(Traffic[s]) \in Nat
      <4>1. Traffic[s] \in Seq(Piece)
        BY RelayAssumption
      <4> QED BY <4>1
    <3> QED BY <3>1, <3>2, <3>3
  <2>3. piece \in Piece /\ k \in Nat /\ n \in Nat
    BY <2>1, <2>0, PiecesHold, PiecesArePieces
  <2>4. Len(inbox'[s]) = k + 1
    BY <2>1, <2>2, <2>3
  <2>5. Taken(s) = n - k /\ Taken(s)' = (n + 1) - (k + 1)
    BY <2>1, <2>2, <2>4, Zenon DEF Taken
  <2> QED BY <1>1, <2>3, <2>5
<1>3. CASE s # side
  <2>1. sent'[s] = sent[s] /\ inbox'[s] = inbox[s]
    BY <1>3 DEF Send, TypeOK
  <2> QED BY <1>1, <2>1 DEF Taken
<1> QED BY <1>2, <1>3

\* A peer that receives changes neither what was taken nor what was passed on.
LEMMA ReceiveCounts ==
  ASSUME TypeOK, NEW side \in Sides, Receive(side), NEW s \in Sides
  PROVE  Taken(s)' = Taken(s) /\ Passed(s)' = Passed(s)
<1>1. Taken(s)' = Taken(s)
  BY DEF Receive, Taken
<1>2. PICK to : to = Other(s)
  OBVIOUS
<1>3. to \in Sides /\ received[to] \in Seq(Piece) /\ outbox[to] \in Seq(Piece)
  BY <1>2, OtherSide DEF TypeOK
<1>4. CASE to = side
  <2>1. PICK r, b : r = Len(received[to]) /\ b = Len(outbox[to])
    OBVIOUS
  <2>2. /\ outbox[to] # <<>>
        /\ received'[to] = Append(received[to], Head(outbox[to]))
        /\ outbox'[to] = Tail(outbox[to])
    BY <1>3, <1>4 DEF Receive, TypeOK
  <2>3. r \in Nat /\ b \in Nat /\ Len(received'[to]) = r + 1 /\ Len(outbox'[to]) = b - 1
    BY <1>3, <2>1, <2>2
  <2>4. Passed(s) = r + b /\ Passed(s)' = (r + 1) + (b - 1)
    BY <1>2, <2>1, <2>3, Zenon DEF Passed
  <2> QED BY <1>1, <2>3, <2>4
<1>5. CASE to # side
  <2>1. received'[to] = received[to] /\ outbox'[to] = outbox[to]
    BY <1>3, <1>5 DEF Receive, TypeOK
  <2> QED BY <1>1, <1>2, <2>1 DEF Passed
<1> QED BY <1>4, <1>5

\* read() counts as taken what it has read, of its own side only.
LEMMA ReadCounts ==
  ASSUME TypeOK, NEW side \in Sides, Read(side), NEW s \in Sides
  PROVE  /\ Passed(s)' = Passed(s)
         /\ s = side => Taken(s)' = Taken(s) + length'
         /\ s # side => Taken(s)' = Taken(s)
<1>1. Passed(s)' = Passed(s) /\ sent'[s] = sent[s]
  BY DEF Read, Passed
<1>2. CASE s = side
  <2>1. PICK k, n, l : k = Len(inbox[s]) /\ n = sent[s] /\ l = length'
    OBVIOUS
  <2>2. Len(inbox'[s]) = k - l /\ l \in Nat
    BY <1>2, <2>1, ReadChunk, RelayAssumption
  <2>3. k \in Nat /\ n \in Nat
    BY <2>1, Numbers
  <2>4. Taken(s) = n - k /\ Taken(s)' = n - (k - l)
    BY <1>1, <2>1, <2>2, Zenon DEF Taken
  <2>5. n - (k - l) = (n - k) + l
    BY <2>2, <2>3
  <2> QED BY <1>1, <1>2, <2>1, <2>4, <2>5, Zenon
<1>3. CASE s # side
  <2>1. inbox'[s] = inbox[s]
    BY <1>3 DEF Read, TypeOK
  <2> QED BY <1>1, <1>3, <2>1 DEF Taken
<1> QED BY <1>2, <1>3

\* write() counts one more piece as passed on, of the reader only.
LEMMA WriteCounts ==
  ASSUME TypeOK, Write, NEW s \in Sides
  PROVE  /\ Taken(s)' = Taken(s)
         /\ s = reader => Passed(s)' = Passed(s) + 1
         /\ s # reader => Passed(s)' = Passed(s)
<1>1. Taken(s)' = Taken(s) /\ received' = received
  BY DEF Write, Taken
<1>2. PICK to : to = Other(s)
  OBVIOUS
<1>3. to \in Sides /\ received[to] \in Seq(Piece) /\ outbox[to] \in Seq(Piece)
  BY <1>2, OtherSide DEF TypeOK
<1>4. CASE reader = s
  <2>1. PICK r, b, piece : /\ r = Len(received[to]) /\ b = Len(outbox[to])
                           /\ piece = msg[offset + 1]
    OBVIOUS
  <2>2. outbox'[to] = Append(outbox[to], piece)
    BY <1>2, <1>3, <1>4, <2>1 DEF Write, TypeOK
  <2>3. offset + 1 \in 1 .. length
    BY MsgIs, RelayAssumption DEF Write, TypeOK
  <2>4. piece \in Piece
    BY <2>1, <2>3, MsgIs
  <2>5. r \in Nat /\ b \in Nat /\ Len(outbox'[to]) = b + 1
    BY <1>3, <2>1, <2>2, <2>4
  <2>6. Passed(s) = r + b /\ Passed(s)' = r + (b + 1)
    BY <1>1, <1>2, <2>1, <2>5, Zenon DEF Passed
  <2>7. r + (b + 1) = (r + b) + 1
    BY <2>5
  <2> QED BY <1>1, <1>4, <2>6, <2>7, Zenon
<1>5. CASE reader # s
  <2>1. outbox'[to] = outbox[to]
    BY <1>2, <1>3, <1>5, OtherSide DEF Write, TypeOK
  <2> QED BY <1>1, <1>2, <1>5, <2>1 DEF Passed
<1> QED BY <1>4, <1>5

-----------------------------------------------------------------------------
(* The traffic files. *)

\* Nothing is saved and nothing passed on when the relay begins.
LEMMA SavedInit == Init => SavedInv
<1> SUFFICES ASSUME Init, NEW side \in Sides PROVE SavedSoFar(side)
  BY DEF SavedInv
<1>1. /\ received[Other(side)] = <<>> /\ outbox[Other(side)] = <<>> /\ inbox[side] = <<>>
      /\ saved[side] = <<>> /\ sent[side] = 0 /\ pc = "poll"
  BY OtherSide DEF Init
<1>2. /\ Len(received[Other(side)]) = 0 /\ Len(outbox[Other(side)]) = 0
      /\ Len(inbox[side]) = 0 /\ Len(saved[side]) = 0
  BY <1>1
<1>3. Taken(side) = 0 - 0 /\ Passed(side) = 0 + 0 /\ Fresh(side) = 0
  BY <1>1, <1>2, Zenon DEF Taken, Passed, Fresh
<1> QED BY <1>1, <1>2, <1>3 DEF SavedSoFar

\* A step that leaves the files and the counts alone.
LEMMA SavedQuiet ==
  ASSUME TypeOK, NEW side \in Sides, SavedSoFar(side), UNCHANGED saved,
         Taken(side)' = Taken(side), Passed(side)' = Passed(side),
         pc' # "ended" => pc # "ended",
         Fresh(side)' = Fresh(side) \/ (Fresh(side)' = 0 /\ pc' = "ended")
  PROVE  SavedSoFar(side)'
<1>1. Len(saved[side]) \in Nat /\ Fresh(side) \in Nat /\ Taken(side) \in Int
  BY Numbers
<1> QED BY <1>1 DEF SavedSoFar

\* read() leaves the traffic file as it is, and right.
LEMMA SavedRead ==
  ASSUME TypeOK, NEW side \in Sides, Read(side), NEW s \in Sides, SavedSoFar(s)
  PROVE  SavedSoFar(s)'
<1>1. /\ UNCHANGED saved /\ pc = "callback" /\ pc' = "decoded" /\ reader' = side
      /\ Passed(s)' = Passed(s) /\ Fresh(s) = 0
  BY ReadCounts DEF Read, Fresh
<1>2. CASE s = side
  <2>1. PICK t, n, f : t = Taken(s) /\ n = length' /\ f = Len(saved[s])
    OBVIOUS
  <2>2. t \in Int /\ n \in Nat /\ f \in Nat
    BY <1>2, <2>1, Numbers, ReadChunk, RelayAssumption
  <2>3. Taken(s)' = t + n /\ Fresh(s)' = n
    BY <1>1, <1>2, <2>1, ReadCounts DEF Fresh
  <2>4. f + 0 = t
    BY <1>1, <2>1 DEF SavedSoFar
  <2>5. f + n = t + n /\ t + n <= t + n
    BY <2>2, <2>4
  <2> QED BY <1>1, <2>1, <2>3, <2>5 DEF SavedSoFar
<1>3. CASE s # side
  <2>1. Taken(s)' = Taken(s) /\ Fresh(s)' = 0
    BY <1>1, <1>3, ReadCounts DEF Fresh
  <2> QED BY <1>1, <2>1, SavedQuiet
<1> QED BY <1>2, <1>3

\* Save adds to the traffic file the dump of what was read, and nothing else.
LEMMA SavedSave ==
  ASSUME TypeOK, FlowInv, SaveTraffic, Save, NEW s \in Sides, SavedSoFar(s)
  PROVE  SavedSoFar(s)'
<1>1. /\ pc = "decoded" /\ pc' = "write" /\ UNCHANGED <<reader, data, length>>
      /\ Passed(s)' = Passed(s) /\ Taken(s)' = Taken(s) /\ Fresh(s)' = 0
  BY DEF Save, peerVars, chunkVars, Passed, Taken, Fresh
<1>2. CASE s = reader
  <2>1. PICK t, n, f, chunk : /\ t = Taken(s) /\ n = length /\ f = Len(saved[s])
                              /\ chunk = Dump(msg)
    OBVIOUS
  <2>2. t \in Int /\ n \in Nat /\ f \in Nat
    BY <2>1, Numbers
  <2>3. /\ chunk \in Seq(Digits) /\ Len(chunk) = n
        /\ \A i \in 1 .. n : chunk[i] = Printed(data[i].byte)
    <3>1. /\ msg \in Seq(Piece) /\ Len(msg) = n
          /\ \A i \in 1 .. n : msg[i] = data[i]
      BY <2>1, MsgIs
    <3>2. /\ Dump(msg) \in Seq(Digits) /\ Len(Dump(msg)) = Len(msg)
          /\ \A i \in 1 .. Len(msg) : Dump(msg)[i] = Printed(msg[i].byte)
      BY <3>1, DumpIs
    <3> QED BY <2>1, <3>1, <3>2
  <2>4. f + n = t /\ \A i \in 1 .. f : saved[s][i] = Printed(Traffic[s][i].byte)
    BY <1>1, <1>2, <2>1 DEF SavedSoFar, Fresh
  <2>5. saved'[s] = saved[s] \o chunk /\ saved[s] \in Seq(Digits)
    BY <1>2, <2>1 DEF Save, TypeOK
  <2>6. Len(saved'[s]) = f + n
    BY <2>1, <2>3, <2>5
  <2>7. ASSUME NEW i \in 1 .. f + n PROVE saved'[s][i] = Printed(Traffic[s][i].byte)
    <3>1. saved'[s][i] = IF i <= f THEN saved[s][i] ELSE chunk[i - f]
      BY <2>1, <2>2, <2>3, <2>5
    <3>2. CASE i <= f
      <4>1. i \in 1 .. f
        BY <2>2, <3>2
      <4> QED BY <2>4, <3>1, <3>2, <4>1
    <3>3. CASE ~(i <= f)
      <4>1. i - f \in 1 .. n /\ t - n + (i - f) = i
        BY <2>2, <2>4, <3>3
      <4>2. data[i - f] = Traffic[s][t - n + (i - f)]
        BY <1>1, <1>2, <2>1, <4>1 DEF FlowInv, ChunkInPlace
      <4> QED BY <2>3, <3>1, <3>3, <4>1, <4>2
    <3> QED BY <3>2, <3>3
  <2>8. Passed(s) <= f /\ Passed(s) \in Nat
    BY <2>1, Numbers DEF SavedSoFar
  <2>9. Passed(s) <= f + n /\ f + n + 0 <= t /\ f + n + 0 = t
    BY <2>2, <2>4, <2>8
  <2> QED BY <1>1, <2>1, <2>6, <2>7, <2>9 DEF SavedSoFar
<1>3. CASE s # reader
  <2>1. saved'[s] = saved[s]
    BY <1>3 DEF Save, TypeOK
  <2>2. Fresh(s) = 0
    BY <1>3 DEF Fresh
  <2> QED BY <1>1, <2>1, <2>2 DEF SavedSoFar
<1> QED BY <1>2, <1>3

\* write() passes on what the traffic file has.
LEMMA SavedWrite ==
  ASSUME TypeOK, FlowInv, Write, NEW s \in Sides, SavedSoFar(s)
  PROVE  SavedSoFar(s)'
<1>1. /\ pc = "write" /\ UNCHANGED <<pc, reader, saved, length>> /\ Fresh(s) = 0
      /\ Fresh(s)' = 0 /\ Taken(s)' = Taken(s)
  BY WriteCounts DEF Write, loopVars, Fresh
<1>2. CASE s = reader
  <2>1. PICK t, n, o, f, p : /\ t = Taken(s) /\ n = length /\ o = offset
                             /\ f = Len(saved[s]) /\ p = Passed(s)
    OBVIOUS
  <2>2. t \in Int /\ n \in Nat /\ o \in Nat /\ f \in Nat /\ p \in Nat
    BY <2>1, Numbers
  <2>3. o < n /\ InHand(s) = n - o /\ f + 0 = t
    BY <1>1, <1>2, <2>1, MsgIs DEF Write, InHand, SavedSoFar
  <2>4. p + (n - o) <= t
    BY <2>1, <2>3 DEF FlowInv, Counted
  <2>5. p + 1 <= f
    BY <2>2, <2>3, <2>4
  <2> QED BY <1>1, <1>2, <2>1, <2>5, WriteCounts DEF SavedSoFar
<1>3. CASE s # reader
  BY <1>1, <1>3, WriteCounts, SavedQuiet
<1> QED BY <1>2, <1>3

\* Every step keeps the traffic files right.
LEMMA SavedNext == TypeOK /\ FlowInv /\ SavedInv /\ [Next]_vars => SavedInv'
<1> SUFFICES ASSUME TypeOK, FlowInv, SavedInv, [Next]_vars, SaveTraffic,
                    NEW s \in Sides
             PROVE  SavedSoFar(s)'
  BY DEF SavedInv
<1>0. SavedSoFar(s)
  BY DEF SavedInv
<1>1. CASE UNCHANGED vars
  BY <1>0, <1>1, SavedQuiet DEF vars, peerVars, loopVars, chunkVars, Taken, Passed, Fresh
<1>2. CASE Poll \/ EndIteration \/ Relayed \/ WriteIntoVoid \/ WriteFails \/ WriteKills
           \/ DecoderExits \/ SaveFails \/ \E side \in Sides : EndOfFile(side)
  <2>1. /\ UNCHANGED <<sent, inbox, outbox, received, saved>> /\ pc # "ended"
        /\ pc' # "decoded" /\ (pc = "decoded" => pc' = "ended")
    BY <1>2 DEF Poll, EndIteration, Relayed, WriteIntoVoid, WriteFails, WriteKills,
                DecoderExits, SaveFails, EndOfFile, peerVars, loopVars
  <2>2. Taken(s)' = Taken(s) /\ Passed(s)' = Passed(s)
    BY <2>1 DEF Taken, Passed
  <2>3. Fresh(s)' = 0 /\ (Fresh(s) = 0 \/ pc' = "ended")
    BY <2>1 DEF Fresh
  <2> QED BY <1>0, <2>1, <2>2, <2>3, SavedQuiet
<1>3. ASSUME NEW side \in Sides, Close(side) PROVE SavedSoFar(s)'
  <2>1. UNCHANGED <<sent, inbox, outbox, received, saved, pc, reader, length>>
    BY <1>3 DEF Close, loopVars, chunkVars
  <2>2. Taken(s)' = Taken(s) /\ Passed(s)' = Passed(s) /\ Fresh(s)' = Fresh(s)
    BY <2>1 DEF Taken, Passed, Fresh
  <2> QED BY <1>0, <2>1, <2>2, SavedQuiet
<1>4. ASSUME NEW side \in Sides, Send(side) \/ Receive(side) PROVE SavedSoFar(s)'
  <2>1. UNCHANGED <<saved, pc, reader, length>>
    BY <1>4 DEF Send, Receive, loopVars, chunkVars
  <2>2. Taken(s)' = Taken(s) /\ Passed(s)' = Passed(s)
    BY <1>4, SendCounts, ReceiveCounts
  <2>3. Fresh(s)' = Fresh(s)
    BY <2>1 DEF Fresh
  <2> QED BY <1>0, <2>1, <2>2, <2>3, SavedQuiet
<1> QED BY <1>0, <1>1, <1>2, <1>3, <1>4, SavedRead, SavedSave, SavedWrite DEF Next, Step

\* The traffic files are right in every state.
LEMMA SavedCorrect == Spec => [](TypeOK /\ FlowInv /\ SavedInv)
  BY TypeInit, TypeNext, FlowInit, FlowNext, SavedInit, SavedNext, PTL DEF Spec

\* A sequence that agrees with a longer one on its elements is a prefix of it.
LEMMA PrefixByElements ==
  ASSUME NEW S, NEW s \in Seq(S), NEW t \in Seq(S), Len(s) <= Len(t),
         \A i \in 1 .. Len(s) : s[i] = t[i]
  PROVE  IsPrefix(s, t)
<1>1. SubSeq(s, 1, Len(s)) \in Seq(S) /\ Len(SubSeq(s, 1, Len(s))) = Len(s)
  OBVIOUS
<1>2. SubSeq(t, 1, Len(s)) \in Seq(S) /\ Len(SubSeq(t, 1, Len(s))) = Len(s)
  OBVIOUS
<1>3. ASSUME NEW i \in 1 .. Len(s) PROVE SubSeq(s, 1, Len(s))[i] = SubSeq(t, 1, Len(s))[i]
  OBVIOUS
<1>4. SubSeq(s, 1, Len(s)) = SubSeq(t, 1, Len(s))
  <2>1. PICK a, b : a = SubSeq(s, 1, Len(s)) /\ b = SubSeq(t, 1, Len(s))
    OBVIOUS
  <2>2. /\ a \in Seq(S) /\ b \in Seq(S) /\ Len(a) = Len(b)
        /\ \A i \in 1 .. Len(a) : a[i] = b[i]
    BY <1>1, <1>2, <1>3, <2>1
  <2>3. a = b
    BY <2>2, SeqEqual, Zenon
  <2> QED BY <2>1, <2>3
<1> QED BY <1>4 DEF IsPrefix

\* What has got to the socket of the other side, as a sequence.
Through(side) == received[Other(side)] \o outbox[Other(side)]

\* What went through the relay is the beginning of the traffic of its side.
LEMMA ThroughInPlace ==
  ASSUME TypeOK, FlowInv, NEW side \in Sides
  PROVE  /\ Through(side) \in Seq(Piece) /\ Len(Through(side)) = Passed(side)
         /\ \A i \in 1 .. Passed(side) : Through(side)[i] = Traffic[side][i]
<1>1. PICK r, b : r = received[Other(side)] /\ b = outbox[Other(side)]
  OBVIOUS
<1>2. r \in Seq(Piece) /\ b \in Seq(Piece)
  BY <1>1, OtherSide DEF TypeOK
<1>3. r \o b \in Seq(Piece) /\ Len(r \o b) = Len(r) + Len(b)
  BY <1>2
<1>4. Through(side) = r \o b /\ Passed(side) = Len(r) + Len(b)
  BY <1>1, Zenon DEF Through, Passed
<1>5. ASSUME NEW i \in 1 .. Len(r) + Len(b) PROVE (r \o b)[i] = Traffic[side][i]
  <2>1. (r \o b)[i] = IF i <= Len(r) THEN r[i] ELSE b[i - Len(r)]
    BY <1>2
  <2>2. CASE i <= Len(r)
    BY <1>1, <1>2, <2>1, <2>2 DEF FlowInv, InPlace
  <2>3. CASE ~(i <= Len(r))
    <3>1. i - Len(r) \in 1 .. Len(b) /\ Len(r) + (i - Len(r)) = i
      BY <1>2, <2>3
    <3>2. b[i - Len(r)] = Traffic[side][Len(r) + (i - Len(r))]
      BY <1>1, <3>1 DEF FlowInv, InPlace
    <3> QED BY <2>1, <2>3, <3>1, <3>2
  <2> QED BY <2>2, <2>3
<1> QED BY <1>3, <1>4, <1>5

\* The type and the elements of what a side has sent.
LEMMA SentSoFar ==
  ASSUME TypeOK, NEW side \in Sides, NEW n \in Nat, n <= sent[side]
  PROVE  /\ SubSeq(Traffic[side], 1, n) \in Seq(Piece)
         /\ Len(SubSeq(Traffic[side], 1, n)) = n
         /\ \A i \in 1 .. n : SubSeq(Traffic[side], 1, n)[i] = Traffic[side][i]
<1>1. PICK t : t = Traffic[side]
  OBVIOUS
<1>2. t \in Seq(Piece) /\ n <= Len(t)
  BY <1>1, RelayAssumption DEF TypeOK
<1>3. SubSeq(t, 1, n) \in Seq(Piece) /\ Len(SubSeq(t, 1, n)) = n
  BY <1>2
<1>4. \A i \in 1 .. n : SubSeq(t, 1, n)[i] = t[i]
  BY <1>2
<1> QED BY <1>1, <1>3, <1>4

\* From the bookkeeping: what was sent on had been saved.
LEMMA SavedImplies == TypeOK /\ FlowInv /\ SavedInv => SavedBeforeSent
<1> SUFFICES ASSUME TypeOK, FlowInv, SavedInv, SaveTraffic, NEW side \in Sides
             PROVE  /\ IsPrefix(Dump(Through(side)), saved[side])
                    /\ IsPrefix(saved[side], Dump(SubSeq(Traffic[side], 1, sent[side])))
  BY Zenon DEF SavedBeforeSent, Through
<1>1. SavedSoFar(side)
  BY DEF SavedInv
<1>2. PICK a, f, t, n, p : /\ a = Dump(Through(side)) /\ f = saved[side] /\ n = sent[side]
                           /\ t = Dump(SubSeq(Traffic[side], 1, n)) /\ p = Passed(side)
  OBVIOUS
<1>3. n \in Nat /\ p \in Nat /\ Len(f) \in Nat /\ f \in Seq(Digits) /\ n <= n
  <2>1. n \in Nat /\ p \in Nat /\ Len(f) \in Nat
    BY <1>2, Numbers, Zenon
  <2>2. f \in Seq(Digits)
    <3>1. saved \in [Sides -> Seq(Digits)]
      BY DEF TypeOK
    <3> QED BY <1>2, <3>1
  <2> QED BY <2>1, <2>2
<1>4. /\ a \in Seq(Digits) /\ Len(a) = p
      /\ \A i \in 1 .. p : a[i] = Printed(Traffic[side][i].byte)
  <2>1. PICK r : r = Through(side)
    OBVIOUS
  <2>2. r \in Seq(Piece) /\ Len(r) = p /\ \A i \in 1 .. p : r[i] = Traffic[side][i]
    BY <1>2, <2>1, ThroughInPlace
  <2> QED BY <1>2, <2>1, <2>2, DumpIs
<1>5. /\ t \in Seq(Digits) /\ Len(t) = n
      /\ \A i \in 1 .. n : t[i] = Printed(Traffic[side][i].byte)
  <2>1. PICK r : r = SubSeq(Traffic[side], 1, n)
    OBVIOUS
  <2>2. r \in Seq(Piece) /\ Len(r) = n /\ \A i \in 1 .. n : r[i] = Traffic[side][i]
    BY <1>2, <1>3, <2>1, SentSoFar
  <2> QED BY <1>2, <2>1, <2>2, DumpIs
<1>6. p <= Len(f) /\ \A i \in 1 .. Len(f) : f[i] = Printed(Traffic[side][i].byte)
  BY <1>1, <1>2 DEF SavedSoFar
<1>7. Len(f) <= n
  <2>1. PICK k, h : k = Len(inbox[side]) /\ h = Fresh(side)
    OBVIOUS
  <2>2. k \in Nat /\ h \in Nat
    BY <2>1, Numbers
  <2>3. Len(f) + h <= n - k
    BY <1>1, <1>2, <2>1 DEF SavedSoFar, Taken
  <2> QED BY <1>3, <2>2, <2>3
<1>8. IsPrefix(a, f)
  <2>1. Len(a) <= Len(f) /\ \A i \in 1 .. Len(a) : a[i] = f[i]
    BY <1>3, <1>4, <1>6
  <2> QED BY <1>3, <1>4, <2>1, PrefixByElements, Zenon
<1>9. IsPrefix(f, t)
  <2>1. Len(f) <= Len(t) /\ \A i \in 1 .. Len(f) : f[i] = t[i]
    BY <1>3, <1>5, <1>6, <1>7
  <2> QED BY <1>3, <1>5, <2>1, PrefixByElements, Zenon
<1> QED BY <1>2, <1>8, <1>9

\* Whatever the worker dies of, the file of a side holds the dump (utils.c:399) of all that
\* has got to the other side's socket, in order, and of nothing that was not sent
\* (pipeline.c:62-66, 161-164).
THEOREM FilesAreAhead == Spec => []SavedBeforeSent
  BY SavedCorrect, SavedImplies, PTL

\* When read() says that a stream has ended (pipeline.c:80-82, 193-195), everything that
\* its side ever sent is at the socket of the other side.
THEOREM EndIsLast == Spec => EndOfFileIsLast
<1> DEFINE AllThrough == \A side \in Sides : EndOfFile(side) /\ open[Other(side)] =>
                            Through(side) = SubSeq(Traffic[side], 1, sent[side])
<1>1. ASSUME TypeOK, FlowInv, NEW side \in Sides, EndOfFile(side), open[Other(side)]
      PROVE  Through(side) = SubSeq(Traffic[side], 1, sent[side])
  <2>1. PICK n : n = sent[side]
    OBVIOUS
  <2>2. n \in Nat /\ n <= sent[side]
    BY <1>1, <2>1, Numbers
  <2>3. Passed(side) = n
    <3>1. pc = "callback" /\ Len(inbox[side]) = 0
      BY <1>1 DEF EndOfFile
    <3>2. Taken(side) = n - 0 /\ InHand(side) = 0
      BY <2>1, <3>1 DEF Taken, InHand
    <3>3. Passed(side) + 0 = n - 0 /\ Passed(side) \in Nat
      BY <1>1, <3>1, <3>2, Numbers DEF FlowInv, Counted
    <3> QED BY <2>2, <3>3
  <2>4. /\ Through(side) \in Seq(Piece) /\ Len(Through(side)) = n
        /\ \A i \in 1 .. n : Through(side)[i] = Traffic[side][i]
    BY <1>1, <2>3, ThroughInPlace
  <2>5. PICK a, t : a = Through(side) /\ t = SubSeq(Traffic[side], 1, n)
    OBVIOUS
  <2>6. /\ a \in Seq(Piece) /\ t \in Seq(Piece) /\ Len(a) = Len(t)
        /\ \A i \in 1 .. Len(a) : a[i] = t[i]
    BY <1>1, <2>2, <2>4, <2>5, SentSoFar
  <2>7. a = t
    BY <2>6, SeqEqual, Zenon
  <2> QED BY <2>1, <2>5, <2>7
<1>2. TypeOK /\ FlowInv => [AllThrough]_vars
  BY <1>1
<1>3. Spec => [][AllThrough]_vars
  BY <1>2, FlowCorrect, PTL
<1> QED BY <1>3, Zenon DEF EndOfFileIsLast, Through

-----------------------------------------------------------------------------
(* The reasons to end. *)

\* The buffer holds nothing that was not sent, when the relay begins.
LEMMA BufferInit == Init => BufferInv
  BY ClearedBuffer DEF Init, BufferInv

\* A peer takes back nothing it sent and does not open again.
LEMMA SentGrows ==
  ASSUME TypeOK, [Next]_vars, NEW side \in Sides
  PROVE  /\ sent[side] \in Nat /\ sent'[side] \in Nat /\ sent[side] <= sent'[side]
         /\ 1 .. sent[side] \subseteq 1 .. sent'[side]
         /\ open'[side] => open[side]
<1>1. sent[side] \in Nat
  BY DEF TypeOK
<1>2. sent'[side] = sent[side] \/ sent'[side] = sent[side] + 1
  BY DEF Next, Step, vars, peerVars, Poll, EndIteration, Save, Relayed, Write, WriteIntoVoid,
         WriteFails, WriteKills, Read, EndOfFile, DecoderExits, SaveFails, Send, Receive,
         Close, TypeOK
<1>3. open'[side] => open[side]
  BY DEF Next, Step, vars, peerVars, Poll, EndIteration, Save, Relayed, Write, WriteIntoVoid,
         WriteFails, WriteKills, Read, EndOfFile, DecoderExits, SaveFails, Send, Receive,
         Close, TypeOK
<1> QED BY <1>1, <1>2, <1>3

\* A piece that a side has sent, or zero.
Known(piece) ==
    piece = Zero \/ \E side \in Sides : \E j \in 1 .. sent[side] : piece = Traffic[side][j]

\* What a side is known to have sent stays known.
LEMMA KnownStays ==
  ASSUME TypeOK, [Next]_vars, NEW piece, Known(piece)
  PROVE  Known(piece)'
<1>1. CASE piece = Zero
  BY <1>1 DEF Known
<1>2. ASSUME NEW side \in Sides, NEW j \in 1 .. sent[side], piece = Traffic[side][j]
      PROVE  Known(piece)'
  <2>1. j \in 1 .. sent'[side]
    BY SentGrows
  <2> QED BY <1>2, <2>1 DEF Known
<1> QED BY <1>1, <1>2 DEF Known

\* Every step keeps in the buffer only what was sent, or zeros.
LEMMA BufferNext == TypeOK /\ FlowInv /\ BufferInv /\ [Next]_vars => BufferInv'
<1> SUFFICES ASSUME TypeOK, FlowInv, BufferInv, [Next]_vars,
                    NEW i \in 1 .. BufferSize
             PROVE  Known(data[i])'
  BY DEF BufferInv, Known
<1>0. Known(data[i])
  BY DEF BufferInv, Known
<1>1. CASE UNCHANGED data
  <2>1. Known(data[i])'
    BY <1>0, <1>1, KnownStays DEF Known
  <2> QED BY <2>1
<1>2. ASSUME NEW side \in Sides, EndOfFile(side) PROVE Known(data[i])'
  BY <1>2, ClearedBuffer DEF EndOfFile, Known
<1>3. ASSUME NEW side \in Sides, Read(side) PROVE Known(data[i])'
  <2>1. PICK n, t, k : n = length' /\ t = Taken(side) /\ k = Len(inbox[side])
    OBVIOUS
  <2>2. /\ n \in Nat /\ n <= k /\ n <= BufferSize
        /\ \A l \in 1 .. n : data'[l] = inbox[side][l]
        /\ \A l \in n + 1 .. BufferSize : data'[l] = data[l]
    BY <1>3, <2>1, ReadChunk, RelayAssumption
  <2>3. t \in Nat /\ k \in Nat /\ sent[side] \in Nat /\ t = sent[side] - k
    <3>1. Passed(side) \in Nat /\ InHand(side) \in Nat /\ Taken(side) \in Int
      BY Numbers
    <3>2. Passed(side) + InHand(side) <= t
      BY <2>1 DEF FlowInv, Counted
    <3> QED BY <2>1, <3>1, <3>2, Numbers DEF Taken
  <2>4. UNCHANGED sent
    BY <1>3 DEF Read
  <2>5. CASE i <= n
    <3>1. i \in 1 .. n /\ i \in 1 .. k /\ t + i \in 1 .. sent[side]
      BY <2>2, <2>3, <2>5
    <3>2. data'[i] = Traffic[side][t + i]
      BY <2>1, <2>2, <3>1 DEF FlowInv, InPlace
    <3> QED BY <2>4, <3>1, <3>2 DEF Known
  <2>6. CASE ~(i <= n)
    <3>1. i \in n + 1 .. BufferSize
      BY <2>2, <2>6, RelayAssumption
    <3> QED BY <1>0, <2>2, <2>4, <3>1 DEF Known
  <2> QED BY <2>5, <2>6
<1>4. CASE ~UNCHANGED data
  BY <1>2, <1>3, <1>4 DEF Next, Step, vars, chunkVars, Poll, EndIteration, Save, Relayed,
     Write, WriteIntoVoid, WriteFails, WriteKills, DecoderExits, SaveFails, Send, Receive,
     Close
<1> QED BY <1>1, <1>4

\* The relay has not ended when it begins.
LEMMA ReasonInit == Init => EndsForReason
  BY DEF Init, EndsForReason

\* A step that ends the relay has one of the reasons.
LEMMA ReasonNext ==
  TypeOK /\ FlowInv /\ BufferInv /\ EndsForReason /\ [Next]_vars => EndsForReason'
<1> SUFFICES ASSUME TypeOK, FlowInv, BufferInv, EndsForReason, [Next]_vars, ~running'
             PROVE  EndsForReason'
  BY DEF EndsForReason
<1>g. /\ "client" \in Sides /\ "server" \in Sides
      /\ \A side \in Sides : 1 .. sent[side] \subseteq 1 .. sent'[side]
      /\ \A side \in Sides : open'[side] => open[side]
  BY SentGrows DEF Sides
<1>1. CASE ~running
  <2>1. \/ \E side \in Sides : ~open[side]
        \/ \E i \in 1 .. sent["client"] : Traffic["client"][i].byte = "X"
        \/ /\ \E i \in 1 .. sent["server"] : Traffic["server"][i].byte = "E"
           /\ \E side \in Sides : \E i \in 1 .. sent[side] : Traffic[side][i].fatal
    BY <1>1 DEF EndsForReason
  <2>2. CASE \E side \in Sides : ~open[side]
    BY <1>g, <2>2 DEF EndsForReason
  <2>3. CASE \E i \in 1 .. sent["client"] : Traffic["client"][i].byte = "X"
    BY <1>g, <2>3 DEF EndsForReason
  <2>4. CASE /\ \E i \in 1 .. sent["server"] : Traffic["server"][i].byte = "E"
             /\ \E side \in Sides : \E i \in 1 .. sent[side] : Traffic[side][i].fatal
    <3>1. \E i \in 1 .. sent'["server"] : Traffic["server"][i].byte = "E"
      BY <1>g, <2>4
    <3>2. \E side \in Sides : \E i \in 1 .. sent'[side] : Traffic[side][i].fatal
      BY <1>g, <2>4
    <3> QED BY <3>1, <3>2 DEF EndsForReason
  <2> QED BY <2>1, <2>2, <2>3, <2>4
<1>2. CASE running /\ \E side \in Sides : EndOfFile(side)
  BY <1>2 DEF EndOfFile, peerVars, EndsForReason
<1>3. CASE running /\ WriteFails
  BY <1>3, OtherSide DEF WriteFails, peerVars, EndsForReason, TypeOK
<1>4. CASE running /\ Relayed
  <2>1. /\ pc = "write" /\ UNCHANGED sent
        /\ \/ reader = "client" /\ data[1].byte = "X"
           \/ reader = "server" /\ data[1].byte = "E" /\ data[2].fatal
    BY <1>4 DEF Relayed, Fatal, peerVars
  <2>2. \E j \in 1 .. sent[reader] : data[1] = Traffic[reader][j]
    <3>1. PICK s, t, n, k : /\ s = reader /\ t = Taken(s) /\ n = length
                            /\ k = Len(inbox[s])
      OBVIOUS
    <3>2. /\ s \in Sides /\ t \in Int /\ n \in Nat /\ k \in Nat /\ sent[s] \in Nat
          /\ t = sent[s] - k
      <4>1. s \in Sides
        BY <3>1 DEF TypeOK
      <4> QED BY <3>1, <4>1, Numbers DEF Taken
    <3>3. n > 0 /\ n <= t /\ \A i \in 1 .. n : data[i] = Traffic[s][t - n + i]
      BY <2>1, <3>1, <3>2 DEF FlowInv, ChunkInPlace
    <3>4. 1 \in 1 .. n /\ t - n + 1 \in 1 .. sent[s]
      BY <3>2, <3>3
    <3> QED BY <3>1, <3>3, <3>4
  <2>3. data[2].fatal => \E side \in Sides : \E j \in 1 .. sent[side] : Traffic[side][j].fatal
    <3>1. 2 \in 1 .. BufferSize
      BY RelayAssumption
    <3>2. Known(data[2])
      BY <3>1 DEF BufferInv, Known
    <3> QED BY <3>2 DEF Known, Zero
  <2> QED BY <2>1, <2>2, <2>3 DEF EndsForReason
<1>5. CASE running /\ ~Relayed /\ ~WriteFails /\ ~(\E side \in Sides : EndOfFile(side))
  <2>1. running' = running
    BY <1>5 DEF Next, Step, vars, loopVars, Poll, EndIteration, Save, Write, WriteIntoVoid,
       WriteKills, Read, DecoderExits, SaveFails, Send, Receive, Close
  <2> QED BY <1>5, <2>1
<1> QED BY <1>1, <1>2, <1>3, <1>4, <1>5 DEF TypeOK

\* The worker never ends a session by itself without a reason that is in the traffic
\* (pipeline.c:74-78, 172-191), whatever earlier chunks have left in the buffer.
THEOREM EndHasReason == Spec => []EndsForReason
  BY TypeInit, TypeNext, FlowInit, FlowNext, BufferInit, BufferNext, ReasonInit, ReasonNext,
     PTL DEF Spec

-----------------------------------------------------------------------------
(***************************************************************************)
(* The two pipes.  What a pipe holds is the traffic of its side from the   *)
(* first piece that has not been received; so a step is told by how far    *)
(* the receiver has got and by how much the pipe holds.                    *)
(***************************************************************************)

Held(side) ==
    IF ~open[Other(side)] THEN 0
    ELSE IF pc = "ended" THEN Len(outbox[Other(side)])
    ELSE sent[side] - Len(received[Other(side)])

QueueShape(side) ==
    /\ Queue(side) \in Seq(Piece)
    /\ Held(side) \in Nat /\ Len(Queue(side)) = Held(side)
    /\ \A i \in 1 .. Held(side) :
          Queue(side)[i] = Traffic[side][Len(received[Other(side)]) + i]

\* The sequence s is the part of t that begins after the first r elements.
Continues(s, t, r) == \A i \in 1 .. Len(s) : s[i] = t[r + i]

\* Two sequences that continue each other in a third do so when they are joined.
LEMMA JoinInPlace ==
  ASSUME NEW a \in Seq(Piece), NEW b \in Seq(Piece), NEW t, NEW r \in Nat,
         Continues(a, t, r), Continues(b, t, r + Len(a))
  PROVE  /\ a \o b \in Seq(Piece) /\ Len(a \o b) = Len(a) + Len(b)
         /\ Continues(a \o b, t, r)
<1>1. a \o b \in Seq(Piece) /\ Len(a \o b) = Len(a) + Len(b)
  BY Joined
<1>2. ASSUME NEW i \in 1 .. Len(a) + Len(b) PROVE (a \o b)[i] = t[r + i]
  <2>1. (a \o b)[i] = IF i <= Len(a) THEN a[i] ELSE b[i - Len(a)]
    BY JoinedAt
  <2>2. CASE i <= Len(a)
    BY <2>1, <2>2 DEF Continues
  <2>3. CASE ~(i <= Len(a))
    <3>1. i - Len(a) \in 1 .. Len(b) /\ r + Len(a) + (i - Len(a)) = r + i
      BY <2>3
    <3>2. b[i - Len(a)] = t[r + Len(a) + (i - Len(a))]
      BY <3>1 DEF Continues
    <3> QED BY <2>1, <2>3, <3>1, <3>2
  <2> QED BY <2>2, <2>3
<1> QED BY <1>1, <1>2, Zenon DEF Continues

\* Queue by queue: what is under way is the part of the traffic not yet received.
LEMMA QueueInPlace == TypeOK /\ FlowInv => \A side \in Sides : QueueShape(side)
<1> SUFFICES ASSUME TypeOK, FlowInv, NEW side \in Sides PROVE QueueShape(side)
  OBVIOUS
<1>1. PICK to, t, o, x, r, k, n, h :
        /\ to = Other(side) /\ t = Traffic[side] /\ o = outbox[to] /\ x = inbox[side]
        /\ r = Len(received[to]) /\ k = Taken(side) /\ n = sent[side] /\ h = InHand(side)
  OBVIOUS
<1>2. /\ to \in Sides /\ o \in Seq(Piece) /\ x \in Seq(Piece) /\ r \in Nat
      /\ Len(o) \in Nat /\ Len(x) \in Nat /\ n \in Nat /\ h \in Nat /\ k = n - Len(x)
  <2>1. to \in Sides
    BY <1>1, OtherSide
  <2>2. o \in Seq(Piece) /\ x \in Seq(Piece)
    BY <1>1, <2>1 DEF TypeOK
  <2> QED BY <1>1, <2>1, <2>2, Numbers DEF Taken
<1>3. Continues(o, t, r) /\ Continues(x, t, k)
  BY <1>1 DEF FlowInv, InPlace, Continues
<1>4. open[to] /\ pc # "ended" => r + Len(o) + h = k
  <2>1. Passed(side) = r + Len(o)
    BY <1>1, Zenon DEF Passed
  <2> QED BY <1>1, <2>1 DEF FlowInv, Counted
<1>5. CASE ~open[to]
  <2>1. Held(side) = 0 /\ Queue(side) = <<>>
    BY <1>1, <1>5 DEF Held, Queue
  <2> QED BY <2>1 DEF QueueShape
<1>6. CASE open[to] /\ pc = "ended"
  <2>1. Held(side) = Len(o) /\ Queue(side) = o
    BY <1>1, <1>6 DEF Held, Queue
  <2> QED BY <1>1, <1>2, <1>3, <2>1 DEF QueueShape, Continues
<1>7. CASE open[to] /\ pc # "ended" /\ ~(pc \in {"decoded", "write"} /\ reader = side)
  <2>1. Held(side) = n - r /\ Queue(side) = o \o x /\ h = 0
    BY <1>1, <1>7 DEF Held, Queue, InHand
  <2>2. r + Len(o) = k /\ n - r = Len(o) + Len(x)
    BY <1>2, <1>4, <1>7, <2>1
  <2>3. Continues(x, t, r + Len(o))
    BY <1>3, <2>2, Zenon
  <2>4. PICK q : q = o \o x
    OBVIOUS
  <2>5. q \in Seq(Piece) /\ Len(q) = Len(o) + Len(x) /\ Continues(q, t, r)
    <3>1. o \in Seq(Piece) /\ x \in Seq(Piece) /\ r \in Nat
      BY <1>2, Zenon
    <3> QED BY <1>3, <2>3, <2>4, <3>1, JoinInPlace, Zenon
  <2>6. /\ Queue(side) = q /\ Held(side) = Len(q) /\ Len(q) \in Nat
        /\ t = Traffic[side] /\ r = Len(received[Other(side)])
    <3>1. Held(side) = Len(q) /\ Queue(side) = q
      BY <2>1, <2>2, <2>4, <2>5, Zenon
    <3>2. Len(q) \in Nat
      BY <2>5
    <3> QED BY <1>1, <3>1, <3>2, Zenon
  <2> QED BY <2>5, <2>6 DEF QueueShape, Continues
<1>8. CASE open[to] /\ pc # "ended" /\ pc \in {"decoded", "write"} /\ reader = side
  <2>1. PICK m, l, f : m = SubSeq(msg, f + 1, l) /\ l = length /\ f = offset
    OBVIOUS
  <2>2. l \in Nat /\ f \in Nat /\ f <= l /\ h = l - f
    BY <1>1, <1>8, <2>1, Numbers DEF InHand
  <2>3. Held(side) = n - r /\ Queue(side) = o \o m \o x
    BY <1>1, <1>8, <2>1, MsgIs DEF Held, Queue
  <2>4. m \in Seq(Piece) /\ Len(m) = l - f
    <3>1. msg \in Seq(Piece) /\ Len(msg) = l
      BY <2>1, MsgIs
    <3> QED BY <2>1, <2>2, <3>1, Part
  <2>5. ASSUME NEW i \in 1 .. l - f PROVE m[i] = t[r + Len(o) + i]
    <3>1. msg \in Seq(Piece) /\ Len(msg) = l
      BY <2>1, MsgIs
    <3>2. m[i] = msg[f + i]
      BY <2>1, <2>2, <3>1, PartAt
    <3>3. f + i \in 1 .. l /\ k - l + (f + i) = r + Len(o) + i
      BY <1>2, <1>4, <1>8, <2>2
    <3>4. msg[f + i] = data[f + i] /\ data[f + i] = t[k - l + (f + i)]
      BY <1>1, <1>8, <2>1, <3>3, MsgIs DEF FlowInv, ChunkInPlace
    <3> QED BY <3>2, <3>3, <3>4
  <2>6. Continues(m, t, r + Len(o))
    BY <2>4, <2>5 DEF Continues
  <2>7. PICK c : c = o \o m
    OBVIOUS
  <2>8. c \in Seq(Piece) /\ Len(c) = Len(o) + Len(m) /\ Continues(c, t, r)
    <3>1. o \in Seq(Piece) /\ m \in Seq(Piece) /\ r \in Nat
      BY <1>2, <2>4, Zenon
    <3> QED BY <1>3, <2>6, <2>7, <3>1, JoinInPlace, Zenon
  <2>9. r + Len(c) = k /\ n - r = Len(c) + Len(x) /\ Len(c) \in Nat
    <3>1. PICK a, y, z : a = Len(o) /\ y = Len(x) /\ z = Len(c)
      OBVIOUS
    <3>2. a \in Nat /\ y \in Nat /\ z = a + (l - f) /\ k = n - y /\ r + a + (l - f) = k
      BY <1>2, <1>4, <1>8, <2>2, <2>4, <2>8, <3>1, Zenon
    <3>3. r + z = k /\ n - r = z + y /\ z \in Nat
      BY <1>2, <2>2, <3>2
    <3> QED BY <3>1, <3>3, Zenon
  <2>10. Continues(x, t, r + Len(c))
    BY <1>3, <2>9, Zenon
  <2>11. PICK q : q = c \o x
    OBVIOUS
  <2>12. q \in Seq(Piece) /\ Len(q) = Len(c) + Len(x) /\ Continues(q, t, r)
    <3>1. c \in Seq(Piece) /\ x \in Seq(Piece) /\ r \in Nat
      BY <1>2, <2>8, Zenon
    <3> QED BY <2>8, <2>10, <2>11, <3>1, JoinInPlace, Zenon
  <2>13. Queue(side) = q
    BY <2>3, <2>7, <2>11
  <2>14. /\ Held(side) = Len(q) /\ Len(q) \in Nat
         /\ t = Traffic[side] /\ r = Len(received[Other(side)])
    <3>1. Held(side) = Len(q)
      BY <2>3, <2>9, <2>12, Zenon
    <3>2. Len(q) \in Nat
      BY <2>12
    <3> QED BY <1>1, <3>1, <3>2, Zenon
  <2> QED BY <2>12, <2>13, <2>14 DEF QueueShape, Continues
<1> QED BY <1>1, <1>5, <1>6, <1>7, <1>8

Broken(side) == ~open[Other(side)] \/ pc = "ended"

\* The promise and the relay have the same sides.
LEMMA TrafficSides == Promise!Sides = Sides
  BY RelayAssumption DEF Promise!Sides

\* Two pipes with the same beginning: the shorter is a prefix of the longer.
LEMMA QueuePrefix ==
  ASSUME NEW side \in Sides, QueueShape(side), QueueShape(side)',
         received'[Other(side)] = received[Other(side)], Held(side)' <= Held(side)
  PROVE  /\ IsPrefix(Queue(side)', Queue(side))
         /\ Held(side)' = Held(side) => Queue(side)' = Queue(side)
<1>1. PICK q, p, h, g, t, r :
        /\ q = Queue(side) /\ p = Queue(side)' /\ h = Held(side) /\ g = Held(side)'
        /\ t = Traffic[side] /\ r = Len(received[Other(side)])
  OBVIOUS
<1>2. /\ q \in Seq(Piece) /\ h \in Nat /\ Len(q) = h
      /\ \A i \in 1 .. h : q[i] = t[r + i]
  BY <1>1 DEF QueueShape
<1>3. /\ p \in Seq(Piece) /\ g \in Nat /\ Len(p) = g
      /\ \A i \in 1 .. g : p[i] = t[r + i]
  BY <1>1 DEF QueueShape
<1>4. g <= h
  BY <1>1
<1>5. Len(p) <= Len(q) /\ \A i \in 1 .. Len(p) : p[i] = q[i]
  BY <1>2, <1>3, <1>4
<1>6. IsPrefix(p, q)
  BY <1>2, <1>3, <1>5, PrefixByElements, Zenon
<1>7. ASSUME g = h PROVE p = q
  <2>1. Len(p) = Len(q)
    BY <1>2, <1>3, <1>7
  <2> QED BY <1>2, <1>3, <1>5, <2>1, SeqEqual, Zenon
<1> QED BY <1>1, <1>6, <1>7, Zenon

\* A step in which nobody sends or receives is a break of the pipes, or no step of theirs.
LEMMA BreakStep ==
  ASSUME \A side \in Sides : QueueShape(side) /\ QueueShape(side)',
         UNCHANGED <<sent, received>>,
         \A side \in Sides : /\ Broken(side) => Broken(side)'
                             /\ Held(side)' <= Held(side)
                             /\ ~Broken(side)' => Held(side)' = Held(side)
  PROVE  Promise!Break
<1>1. ASSUME NEW side \in Sides
      PROVE  /\ IsPrefix(Queue(side)', Queue(side))
             /\ ~Broken(side)' => Queue(side)' = Queue(side)
  BY QueuePrefix
<1>2. ASSUME NEW side \in Sides
      PROVE  /\ Broken(side) => Broken(side)'
             /\ Promise!IsPrefix(Queue(side)', Queue(side))
             /\ ~Broken(side)' => Queue(side)' = Queue(side)
  BY <1>1 DEF IsPrefix, Promise!IsPrefix
<1> QED BY <1>2, TrafficSides DEF Promise!Break, Broken

\* A peer that sends is a step of the promise.
LEMMA SendStep ==
  ASSUME TypeOK, \A s \in Sides : QueueShape(s) /\ QueueShape(s)',
         NEW side \in Sides, Send(side)
  PROVE  Promise!Send(side)
<1>1. /\ UNCHANGED <<received, open, pc, outbox>> /\ pc # "ended"
      /\ sent[side] < Len(Traffic[side]) /\ sent' = [sent EXCEPT ![side] = @ + 1]
  BY DEF Send, Due, loopVars
<1>2. ASSUME NEW s \in Sides, s # side \/ Broken(s) PROVE Queue(s)' = Queue(s)
  <2>1. sent'[s] = sent[s] \/ ~open[Other(s)]
    BY <1>1, <1>2 DEF TypeOK, Broken
  <2>2. Held(s)' = Held(s) /\ Held(s) \in Nat
    BY <1>1, <2>1 DEF Held, QueueShape
  <2> QED BY <1>1, <2>2, QueuePrefix
<1>3. ASSUME ~Broken(side)
      PROVE  Queue(side)' = Append(Queue(side), Traffic[side][sent'[side]])
  <2>1. PICK q, p, h, n, t, r :
          /\ q = Queue(side) /\ p = Queue(side)' /\ h = Held(side) /\ n = sent[side]
          /\ t = Traffic[side] /\ r = Len(received[Other(side)])
    OBVIOUS
  <2>2. n \in Nat /\ r \in Nat /\ sent'[side] = n + 1
    <3>1. Other(side) \in Sides
      BY OtherSide
    <3> QED BY <1>1, <2>1, <3>1, Numbers DEF TypeOK
  <2>3. h = n - r /\ Held(side)' = n + 1 - r
    BY <1>1, <1>3, <2>1, <2>2 DEF Held, Broken
  <2>4. /\ q \in Seq(Piece) /\ h \in Nat /\ Len(q) = h
        /\ \A i \in 1 .. h : q[i] = t[r + i]
    BY <2>1 DEF QueueShape
  <2>5. /\ p \in Seq(Piece) /\ Len(p) = n + 1 - r
        /\ \A i \in 1 .. n + 1 - r : p[i] = t[r + i]
    BY <1>1, <2>1, <2>3 DEF QueueShape
  <2>6. t[n + 1] \in Piece
    BY <1>1, <2>1, <2>2, PiecesHold, PiecesArePieces, RelayAssumption
  <2>7. PICK a : a = Append(q, t[n + 1])
    OBVIOUS
  <2>8. a \in Seq(Piece) /\ Len(a) = h + 1 /\ a[h + 1] = t[n + 1]
        /\ \A i \in 1 .. h : a[i] = q[i]
    BY <2>4, <2>6, <2>7
  <2>9. Len(a) = Len(p)
    BY <2>2, <2>3, <2>4, <2>5, <2>8
  <2>10. ASSUME NEW i \in 1 .. Len(a) PROVE a[i] = p[i]
    <3>1. i \in 1 .. n + 1 - r
      BY <2>5, <2>9
    <3>2. CASE i = h + 1
      <4>1. r + i = n + 1
        BY <2>2, <2>3, <3>2
      <4> QED BY <2>5, <2>8, <3>1, <3>2, <4>1
    <3>3. CASE i \in 1 .. h
      BY <2>4, <2>5, <2>8, <3>1, <3>3
    <3> QED BY <2>4, <2>8, <3>2, <3>3
  <2>11. a = p
    BY <2>5, <2>8, <2>9, <2>10, SeqEqual, Zenon
  <2> QED BY <2>1, <2>2, <2>7, <2>11
<1>4. \A s \in Sides : Queue(s)' = IF s = side /\ ~Broken(side)
                                   THEN Append(Queue(s), Traffic[s][sent'[s]])
                                   ELSE Queue(s)
  BY <1>2, <1>3
<1> QED BY <1>1, <1>4, TrafficSides DEF Promise!Send, Broken

\* A peer that receives is a step of the promise, of the other side.
LEMMA ReceiveStep ==
  ASSUME TypeOK, FlowInv, \A s \in Sides : QueueShape(s) /\ QueueShape(s)',
         NEW to \in Sides, Receive(to)
  PROVE  Promise!Receive(Other(to))
<1>1. /\ UNCHANGED <<sent, open, pc>> /\ open[to] /\ outbox[to] # <<>>
      /\ received' = [received EXCEPT ![to] = Append(@, Head(outbox[to]))]
      /\ outbox' = [outbox EXCEPT ![to] = Tail(@)]
  BY DEF Receive, loopVars
<1>2. PICK side : side = Other(to) /\ side \in Sides /\ Other(side) = to /\ side # to
  BY OtherSide
<1>3. PICK q, p, h, b, t, r :
        /\ q = Queue(side) /\ p = Queue(side)' /\ h = Held(side) /\ b = Len(outbox[to])
        /\ t = Traffic[side] /\ r = Len(received[to])
  OBVIOUS
<1>4. /\ r \in Nat /\ b \in Nat /\ b > 0
      /\ Len(received'[to]) = r + 1 /\ Len(outbox'[to]) = b - 1
      /\ received'[to] = Append(received[to], Head(outbox[to]))
  <2>1. received[to] \in Seq(Piece) /\ outbox[to] \in Seq(Piece)
    BY DEF TypeOK
  <2>2. received'[to] = Append(received[to], Head(outbox[to])) /\ outbox'[to] = Tail(outbox[to])
    BY <1>1 DEF TypeOK
  <2>3. r \in Nat /\ b \in Nat /\ b > 0
    BY <1>1, <1>3, <2>1
  <2>4. Head(outbox[to]) \in Piece /\ Len(Tail(outbox[to])) = b - 1
    BY <1>1, <1>3, <2>1
  <2>5. Len(Append(received[to], Head(outbox[to]))) = r + 1
    BY <1>3, <2>1, <2>4
  <2> QED BY <2>2, <2>3, <2>4, <2>5, Zenon
<1>5. /\ q \in Seq(Piece) /\ h \in Nat /\ Len(q) = h
      /\ \A i \in 1 .. h : q[i] = t[r + i]
  BY <1>2, <1>3 DEF QueueShape
<1>6. h >= b /\ Held(side)' = h - 1
  <2>1. CASE pc = "ended"
    <3>1. h = b /\ Held(side)' = b - 1
      BY <1>1, <1>2, <1>3, <1>4, <2>1 DEF Held
    <3> QED BY <1>4, <3>1
  <2>2. CASE pc # "ended"
    <3>1. h = sent[side] - r /\ Held(side)' = sent[side] - (r + 1) /\ sent[side] \in Nat
      BY <1>1, <1>2, <1>3, <1>4, <2>2, Numbers DEF Held
    <3>2. Passed(side) = r + b
      BY <1>2, <1>3, Zenon DEF Passed
    <3>3. PICK k, m : k = Len(inbox[side]) /\ m = InHand(side)
      OBVIOUS
    <3>4. k \in Nat /\ m \in Nat
      BY <1>2, <3>3, Numbers
    <3>5. r + b + m <= sent[side] - k
      BY <1>2, <3>2, <3>3 DEF FlowInv, Counted, Taken
    <3>6. r + b <= sent[side]
      BY <1>4, <3>1, <3>4, <3>5
    <3>7. PICK n : n = sent[side]
      OBVIOUS
    <3>8. n \in Nat /\ r + b <= n /\ h = n - r /\ Held(side)' = n - (r + 1)
      BY <3>1, <3>6, <3>7
    <3> QED BY <1>4, <3>8
  <2> QED BY <2>1, <2>2
<1>7. /\ p \in Seq(Piece) /\ Len(p) = h - 1
      /\ \A i \in 1 .. h - 1 : p[i] = t[r + 1 + i]
  <2>1. QueueShape(side)' /\ Len(received'[Other(side)]) = r + 1 /\ Held(side)' = h - 1
    BY <1>2, <1>4, <1>6
  <2>2. p \in Seq(Piece) /\ Len(p) = h - 1
    BY <1>3, <2>1, Zenon DEF QueueShape
  <2>3. ASSUME NEW i \in 1 .. h - 1 PROVE p[i] = t[r + 1 + i]
    BY <1>3, <2>1, Zenon DEF QueueShape
  <2> QED BY <2>2, <2>3
<1>8. q # <<>> /\ Head(q) = Head(outbox[to])
  <2>1. 1 \in 1 .. h /\ 1 \in 1 .. b
    BY <1>4, <1>5, <1>6
  <2>2. outbox[to][1] = t[r + 1]
    BY <1>2, <1>3, <2>1 DEF FlowInv, InPlace
  <2>3. outbox[to] \in Seq(Piece) /\ q # <<>>
    BY <1>5, <2>1 DEF TypeOK
  <2>4. Head(q) = q[1] /\ Head(outbox[to]) = outbox[to][1]
    BY <1>1, <1>5, <2>3
  <2> QED BY <1>5, <2>1, <2>2, <2>3, <2>4
<1>9. p = Tail(q)
  <2>1. PICK a : a = Tail(q)
    OBVIOUS
  <2>2. /\ a \in Seq(Piece) /\ Len(a) = h - 1
        /\ \A i \in 1 .. h - 1 : a[i] = q[i + 1]
    BY <1>5, <1>8, <2>1
  <2>3. ASSUME NEW i \in 1 .. Len(p) PROVE p[i] = a[i]
    <3>1. i \in 1 .. h - 1 /\ i + 1 \in 1 .. h /\ r + (i + 1) = r + 1 + i
      BY <1>4, <1>5, <1>7
    <3>2. q[i + 1] = t[r + (i + 1)]
      BY <1>5, <3>1
    <3> QED BY <1>7, <2>2, <3>1, <3>2
  <2>4. Len(p) = Len(a)
    BY <1>7, <2>2
  <2>5. p = a
    BY <1>7, <2>2, <2>3, <2>4, SeqEqual, Zenon
  <2> QED BY <2>1, <2>5
<1>10. ASSUME NEW s \in Sides, s # side
       PROVE  Queue(s)' = Queue(s) /\ received'[Other(s)] = received[Other(s)]
  <2>1. Other(s) # to /\ Other(s) \in Sides
    BY <1>2, <1>10, OtherSide
  <2>2. received'[Other(s)] = received[Other(s)] /\ outbox'[Other(s)] = outbox[Other(s)]
    BY <1>1, <2>1 DEF TypeOK
  <2>3. Held(s)' = Held(s) /\ Held(s) \in Nat
    BY <1>1, <2>2 DEF Held, QueueShape
  <2> QED BY <2>2, <2>3, QueuePrefix
<1>11. \A s \in Sides : Queue(s)' = IF s = side THEN Tail(Queue(s)) ELSE Queue(s)
  BY <1>3, <1>9, <1>10
<1>12. \A s \in Sides : received'[Other(s)] =
          IF s = side THEN Append(received[to], Head(Queue(side))) ELSE received[Other(s)]
  BY <1>2, <1>3, <1>4, <1>8, <1>10
<1>13. Queue(side) # <<>> /\ Other(to) = side /\ side \in Sides
  BY <1>2, <1>3, <1>8
<1> QED BY <1>1, <1>2, <1>11, <1>12, <1>13, TrafficSides DEF Promise!Receive

\* The relay begins as the promise does.
LEMMA PipeInit == Init => Promise!Init
<1> SUFFICES ASSUME Init PROVE Promise!Init
  OBVIOUS
<1>1. ASSUME NEW side \in Sides
      PROVE  Queue(side) = <<>> /\ received[Other(side)] = <<>> /\ open[Other(side)]
  <2>1. /\ Other(side) \in Sides /\ outbox[Other(side)] = <<>> /\ inbox[side] = <<>>
        /\ open[Other(side)] /\ pc = "poll" /\ received[Other(side)] = <<>>
    BY OtherSide DEF Init
  <2>2. Queue(side) = <<>> \o <<>>
    BY <2>1 DEF Queue
  <2> QED BY <2>1, <2>2
<1>2. pc = "poll" /\ sent = [side \in Sides |-> 0]
  BY DEF Init
<1> QED BY <1>1, <1>2, TrafficSides DEF Promise!Init

\* Every step of the relay is a step of the promise or changes nothing of it.
LEMMA PipeNext ==
  TypeOK /\ FlowInv /\ (TypeOK /\ FlowInv)' /\ [Next]_vars => Promise!Next \/ UNCHANGED vars
<1> SUFFICES ASSUME TypeOK, FlowInv, (TypeOK /\ FlowInv)', Next PROVE Promise!Next
  OBVIOUS
<1>1. \A side \in Sides : QueueShape(side) /\ QueueShape(side)'
  <2>1. \A side \in Sides : QueueShape(side)
    BY QueueInPlace
  <2>2. (TypeOK /\ FlowInv)' => (\A side \in Sides : QueueShape(side))'
    BY QueueInPlace, PTL
  <2> QED BY <2>1, <2>2
<1>2. ASSUME NEW side \in Sides, Send(side) PROVE Promise!Next
  BY <1>1, <1>2, SendStep, TrafficSides DEF Promise!Next
<1>3. ASSUME NEW side \in Sides, Receive(side) PROVE Promise!Next
  <2>1. Promise!Receive(Other(side)) /\ Other(side) \in Sides
    BY <1>1, <1>3, ReceiveStep, OtherSide
  <2> QED BY <2>1, TrafficSides DEF Promise!Next
<1>4. CASE ~ \E side \in Sides : Send(side) \/ Receive(side)
  <2>1. /\ UNCHANGED <<sent, received>>
        /\ pc = "ended" => pc' = "ended"
        /\ pc' = "ended" => UNCHANGED outbox
    BY <1>4 DEF Next, Step, peerVars, loopVars, Poll, EndIteration, Save, Relayed, Write,
       WriteIntoVoid, WriteFails, WriteKills, Read, EndOfFile, DecoderExits, SaveFails, Close
  <2>2. ASSUME NEW side \in Sides
        PROVE  /\ Broken(side) => Broken(side)'
               /\ Held(side)' <= Held(side)
               /\ ~Broken(side)' => Held(side)' = Held(side)
    <3>1. Other(side) \in Sides /\ (open'[Other(side)] => open[Other(side)])
      BY OtherSide, SentGrows
    <3>2. Broken(side) => Broken(side)'
      BY <2>1, <3>1 DEF Broken
    <3>3. Held(side) \in Nat /\ Held(side)' \in Nat
      BY <1>1 DEF QueueShape
    <3>4. ~Broken(side)' => Held(side)' = Held(side)
      BY <2>1, <3>1 DEF Held, Broken
    <3>5. CASE ~open'[Other(side)]
      <4>1. Held(side)' = 0
        BY <3>5 DEF Held
      <4> QED BY <3>2, <3>3, <3>4, <4>1
    <3>6. CASE open'[Other(side)] /\ (pc = "ended" \/ pc' # "ended")
      <4>1. Held(side)' = Held(side)
        BY <2>1, <3>1, <3>6 DEF Held
      <4> QED BY <3>2, <3>3, <3>4, <4>1
    <3>7. CASE open'[Other(side)] /\ pc # "ended" /\ pc' = "ended"
      <4>1. PICK r, b, n, k, m :
              /\ r = Len(received[Other(side)]) /\ b = Len(outbox[Other(side)])
              /\ n = sent[side] /\ k = Len(inbox[side]) /\ m = InHand(side)
        OBVIOUS
      <4>2. r \in Nat /\ b \in Nat /\ n \in Nat /\ k \in Nat /\ m \in Nat
        BY <3>1, <4>1, Numbers
      <4>3. Held(side) = n - r /\ Held(side)' = b
        BY <2>1, <3>1, <3>7, <4>1 DEF Held
      <4>4. Passed(side) = r + b /\ Taken(side) = n - k
        BY <4>1, Zenon DEF Passed, Taken
      <4>5. r + b + m <= n - k
        BY <4>1, <4>4 DEF FlowInv, Counted
      <4>6. b <= n - r
        BY <4>2, <4>5
      <4> QED BY <3>2, <3>4, <4>3, <4>6
    <3> QED BY <3>5, <3>6, <3>7
  <2>3. Promise!Break
    BY <1>1, <2>1, <2>2, BreakStep
  <2> QED BY <2>3 DEF Promise!Next
<1> QED BY <1>2, <1>3, <1>4

\* The relay (message.c:159-268) is two pipes: what a side sends comes out at the other in
\* order, complete and once, until the receiver closes or the worker ends; whatever the
\* traffic, the size of the chunks and of the sockets, and the short writes.
THEOREM RelayIsTwoPipes == Spec => ImplementsPipe
<1>1. UNCHANGED vars => UNCHANGED <<sent, [side \in Sides |-> Queue(side)],
                                    [side \in Sides |-> received[Other(side)]],
                                    [side \in Sides |-> ~open[Other(side)] \/ pc = "ended"]>>
  BY DEF vars, peerVars, loopVars, chunkVars, Queue, msg
<1>2. TypeOK /\ FlowInv /\ (TypeOK /\ FlowInv)' /\ [Next]_vars =>
        [Promise!Next]_<<sent, [side \in Sides |-> Queue(side)],
                         [side \in Sides |-> received[Other(side)]],
                         [side \in Sides |-> ~open[Other(side)] \/ pc = "ended"]>>
  BY <1>1, PipeNext
<1> QED BY <1>2, FlowCorrect, PipeInit, PTL DEF Spec, ImplementsPipe, Promise!Spec
=============================================================================
