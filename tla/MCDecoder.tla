------------------------------ MODULE MCDecoder ------------------------------
(***************************************************************************)
(* Conversations for Decoder.  Session: an SSL request the server refuses, *)
(* the startup with SASL, a simple query, the extended protocol, a copy in *)
(* both directions, an error, a function call and the end; packets without *)
(* a kind arrive whole.  The stack has room for a column of two bytes and  *)
(* a dump of three; one row and one response need one more.  Pipelined:    *)
(* the client sends its next query while the server answers the last with  *)
(* binary data of a copy.  Notified: while the client sends a query the    *)
(* server sends a notification on its own, as it may after the startup.    *)
(* Notice: the server sends a notice during the startup.                   *)
(***************************************************************************)
EXTENDS Decoder

Msg(bytes, after) ==
    [bytes |-> bytes, line |-> bytes[1], after |-> after, whole |-> FALSE]
Packet(bytes, after) ==
    [bytes |-> bytes, line |-> NoLine, after |-> after, whole |-> TRUE]

\* A message of a kind: its length counts itself and the body.
Of(kind, body) == <<kind, 0, 0, 0, Len(body) + 4>> \o body

SSLRequest == <<0, 0, 0, 8, 4, 210, 22, 47>>
StartupPacket == <<0, 0, 0, 9, 0, 3, 0, 0, 0>>
StartupUser == <<0, 0, 0, 13, 0, 3, 0, 0, 117, 0, 97, 0, 0>>
Refused == <<78>>

SASL == Of(82, <<0, 0, 0, 10, 83, 67, 82, 65, 77, 0, 83, 0, 0>>)
SASLContinue == Of(82, <<0, 0, 0, 11, 114, 61>>)
SASLFinal == Of(82, <<0, 0, 0, 12, 118>>)
AuthenticationOk == Of(82, <<0, 0, 0, 0>>)
SASLResponse == Of(112, <<83, 0, 110>>)
LargeResponse == Of(112, <<83, 0, 110, 61>>)
ParameterStatus == Of(83, <<118, 0, 49, 53, 0>>)
BackendKeyData == Of(75, <<0, 0, 1, 2, 255, 3, 4, 5>>)
ReadyForQuery == Of(90, <<73>>)

Query == Of(81, <<97, 0>>)
Columns2 == <<0, 2, 105, 0>> \o [i \in 1 .. 18 |-> 1] \o <<0>> \o [i \in 1 .. 18 |-> 0]
RowDescription == Of(84, Columns2)
DataRow == Of(68, <<0, 3, 0, 0, 0, 2, 49, 50, 255, 255, 255, 255, 0, 0, 0, 0>>)
LargeRow == Of(68, <<0, 2, 255, 255, 255, 255, 0, 0, 0, 3, 49, 50, 51>>)
CommandComplete == Of(67, <<83, 0>>)

Parse == Of(80, <<115, 0, 36, 0, 0, 2, 0, 0, 0, 23, 0, 0, 0, 25>>)
Bind == Of(66, <<0, 115, 0, 0, 1, 0, 1, 0, 2, 0, 0, 0, 1, 55, 255, 255, 255, 255, 0, 1, 0, 1>>)
Describe == Of(68, <<83, 115, 0>>)
Execute == Of(69, <<0, 0, 0, 0, 0>>)
CloseStatement == Of(67, <<83, 115, 0>>)
Sync == Of(83, <<>>)
Flush == Of(72, <<>>)
ParseComplete == Of(49, <<>>)
BindComplete == Of(50, <<>>)
CloseComplete == Of(51, <<>>)
NoData == Of(110, <<>>)

CopyInResponse == Of(71, <<0, 0, 1, 0, 0>>)
CopyOutResponse == Of(72, <<0, 0, 1, 0, 0>>)
CopyData == Of(100, <<49, 10>>)
CopyFail == Of(102, <<110, 111, 0>>)
CopyDone == Of(99, <<>>)
ErrorResponse == Of(69, <<83, 69, 82, 82, 79, 82, 0, 67, 52, 50, 0, 77, 120, 0, 0>>)

FunctionCall == Of(70, <<0, 0, 0, 1, 0, 0, 0, 0, 0, 0>>)
FunctionResult == Of(86, <<255, 255, 255, 255>>)
Terminate == Of(88, <<>>)
Notice == Of(78, <<87, 0>>)
Notification == Of(65, <<110, 0>>)

NextQuery == Of(81, <<97, 97, 97, 97, 97, 97, 97, 97, 0>>)
CopiedNumbers == Of(100, <<255, 255, 255, 255, 0, 0, 0, 0, 0, 2, 0, 0>>)

SessionClient ==
    << Packet(SSLRequest, 0), Packet(StartupUser, 1), Msg(SASLResponse, 2), Msg(LargeResponse, 3),
       Msg(Query, 8), Msg(Parse, 12), Msg(Bind, 12), Msg(Describe, 12), Msg(Execute, 12),
       Msg(Flush, 12), Msg(CloseStatement, 17), Msg(Sync, 17), Msg(Query, 19),
       Msg(CopyData, 20), Msg(CopyFail, 20), Msg(Query, 22), Msg(FunctionCall, 27),
       Msg(Terminate, 29) >>
SessionServer ==
    << Packet(Refused, 1), Msg(SASL, 2), Msg(SASLContinue, 3), Msg(SASLFinal, 4),
       Msg(AuthenticationOk, 4), Msg(ParameterStatus, 4), Msg(BackendKeyData, 4),
       Msg(ReadyForQuery, 4), Msg(RowDescription, 5), Msg(DataRow, 5), Msg(CommandComplete, 5),
       Msg(ReadyForQuery, 5), Msg(ParseComplete, 10), Msg(BindComplete, 10), Msg(NoData, 10),
       Msg(LargeRow, 10), Msg(CommandComplete, 10), Msg(CloseComplete, 12), Msg(ReadyForQuery, 12),
       Msg(CopyInResponse, 13), Msg(ErrorResponse, 15), Msg(ReadyForQuery, 15),
       Msg(CopyOutResponse, 16), Msg(CopyData, 16), Msg(CopyDone, 16), Msg(CommandComplete, 16),
       Msg(ReadyForQuery, 16), Msg(FunctionResult, 17), Msg(ReadyForQuery, 17) >>

PipelinedClient == << Packet(StartupPacket, 0), Msg(Query, 2), Msg(NextQuery, 2) >>
PipelinedServer == << Msg(AuthenticationOk, 1), Msg(ReadyForQuery, 1), Msg(CopiedNumbers, 2) >>

NotifiedClient == << Packet(StartupPacket, 0), Msg(Query, 2), Msg(Terminate, 2) >>
NotifiedServer ==
    << Msg(AuthenticationOk, 1), Msg(ReadyForQuery, 1), Msg(Notification, 1) >>

NoticeClient == << Packet(StartupPacket, 0), Msg(Query, 3) >>
NoticeServer == << Msg(AuthenticationOk, 1), Msg(Notice, 1), Msg(ReadyForQuery, 1) >>

\* The conversations that the decoder is made for; the notice of the last may be cut.
ASSUME ConversationsAssumption ==
    /\ WellFormed(SessionClient, SessionServer)
    /\ WellFormed(PipelinedClient, PipelinedServer)
    /\ WellFormed(NotifiedClient, NotifiedServer)
    /\ ~WellFormed(NoticeClient, NoticeServer)
    /\ WalksStay
=============================================================================
