------------------------------- MODULE MCRelay -------------------------------
(***************************************************************************)
(* Sessions for Relay.  QueryTraffic: a query in two pieces, one behind it *)
(* and the end; the server answers with an error and a fatal one of two    *)
(* pieces each, which a read may tear apart, and the text of the query     *)
(* reads like the fatal one; the text of the error is not ASCII.           *)
(* CopyTraffic: data whose second piece begins with an X.                  *)
(***************************************************************************)
EXTENDS Relay

HeadPiece(byte, after) == [byte |-> byte, head |-> TRUE, fatal |-> FALSE, after |-> after]
BodyPiece(byte) == [byte |-> byte, head |-> FALSE, fatal |-> FALSE, after |-> 0]
FatalPiece == [byte |-> "F", head |-> FALSE, fatal |-> TRUE, after |-> 0]

QueryTraffic ==
    [client |-> << HeadPiece("Q", 0), FatalPiece, HeadPiece("Q", 0), HeadPiece("X", 1) >>,
     server |-> << HeadPiece("E", 1), BodyPiece("C3"), HeadPiece("E", 1), FatalPiece >>]

CopyTraffic ==
    [client |-> << HeadPiece("d", 0), BodyPiece("X"), BodyPiece("c"), HeadPiece("X", 1) >>,
     server |-> << HeadPiece("C", 3), HeadPiece("Z", 3) >>]
=============================================================================
