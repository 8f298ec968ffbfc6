------------------------------- MODULE Fields -------------------------------
(***************************************************************************)
(* The fields of a message, as fe_* and be_* walk them                     *)
(* (src/libpgprtdbg/protocol.c:407-1285) with the readers of utils.c.  What *)
(* a walk reads goes to the log; what matters to the decoder is how far it  *)
(* gets.  Each walk takes the buffer m, whose message begins at offset 0,   *)
(* and returns the offset behind the last byte it reads.  An offset beyond  *)
(* Len(m) says that it has read past the buffer, or written past the stack; *)
(* what is found there is not defined, and no walk comes back from there.   *)
(***************************************************************************)
EXTENDS Integers, Sequences

CONSTANTS
    ColumnRoom,   \* bytes that the stack has for the value of one column
    DumpRoom      \* bytes whose dump fits the buffer of pgprtdbg_log_mem

ASSUME FieldsAssumption == ColumnRoom \in Nat /\ DumpRoom \in Nat

Beyond(m) == Len(m) + 1

\* pgprtdbg_read_byte, without its sign.
Byte(m, o) == IF o < Len(m) THEN m[o + 1] ELSE 0

\* The sign of an integer is that of its first byte.
High(b) == IF b >= 128 THEN b - 256 ELSE b

\* pgprtdbg_read_int16: big-endian, signed.
Int16(m, o) == High(Byte(m, o)) * 256 + Byte(m, o + 1)

\* pgprtdbg_read_int32: big-endian, signed.
Int32(m, o) ==
    High(Byte(m, o)) * 16777216 + Byte(m, o + 1) * 65536 + Byte(m, o + 2) * 256
        + Byte(m, o + 3)

\* Behind n more bytes.
Skip(m, o, n) == IF o + n <= Len(m) THEN o + n ELSE Beyond(m)

\* Behind the terminator of a string: o += strlen(pgprtdbg_read_string(data + o)) + 1.
AfterString(m, o) ==
    LET ends == {e \in o .. Len(m) - 1 : m[e + 1] = 0}
    IN  IF ends = {} THEN Beyond(m) ELSE 1 + CHOOSE e \in ends : \A d \in ends : e <= d

\* A counted loop: n items, each of at least one byte.
Items(m, o, n, After(_)) ==
    LET at[i \in 0 .. n] == IF i = 0 THEN o ELSE After(at[i - 1])
    IN  IF n > Len(m) THEN Beyond(m) ELSE IF n <= 0 THEN o ELSE at[n]

\* A loop to a limit: while (o < limit).
Until(limit, from, last, After(_)) ==
    LET end[o \in from .. last] == IF o >= limit \/ o = last THEN o ELSE end[After(o)]
    IN  end[from]

Length(m) == Int32(m, 1)   \* behind the kind
Header == 5                \* o += 1, o += 4

-----------------------------------------------------------------------------
(* Frontend. *)

\* fe_zero: the scan for parameters leaves out the last byte; a cancel request has two
\* numbers.
FeZero(m) ==
    LET request == Int32(m, 4)
    IN  CASE request = 196608 /\ Int32(m, 0) > 9 -> Skip(m, Int32(m, 0), -1)
          [] request = 80877102 -> Skip(m, 8, 8)
          [] OTHER -> 8

\* fe_B: two strings, the format codes, the values and the formats of the results.
FeB(m) ==
    LET Code(o) == Skip(m, o, 2)
        Value(o) == IF Int32(m, o) > 0 THEN Skip(m, Skip(m, o, 4), Int32(m, o))
                                       ELSE Skip(m, o, 4)
        codes   == AfterString(m, AfterString(m, Header))
        values  == Items(m, Skip(m, codes, 2), Int16(m, codes), Code)
        results == Items(m, Skip(m, values, 2), Int16(m, values), Value)
    IN  Items(m, Skip(m, results, 2), Int16(m, results), Code)

\* fe_C and fe_D: portal or statement, and its name.
FeC(m) == AfterString(m, Header + 1)
FeD(m) == AfterString(m, Header + 1)

\* fe_E: the portal and the number of rows.
FeE(m) == Skip(m, AfterString(m, Header), 4)

\* fe_P: two strings and the types of the parameters.
FeP(m) ==
    LET parameters == AfterString(m, AfterString(m, Header))
    IN  Items(m, Skip(m, parameters, 2), Int16(m, parameters), LAMBDA o : Skip(m, o, 4))

\* fe_Q and fe_f: one string.
FeQ(m) == AfterString(m, Header)
Fef(m) == AfterString(m, Header)

\* fe_d: all of it.
Fed(m) == IF Length(m) > 4 THEN Skip(m, Header, Length(m) - 4) ELSE Header

\* fe_p: all of it as a dump, which is put together on the stack whatever its size is.  A
\* length below 4 makes a size of almost 2^64.
Fep(m) ==
    IF Length(m) - 4 \in 0 .. DumpRoom THEN Skip(m, Header, Length(m) - 4) ELSE Beyond(m)

\* The switch of pgprtdbg_client; H, S, X and c have nothing to read, fe_F is empty, and
\* an unsupported kind is not looked at.
FeFields(m) ==
    CASE m[1] = 66  -> FeB(m)
      [] m[1] = 67  -> FeC(m)
      [] m[1] = 68  -> FeD(m)
      [] m[1] = 69  -> FeE(m)
      [] m[1] = 80  -> FeP(m)
      [] m[1] = 81  -> FeQ(m)
      [] m[1] = 100 -> Fed(m)
      [] m[1] = 102 -> Fef(m)
      [] m[1] = 112 -> Fep(m)
      [] OTHER -> Header

-----------------------------------------------------------------------------
(* Backend. *)

\* be_C: the command tag.
BeC(m) == AfterString(m, Header)

\* Mutant of BeD: the length of a NULL is looked at and not passed.
BeDNullStays(m) ==
    LET Column(o) == IF Int32(m, o) = -1 THEN o ELSE Skip(m, Skip(m, o, 4), Int32(m, o))
    IN  Items(m, Skip(m, Header, 2), Int16(m, Header), Column)

\* be_D: the columns, NULL if the length is -1.  Each value has an array of its size on
\* the stack: a size below -1 is not defined, and one above the room ends in a fault.
Columns(m, room) ==
    LET Column(o) == CASE Int32(m, o) = -1 -> Skip(m, o, 4)
                       [] Int32(m, o) \in 0 .. room -> Skip(m, Skip(m, o, 4), Int32(m, o))
                       [] OTHER -> Beyond(m)
    IN  Items(m, Skip(m, Header, 2), Int16(m, Header), Column)

BeD(m) == Columns(m, ColumnRoom)

\* be_E: codes and values, as long as the offset is below length - 4.
BeE(m) ==
    Until(Length(m) - 4, Header, Beyond(m), LAMBDA o : AfterString(m, o + 1))

\* be_K: process and secret.
BeK(m) == Skip(m, Header, 8)

\* be_R: what follows the type.  A list of mechanisms is read below length - 8.
BeR(m) ==
    LET type == Int32(m, Header)
        body == Skip(m, Header, 4)
    IN  CASE type = 5 -> Skip(m, body, 4)
          [] type = 10 /\ body <= Len(m) ->
                Skip(m, Until(Length(m) - 8, body, Beyond(m), LAMBDA o : AfterString(m, o)), 1)
          [] type \in {11, 12} -> Skip(m, body, Length(m) - 8)
          [] OTHER -> body

\* be_S: name and value.
BeS(m) == AfterString(m, AfterString(m, Header))

\* be_T: per field a name and six numbers.
BeT(m) ==
    Items(m, Skip(m, Header, 2), Int16(m, Header), LAMBDA o : Skip(m, AfterString(m, o), 18))

\* be_Z: the state of the transaction.
BeZ(m) == Skip(m, Header, 1)

\* be_d: all of it.
Bed(m) == IF Length(m) > 4 THEN Skip(m, Header, Length(m) - 4) ELSE Header

\* The switch of pgprtdbg_server; the other kinds have nothing the code reads.
BeFields(m) ==
    CASE m[1] = 67  -> BeC(m)
      [] m[1] = 68  -> BeD(m)
      [] m[1] = 69  -> BeE(m)
      [] m[1] = 75  -> BeK(m)
      [] m[1] = 82  -> BeR(m)
      [] m[1] = 83  -> BeS(m)
      [] m[1] = 84  -> BeT(m)
      [] m[1] = 90  -> BeZ(m)
      [] m[1] = 100 -> Bed(m)
      [] OTHER -> Header

-----------------------------------------------------------------------------
(* Messages that are what they should be, but too large for the stack. *)

TooLargeFe(m) == m[1] = 112 /\ Length(m) - 4 > DumpRoom
TooLargeBe(m) == m[1] = 68 /\ Columns(m, ColumnRoom) > Len(m) /\ Columns(m, Len(m)) <= Len(m)
=============================================================================
