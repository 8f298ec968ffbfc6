---------------------------- MODULE DecoderProofs ----------------------------
(***************************************************************************)
(* Proofs about Decoder: its type, and, for the conversations it is made   *)
(* for, that each iteration takes one message, that the trace is faithful  *)
(* and complete and that nothing but a message too large for the stack     *)
(* stops the decoder, as long as the two directions do not meet in the     *)
(* buffer.                                                                 *)
(***************************************************************************)
EXTENDS Decoder, Lemmas, FiniteSetTheorems

-----------------------------------------------------------------------------
(* The streams: where messages begin and end. *)

\* What a script is made of.
LEMMA ScriptType ==
  ASSUME NEW side \in Sides
  PROVE  /\ Script(side) \in Seq(Message) /\ Len(Script(side)) \in Nat
         /\ DOMAIN Script(side) = 1 .. Len(Script(side))
         /\ \A i \in 1 .. Len(Script(side)) :
               /\ Script(side)[i] \in Message
               /\ Script(side)[i].bytes \in Seq(0 .. 255) /\ Len(Script(side)[i].bytes) \in Nat
               /\ Len(Script(side)[i].bytes) > 0
               /\ Script(side)[i].line \in 0 .. 255 /\ Script(side)[i].after \in Nat
<1>1. PICK s : s = Script(side)
  OBVIOUS
<1>2. s \in Seq(Message) /\ \A i \in DOMAIN s : s[i].bytes # <<>>
  BY <1>1, DecoderAssumption DEF Script
<1>3. Len(s) \in Nat /\ DOMAIN s = 1 .. Len(s)
  BY <1>2
<1>4. ASSUME NEW i \in 1 .. Len(s)
      PROVE  /\ s[i] \in Message
             /\ s[i].bytes \in Seq(0 .. 255) /\ Len(s[i].bytes) \in Nat /\ Len(s[i].bytes) > 0
             /\ s[i].line \in 0 .. 255 /\ s[i].after \in Nat
  <2>1. s[i] \in Message
    BY <1>2
  <2>2. PICK b : b = s[i].bytes
    OBVIOUS
  <2>3. b \in Seq(0 .. 255) /\ b # <<>> /\ s[i].line \in 0 .. 255 /\ s[i].after \in Nat
    BY <1>2, <1>3, <2>1, <2>2 DEF Message
  <2>4. Len(b) \in Nat /\ Len(b) > 0
    <3>1. Len(b) \in Nat
      BY <2>3
    <3>2. Len(b) # 0
      BY <2>3, EmptySeq
    <3> QED BY <3>1, <3>2
  <2> QED BY <2>1, <2>2, <2>3, <2>4
<1> QED BY <1>1, <1>2, <1>3, <1>4

\* The bytes of the messages of a side, one sequence each.
Parts(side) == [i \in 1 .. Len(Script(side)) |-> Script(side)[i].bytes]

\* Their type and number.
LEMMA PartsType ==
  ASSUME NEW side \in Sides
  PROVE  /\ Parts(side) \in Seq(Seq(0 .. 255)) /\ Len(Parts(side)) = Len(Script(side))
         /\ \A i \in 1 .. Len(Script(side)) : Parts(side)[i] = Script(side)[i].bytes
<1>1. PICK s, n, B, p : s = Script(side) /\ n = Len(s) /\ B = Seq(0 .. 255) /\ p = Parts(side)
  OBVIOUS
<1>2. n \in Nat /\ \A i \in 1 .. n : s[i].bytes \in B
  BY <1>1, ScriptType
<1>3. p = [i \in 1 .. n |-> s[i].bytes]
  BY <1>1 DEF Parts
<1>4. p \in Seq(B) /\ Len(p) = n /\ \A i \in 1 .. n : p[i] = s[i].bytes
  BY <1>2, <1>3
<1> QED BY <1>1, <1>4

\* The stream of a side, and its prefixes at the ends of messages, are flattened parts.
LEMMA StreamPrefix ==
  ASSUME NEW side \in Sides
  PROVE  /\ Stream(side) = FlattenSeq(Parts(side))
         /\ \A k \in 0 .. Len(Script(side)) :
               Bytes(SubSeq(Script(side), 1, k)) = Flat(Parts(side), k)
<1>1. PICK s, n, p : s = Script(side) /\ n = Len(s) /\ p = Parts(side)
  OBVIOUS
<1>2. s \in Seq(Message) /\ n \in Nat /\ DOMAIN s = 1 .. n
  BY <1>1, ScriptType
<1>3. p \in Seq(Seq(0 .. 255)) /\ Len(p) = n /\ \A i \in 1 .. n : p[i] = s[i].bytes
  BY <1>1, PartsType
<1>4. p = [i \in DOMAIN s |-> s[i].bytes]
  BY <1>1, <1>2 DEF Parts
<1>5. Stream(side) = FlattenSeq(p)
  BY <1>1, <1>4 DEF Stream, Bytes
<1>6. ASSUME NEW k \in 0 .. n PROVE Bytes(SubSeq(s, 1, k)) = Flat(p, k)
  <2>1. PICK t : t = SubSeq(s, 1, k)
    OBVIOUS
  <2>2. t \in Seq(Message) /\ Len(t) = k /\ DOMAIN t = 1 .. k /\ \A i \in 1 .. k : t[i] = s[i]
    BY <1>1, <1>2, <2>1
  <2>3. SubSeq(p, 1, k) = [i \in 1 .. k |-> p[i]]
    BY <1>3
  <2>4. SubSeq(p, 1, k) = [i \in DOMAIN t |-> t[i].bytes]
    <3>1. \A i \in 1 .. k : p[i] = t[i].bytes
      BY <1>2, <1>3, <2>2
    <3>2. [i \in 1 .. k |-> p[i]] = [i \in 1 .. k |-> t[i].bytes]
      BY <3>1, Zenon
    <3> QED BY <2>2, <2>3, <3>2, Zenon
  <2> QED BY <2>1, <2>4 DEF Bytes, Flat
<1> QED BY <1>1, <1>5, <1>6

\* Where messages end in the stream of their side, and what the stream has there.
LEMMA StreamFacts ==
  ASSUME NEW side \in Sides
  PROVE  /\ Stream(side) \in Seq(0 .. 255) /\ Len(Stream(side)) \in Nat
         /\ End(side, 0) = 0 /\ End(side, Len(Script(side))) = Len(Stream(side))
         /\ \A k \in 0 .. Len(Script(side)) : End(side, k) \in Nat
         /\ \A k \in 0 .. Len(Script(side)) - 1 :
               End(side, k + 1) = End(side, k) + Len(Script(side)[k + 1].bytes)
         /\ \A k \in 0 .. Len(Script(side)) : \A j \in k .. Len(Script(side)) :
               End(side, k) <= End(side, j)
         /\ \A k \in 0 .. Len(Script(side)) - 1 : \A i \in 1 .. Len(Script(side)[k + 1].bytes) :
               Stream(side)[End(side, k) + i] = Script(side)[k + 1].bytes[i]
<1>1. PICK s, n, p : s = Script(side) /\ n = Len(s) /\ p = Parts(side)
  OBVIOUS
<1>2. /\ n \in Nat
      /\ \A i \in 1 .. n : s[i].bytes \in Seq(0 .. 255) /\ Len(s[i].bytes) \in Nat
  BY <1>1, ScriptType
<1>3. p \in Seq(Seq(0 .. 255)) /\ Len(p) = n /\ \A i \in 1 .. n : p[i] = s[i].bytes
  BY <1>1, PartsType
<1>4. \A k \in 0 .. n : End(side, k) = Len(Flat(p, k))
  BY <1>1, StreamPrefix DEF End
<1>5. /\ Flat(p, 0) = <<>> /\ Flat(p, n) = Stream(side)
      /\ \A k \in 0 .. n - 1 : Flat(p, k + 1) = Flat(p, k) \o p[k + 1]
      /\ \A k \in 0 .. n : Flat(p, k) \in Seq(0 .. 255)
  BY <1>1, <1>3, StreamPrefix, FlatSteps
<1>6. 0 \in 0 .. n /\ n \in 0 .. n
  BY <1>2
<1>7. \A k \in 0 .. n : End(side, k) \in Nat
  BY <1>4, <1>5, LenProperties
<1>8. Stream(side) \in Seq(0 .. 255) /\ Len(Stream(side)) \in Nat
  BY <1>5, <1>6, LenProperties
<1>9. End(side, 0) = 0 /\ End(side, n) = Len(Stream(side))
  BY <1>4, <1>5, <1>6
<1>10. ASSUME NEW k \in 0 .. n - 1
       PROVE  /\ End(side, k + 1) = End(side, k) + Len(s[k + 1].bytes)
              /\ \A i \in 1 .. Len(s[k + 1].bytes) :
                    Flat(p, k + 1)[End(side, k) + i] = s[k + 1].bytes[i]
  <2>1. k \in 0 .. n /\ k + 1 \in 0 .. n /\ k + 1 \in 1 .. n
    BY <1>2
  <2>2. PICK f, x : f = Flat(p, k) /\ x = s[k + 1].bytes
    OBVIOUS
  <2>3. f \in Seq(0 .. 255) /\ x \in Seq(0 .. 255) /\ p[k + 1] = x
    BY <1>2, <1>3, <1>5, <2>1, <2>2
  <2>4. Flat(p, k + 1) = f \o x
    BY <1>5, <2>2, <2>3
  <2>5. Len(f \o x) = Len(f) + Len(x) /\ \A i \in 1 .. Len(x) : (f \o x)[Len(f) + i] = x[i]
    BY <2>3
  <2>6. End(side, k) = Len(f) /\ End(side, k + 1) = Len(f \o x)
    BY <1>4, <2>1, <2>2, <2>4
  <2> QED BY <2>2, <2>4, <2>5, <2>6
<1>11. ASSUME NEW k \in 0 .. n, NEW j \in k .. n PROVE End(side, k) <= End(side, j)
  <2>1. j \in 0 .. n
    BY <1>2
  <2>2. Len(Flat(p, k)) <= Len(Flat(p, j))
    BY <1>3, FlatGrows
  <2> QED BY <1>4, <2>1, <2>2
<1>12. ASSUME NEW k \in 0 .. n - 1, NEW i \in 1 .. Len(s[k + 1].bytes)
       PROVE  Stream(side)[End(side, k) + i] = s[k + 1].bytes[i]
  <2>1. k \in 0 .. n /\ k + 1 \in 0 .. n /\ n \in k + 1 .. n /\ k + 1 \in 1 .. n
    BY <1>2
  <2>2. PICK e : e = End(side, k) + i
    OBVIOUS
  <2>3. e \in 1 .. Len(Flat(p, k + 1))
    <3>1. /\ End(side, k) \in Nat /\ Len(s[k + 1].bytes) \in Nat
          /\ End(side, k + 1) = End(side, k) + Len(s[k + 1].bytes)
          /\ End(side, k + 1) = Len(Flat(p, k + 1))
      BY <1>2, <1>4, <1>7, <1>10, <2>1
    <3> QED BY <2>2, <3>1
  <2>4. Flat(p, n)[e] = Flat(p, k + 1)[e]
    BY <1>3, <2>1, <2>3, FlatGrows
  <2> QED BY <1>5, <1>10, <2>2, <2>4
<1> QED BY <1>1, <1>7, <1>8, <1>9, <1>10, <1>11, <1>12


-----------------------------------------------------------------------------
(* The lines: the kinds of the first messages of a side. *)

Kind(m) == IF m.line = NoLine THEN <<>> ELSE <<m.line>>
Kinds(side) == [i \in 1 .. Len(Script(side)) |-> Kind(Script(side)[i])]
FirstKinds(side, k) == KindsOf(SubSeq(Script(side), 1, k))

\* Their type and number.
LEMMA KindsType ==
  ASSUME NEW side \in Sides
  PROVE  /\ Kinds(side) \in Seq(Seq(0 .. 255)) /\ Len(Kinds(side)) = Len(Script(side))
         /\ \A i \in 1 .. Len(Script(side)) :
               /\ Kind(Script(side)[i]) \in Seq(0 .. 255)
               /\ Kinds(side)[i] = Kind(Script(side)[i])
<1>1. PICK s, n, B, p : s = Script(side) /\ n = Len(s) /\ B = Seq(0 .. 255) /\ p = Kinds(side)
  OBVIOUS
<1>2. n \in Nat /\ \A i \in 1 .. n : s[i].line \in 0 .. 255
  BY <1>1, ScriptType
<1>3. ASSUME NEW i \in 1 .. n PROVE Kind(s[i]) \in B
  <2>1. PICK l : l = s[i].line
    OBVIOUS
  <2>2. l \in 0 .. 255 /\ <<l>> \in Seq(0 .. 255)
    BY <1>2, <2>1
  <2>3. <<>> \in Seq(0 .. 255)
    BY EmptySeq, Zenon
  <2> QED BY <1>1, <2>1, <2>2, <2>3 DEF Kind
<1>4. p = [i \in 1 .. n |-> Kind(s[i])]
  BY <1>1 DEF Kinds
<1>5. p \in Seq(B) /\ Len(p) = n /\ \A i \in 1 .. n : p[i] = Kind(s[i])
  BY <1>2, <1>3, <1>4
<1> QED BY <1>1, <1>3, <1>5

\* The kinds of the first messages are flattened kinds.
LEMMA KindsPrefix ==
  ASSUME NEW side \in Sides
  PROVE  /\ KindsOf(Script(side)) = FlattenSeq(Kinds(side))
         /\ \A k \in 0 .. Len(Script(side)) : FirstKinds(side, k) = Flat(Kinds(side), k)
<1>1. PICK s, n, p : s = Script(side) /\ n = Len(s) /\ p = Kinds(side)
  OBVIOUS
<1>2. s \in Seq(Message) /\ n \in Nat /\ DOMAIN s = 1 .. n
  BY <1>1, ScriptType
<1>3. p \in Seq(Seq(0 .. 255)) /\ Len(p) = n /\ \A i \in 1 .. n : p[i] = Kind(s[i])
  BY <1>1, KindsType
<1>4. p = [i \in DOMAIN s |-> IF s[i].line = NoLine THEN <<>> ELSE <<s[i].line>>]
  BY <1>1, <1>2 DEF Kinds, Kind
<1>5. KindsOf(s) = FlattenSeq(p)
  BY <1>4, Zenon DEF KindsOf
<1>6. ASSUME NEW k \in 0 .. n PROVE KindsOf(SubSeq(s, 1, k)) = Flat(p, k)
  <2>1. PICK t : t = SubSeq(s, 1, k)
    OBVIOUS
  <2>2. t \in Seq(Message) /\ Len(t) = k /\ DOMAIN t = 1 .. k /\ \A i \in 1 .. k : t[i] = s[i]
    BY <1>1, <1>2, <2>1
  <2>3. SubSeq(p, 1, k) = [i \in 1 .. k |-> p[i]]
    BY <1>3
  <2>4. SubSeq(p, 1, k) = [i \in DOMAIN t |-> Kind(t[i])]
    <3>1. \A i \in 1 .. k : p[i] = Kind(t[i])
      BY <1>2, <1>3, <2>2
    <3>2. [i \in 1 .. k |-> p[i]] = [i \in 1 .. k |-> Kind(t[i])]
      BY <3>1, Zenon
    <3> QED BY <2>2, <2>3, <3>2, Zenon
  <2>5. KindsOf(t) = FlattenSeq(SubSeq(p, 1, k))
    BY <2>4, Zenon DEF KindsOf, Kind
  <2> QED BY <2>1, <2>5 DEF Flat
<1> QED BY <1>1, <1>5, <1>6 DEF FirstKinds

\* The kinds of the first messages are a beginning of all of them, and grow by the next
\* message's.
LEMMA KindsFacts ==
  ASSUME NEW side \in Sides
  PROVE  /\ KindsOf(Script(side)) \in Seq(0 .. 255) /\ FirstKinds(side, 0) = <<>>
         /\ \A k \in 0 .. Len(Script(side)) :
               /\ FirstKinds(side, k) \in Seq(0 .. 255)
               /\ Len(FirstKinds(side, k)) <= Len(KindsOf(Script(side)))
               /\ \A i \in 1 .. Len(FirstKinds(side, k)) :
                     KindsOf(Script(side))[i] = FirstKinds(side, k)[i]
         /\ \A k \in 0 .. Len(Script(side)) - 1 :
               FirstKinds(side, k + 1) = FirstKinds(side, k) \o Kind(Script(side)[k + 1])
<1>1. PICK s, n, p : s = Script(side) /\ n = Len(s) /\ p = Kinds(side)
  OBVIOUS
<1>2. n \in Nat
  BY <1>1, ScriptType
<1>3. p \in Seq(Seq(0 .. 255)) /\ Len(p) = n /\ \A i \in 1 .. n : p[i] = Kind(s[i])
  BY <1>1, KindsType
<1>4. \A k \in 0 .. n : FirstKinds(side, k) = Flat(p, k)
  BY <1>1, KindsPrefix
<1>5. /\ Flat(p, 0) = <<>> /\ Flat(p, n) = KindsOf(s)
      /\ \A k \in 0 .. n - 1 : Flat(p, k + 1) = Flat(p, k) \o p[k + 1]
      /\ \A k \in 0 .. n : Flat(p, k) \in Seq(0 .. 255)
  BY <1>1, <1>3, KindsPrefix, FlatSteps
<1>6. 0 \in 0 .. n /\ n \in 0 .. n
  BY <1>2
<1>7. KindsOf(s) \in Seq(0 .. 255) /\ FirstKinds(side, 0) = <<>>
  BY <1>4, <1>5, <1>6
<1>8. ASSUME NEW k \in 0 .. n
      PROVE  /\ FirstKinds(side, k) \in Seq(0 .. 255)
             /\ Len(FirstKinds(side, k)) <= Len(KindsOf(s))
             /\ \A i \in 1 .. Len(FirstKinds(side, k)) : KindsOf(s)[i] = FirstKinds(side, k)[i]
  <2>1. n \in k .. n
    BY <1>2
  <2>2. /\ Len(Flat(p, k)) <= Len(Flat(p, n))
        /\ \A i \in 1 .. Len(Flat(p, k)) : Flat(p, n)[i] = Flat(p, k)[i]
    BY <1>3, <2>1, FlatGrows
  <2> QED BY <1>4, <1>5, <2>2
<1>9. ASSUME NEW k \in 0 .. n - 1
      PROVE  FirstKinds(side, k + 1) = FirstKinds(side, k) \o Kind(s[k + 1])
  <2>1. k \in 0 .. n /\ k + 1 \in 0 .. n /\ k + 1 \in 1 .. n
    BY <1>2
  <2> QED BY <1>3, <1>4, <1>5, <2>1
<1> QED BY <1>1, <1>7, <1>8, <1>9

\* The lines of a side in a trace.
Mine(side, line) == IF line[1] = side THEN <<line[2]>> ELSE <<>>
TracedIn(t, side) == FlattenSeq([i \in DOMAIN t |-> Mine(side, t[i])])
Lines == Seq(Sides \X (1 .. 255))

\* A line more in a trace.
LEMMA TracedStep ==
  ASSUME NEW t \in Lines, NEW side \in Sides, NEW line \in Sides \X (1 .. 255)
  PROVE  /\ TracedIn(t, side) \in Seq(0 .. 255)
         /\ TracedIn(Append(t, line), side) = TracedIn(t, side) \o Mine(side, line)
<1>1. PICK n, u, L : n = Len(t) /\ u = Append(t, line) /\ L = Sides \X (1 .. 255)
  OBVIOUS
<1>2. /\ t \in Seq(L) /\ n \in Nat /\ u \in Seq(L) /\ DOMAIN t = 1 .. n /\ DOMAIN u = 1 .. n + 1
      /\ \A i \in 1 .. n : t[i] \in L /\ u[i] = t[i]
      /\ u[n + 1] = line
  <2>1. t \in Seq(L) /\ line \in L
    BY <1>1, Zenon DEF Lines
  <2>2. u \in Seq(L) /\ n \in Nat /\ Len(u) = n + 1 /\ u[n + 1] = line
    BY <1>1, <2>1
  <2>3. DOMAIN t = 1 .. n /\ DOMAIN u = 1 .. n + 1
    BY <1>1, <2>1, <2>2
  <2>4. \A i \in 1 .. n : t[i] \in L /\ u[i] = t[i]
    BY <1>1, <2>1
  <2> QED BY <2>1, <2>2, <2>3, <2>4
<1>3. \A l \in L : Mine(side, l) \in Seq(0 .. 255)
  <2>1. <<>> \in Seq(0 .. 255)
    BY EmptySeq, Zenon
  <2>2. ASSUME NEW l \in L PROVE Mine(side, l) \in Seq(0 .. 255)
    <3>1. PICK x : x = l[2]
      OBVIOUS
    <3>2. x \in 0 .. 255
      BY <1>1, <3>1
    <3>3. <<x>> \in Seq(0 .. 255)
      BY <3>2
    <3> QED BY <2>1, <3>1, <3>3 DEF Mine
  <2> QED BY <2>2
<1>4. PICK p, x, B : /\ p = [i \in 1 .. n |-> Mine(side, t[i])] /\ x = Mine(side, line)
                     /\ B = Seq(0 .. 255)
  OBVIOUS
<1>5. p \in Seq(B) /\ Len(p) = n /\ x \in B /\ \A i \in 1 .. n : p[i] = Mine(side, t[i])
  <2>1. x \in B
    BY <1>1, <1>3, <1>4, Zenon
  <2>2. \A i \in 1 .. n : Mine(side, t[i]) \in B
    BY <1>2, <1>3, <1>4, Zenon
  <2> QED BY <1>2, <1>4, <2>1, <2>2
<1>6. [i \in DOMAIN u |-> Mine(side, u[i])] = Append(p, x)
  <2>1. PICK q : q = Append(p, x)
    OBVIOUS
  <2>2. /\ q = [i \in 1 .. n + 1 |-> q[i]] /\ q[n + 1] = x
        /\ \A i \in 1 .. n : q[i] = p[i]
    <3>1. p \in Seq(B) /\ x \in B /\ Len(p) = n /\ n \in Nat
      BY <1>2, <1>5
    <3>2. q \in Seq(B) /\ Len(q) = n + 1 /\ q[n + 1] = x
      BY <2>1, <3>1
    <3>3. \A i \in 1 .. n : q[i] = p[i]
      BY <2>1, <3>1
    <3>4. q = [i \in 1 .. n + 1 |-> q[i]]
      BY <3>1, <3>2
    <3> QED BY <3>2, <3>3, <3>4
  <2>3. ASSUME NEW i \in 1 .. n + 1 PROVE q[i] = Mine(side, u[i])
    <3>1. CASE i = n + 1
      BY <1>2, <1>4, <2>2, <3>1
    <3>2. CASE i # n + 1
      <4>1. i \in 1 .. n
        BY <1>2, <3>2
      <4> QED BY <1>2, <1>5, <2>2, <4>1, Zenon
    <3> QED BY <3>1, <3>2
  <2>4. [i \in 1 .. n + 1 |-> q[i]] = [i \in 1 .. n + 1 |-> Mine(side, u[i])]
    BY <2>3, Zenon
  <2> QED BY <1>2, <2>1, <2>2, <2>4, Zenon
<1>7. FlattenSeq(Append(p, x)) = FlattenSeq(p) \o x
  <2>1. p \in Seq(Seq(0 .. 255)) /\ x \in Seq(0 .. 255)
    BY <1>4, <1>5, Zenon
  <2> QED BY <2>1, FlattenAppend
<1>8. TracedIn(t, side) = FlattenSeq(p)
  BY <1>2, <1>4, Zenon DEF TracedIn
<1>9. FlattenSeq(p) \in Seq(0 .. 255)
  <2>1. p \in Seq(Seq(0 .. 255)) /\ Len(p) \in 0 .. Len(p)
    BY <1>2, <1>4, <1>5
  <2> QED BY <2>1, FlatSteps
<1> QED BY <1>1, <1>4, <1>6, <1>7, <1>8, <1>9, Zenon DEF TracedIn

-----------------------------------------------------------------------------
(* The messages that have arrived. *)

DeliveredAt(side, p) == Cardinality({k \in DOMAIN Script(side) : End(side, k) <= p})

\* The messages that have arrived are the first ones, up to the last that ends in what
\* has been read.
LEMMA DeliveredFacts ==
  ASSUME NEW side \in Sides, NEW p \in 0 .. Len(Stream(side))
  PROVE  /\ DeliveredAt(side, p) \in 0 .. Len(Script(side))
         /\ \A k \in 0 .. Len(Script(side)) : k <= DeliveredAt(side, p) <=> End(side, k) <= p
<1>1. PICK n, E : n = Len(Script(side)) /\ E = [k \in 0 .. n |-> End(side, k)]
  OBVIOUS
<1>2. n \in Nat /\ DOMAIN Script(side) = 1 .. n
  BY <1>1, ScriptType
<1>3. \A k \in 0 .. n : E[k] = End(side, k)
  BY <1>1
<1>4. /\ E[0] = 0 /\ p <= E[n] /\ p \in Nat
      /\ \A k \in 0 .. n : E[k] \in Nat /\ \A j \in k .. n : E[k] <= E[j]
  <2>1. /\ Len(Stream(side)) \in Nat
        /\ End(side, 0) = 0 /\ End(side, n) = Len(Stream(side))
        /\ \A k \in 0 .. n : End(side, k) \in Nat
        /\ \A k \in 0 .. n : \A j \in k .. n : End(side, k) <= End(side, j)
    BY <1>1, StreamFacts
  <2>2. 0 \in 0 .. n /\ n \in 0 .. n /\ \A k \in 0 .. n : \A j \in k .. n : j \in 0 .. n
    BY <1>2
  <2> QED BY <1>3, <2>1, <2>2
<1> DEFINE T == {k \in 0 .. n : k = n \/ p < E[k + 1]}
<1>5. PICK d \in T : \A y \in T : d <= y
  <2>1. T \subseteq Nat /\ n \in T
    BY <1>2
  <2> HIDE DEF T
  <2> QED BY <2>1, LeastNatural
<1>6. d \in 0 .. n /\ E[d] <= p
  <2>1. CASE d = 0
    BY <1>2, <1>4, <2>1
  <2>2. CASE d # 0
    <3>1. d - 1 \in 0 .. n /\ d - 1 # n /\ ~(d <= d - 1) /\ (d - 1) + 1 = d
      BY <1>2, <1>5, <2>2
    <3>2. d - 1 \notin T
      BY <1>5, <3>1
    <3>3. ~(p < E[d])
      BY <3>1, <3>2
    <3>4. d \in 0 .. n
      BY <1>5
    <3> QED BY <1>4, <3>3, <3>4
  <2> QED BY <2>1, <2>2
<1>7. \A k \in 0 .. n : k <= d <=> E[k] <= p
  <2>1. ASSUME NEW k \in 0 .. n, k <= d PROVE E[k] <= p
    <3>1. d \in k .. n
      BY <1>2, <1>6, <2>1
    <3>2. E[k] \in Nat /\ E[d] \in Nat /\ E[k] <= E[d]
      BY <1>4, <1>6, <3>1
    <3> QED BY <1>4, <1>6, <3>2
  <2>2. ASSUME NEW k \in 0 .. n, ~(k <= d) PROVE ~(E[k] <= p)
    <3>1. k \in d + 1 .. n /\ d + 1 \in 0 .. n /\ d # n
      BY <1>2, <1>6, <2>2
    <3>2. p < E[d + 1]
      BY <1>5, <3>1
    <3>3. E[d + 1] \in Nat /\ E[k] \in Nat /\ E[d + 1] <= E[k]
      BY <1>4, <3>1
    <3> QED BY <1>4, <3>2, <3>3
  <2> QED BY <2>1, <2>2
<1>8. {k \in DOMAIN Script(side) : End(side, k) <= p} = 1 .. d
  <2>1. \A k \in 1 .. n : k \in 0 .. n
    BY <1>2
  <2>2. \A k \in 1 .. n : End(side, k) <= p <=> k <= d
    BY <1>3, <1>7, <2>1
  <2>3. \A k : k \in 1 .. d <=> k \in 1 .. n /\ k <= d
    BY <1>2, <1>6
  <2> QED BY <1>2, <2>2, <2>3
<1>9. DeliveredAt(side, p) = d
  <2>1. Cardinality(1 .. d) = IF 1 > d THEN 0 ELSE d - 1 + 1
    BY <1>6, FS_Interval
  <2>2. Cardinality(1 .. d) = d
    BY <1>6, <2>1
  <2> QED BY <1>8, <2>2 DEF DeliveredAt
<1> QED BY <1>1, <1>3, <1>6, <1>7, <1>9


-----------------------------------------------------------------------------
(* Types. *)

\* Numbers read out of bytes.
LEMMA NumberType ==
  ASSUME NEW m \in Seq(0 .. 255), NEW o \in Nat
  PROVE  Byte(m, o) \in 0 .. 255 /\ Int32(m, o) \in Int
<1>1. ASSUME NEW e \in Nat PROVE Byte(m, e) \in 0 .. 255
  <2>1. e < Len(m) => e + 1 \in 1 .. Len(m)
    BY LenProperties
  <2> QED BY <2>1, ElementOfSeq DEF Byte
<1>2. PICK a, b, c, d : /\ a = Byte(m, o) /\ b = Byte(m, o + 1) /\ c = Byte(m, o + 2)
                        /\ d = Byte(m, o + 3)
  OBVIOUS
<1>3. a \in 0 .. 255 /\ b \in 0 .. 255 /\ c \in 0 .. 255 /\ d \in 0 .. 255
  BY <1>1, <1>2
<1>4. High(a) \in Int
  BY <1>3 DEF High
<1>5. Int32(m, o) \in Int
  BY <1>2, <1>3, <1>4 DEF Int32
<1> QED BY <1>1, <1>5

\* What pgprtdbg_data_remove leaves.
LEMMA RemoveType ==
  ASSUME data \in Seq(0 .. 255), NEW n \in Nat, n <= Len(data)
  PROVE  DataRemove(n) \in Seq(0 .. 255) /\ Len(DataRemove(n)) = Len(data) - n
<1>1. PICK b : b = data
  OBVIOUS
<1>2. SubSeq(b, n + 1, Len(b)) \in Seq(0 .. 255) /\ Len(SubSeq(b, n + 1, Len(b))) = Len(b) - n
  <2>1. Len(b) \in Nat /\ n \in Nat /\ n <= Len(b)
    BY <1>1, LenProperties
  <2>2. b \in Seq(0 .. 255) /\ Len(b) <= Len(b)
    BY <1>1, <2>1
  <2> QED BY <2>1, <2>2, Between, Zenon
<1> QED BY <1>1, <1>2 DEF DataRemove

\* The sizes the handlers read are numbers, and not negative where bytes are taken off.
LEMMA SizeType ==
  ASSUME data \in Seq(0 .. 255)
  PROVE  /\ PacketSize \in Int /\ Size \in Int /\ Request \in Int /\ Len(data) \in Nat
         /\ IsMessage => Size \in Nat /\ Size <= Len(data)
         /\ IsStartup => PacketSize \in Nat
<1>1. PacketSize \in Int /\ Size \in Int /\ Request \in Int /\ Len(data) \in Nat
  BY NumberType DEF PacketSize, Size, Request, Length
<1>2. IsMessage => Size \in Nat /\ Size <= Len(data)
  BY <1>1 DEF IsMessage, Size
<1>3. IsStartup => PacketSize \in Nat
  <2> SUFFICES ASSUME IsStartup PROVE PacketSize \in Nat
    OBVIOUS
  <2>1. PICK a, b, c, d : /\ a = Byte(data, 0) /\ b = Byte(data, 0 + 1)
                          /\ c = Byte(data, 0 + 2) /\ d = Byte(data, 0 + 3)
    OBVIOUS
  <2>2. b \in 0 .. 255 /\ c \in 0 .. 255 /\ d \in 0 .. 255
    BY <2>1, NumberType
  <2>3. a = 0
    BY <2>1 DEF IsStartup, Byte
  <2>4. High(a) = 0
    BY <2>3 DEF High
  <2>5. PacketSize = High(a) * 16777216 + b * 65536 + c * 256 + d
    BY <2>1 DEF PacketSize, Int32
  <2> QED BY <2>2, <2>4, <2>5
<1> QED BY <1>1, <1>2, <1>3

\* The initial values have their types.
LEMMA TypeInit ==
  ASSUME Init
  PROVE  TypeOK
<1>1. \A side \in Sides : pos[side] \in 0 .. Len(Stream(side))
  <2> TAKE side \in Sides
  <2>1. Len(Stream(side)) \in Nat
    BY StreamFacts
  <2> QED BY <2>1 DEF Init
<1>2. DOMAIN pos = Sides /\ pos["client"] = 0 /\ pos["server"] = 0
  BY DEF Init, Sides
<1>3. data = <<>> /\ trace = <<>> /\ Len(data) = 0
  BY DEF Init
<1>4. <<>> \in Seq(0 .. 255) /\ <<>> \in Seq(Sides \X (1 .. 255))
  BY EmptySeq, Zenon
<1>5. {refused, mixed, cut} \subseteq BOOLEAN
  BY Zenon DEF Init
<1>6. splits \in 0 .. MaxSplits
  BY DecoderAssumption DEF Init
<1> QED BY <1>1, <1>2, <1>3, <1>4, <1>5, <1>6 DEF TypeOK, Init

\* A chunk fits into its stream, and the buffer grows by it.
LEMMA TypeRead ==
  ASSUME TypeOK, NEW side \in Sides, Read(side)
  PROVE  TypeOK'
<1>1. PICK n \in 1 .. MaxChunk :
        /\ pos[side] + n <= Len(Stream(side))
        /\ splits' = IF Orderly \/ Boundary(side, pos[side] + n) THEN splits ELSE splits + 1
        /\ splits' <= MaxSplits
        /\ data' = DataAppend(SubSeq(Stream(side), pos[side] + 1, pos[side] + n))
        /\ pos' = [pos EXCEPT ![side] = @ + n]
        /\ pc' = side
        /\ mixed' = (mixed \/ ~AtBoundary(Other(side)))
        /\ cut' = (cut \/ Cuts(side, n))
        /\ UNCHANGED <<trace, refused>>
  BY Zenon DEF Read
<1>2. PICK st, p, b : st = Stream(side) /\ p = pos[side] /\ b = data
  OBVIOUS
<1>3. /\ st \in Seq(0 .. 255) /\ p \in Nat /\ n \in Nat /\ p + n <= Len(st)
      /\ b \in Seq(0 .. 255)
  BY <1>1, <1>2, StreamFacts, DecoderAssumption DEF TypeOK
<1>4. PICK chunk : chunk = SubSeq(st, p + 1, p + n)
  OBVIOUS
<1>5. chunk \in Seq(0 .. 255) /\ Len(chunk) = n
  <2>1. PICK c : c = p + n
    OBVIOUS
  <2>2. c \in Nat /\ p <= c /\ c <= Len(st) /\ c - p = n
    BY <1>3, <2>1
  <2>3. SubSeq(st, p + 1, c) \in Seq(0 .. 255) /\ Len(SubSeq(st, p + 1, c)) = c - p
    <3>1. st \in Seq(0 .. 255) /\ p \in Nat
      BY <1>3
    <3> QED BY <2>2, <3>1, Between, Zenon
  <2> QED BY <1>4, <2>1, <2>2, <2>3
<1>6. data' = b \o chunk
  BY <1>1, <1>2, <1>4 DEF DataAppend
<1>7. data' \in Seq(0 .. 255) /\ Len(data') = Len(b) + n
  BY <1>3, <1>5, <1>6, ConcatProperties
<1>8. /\ DOMAIN pos' = Sides /\ pos'[side] = p + n
      /\ \A s \in Sides : s # side => pos'[s] = pos[s]
  BY <1>1, <1>2 DEF TypeOK
<1>9. \A s \in Sides : pos'[s] \in 0 .. Len(Stream(s))
  <2>1. p + n \in 0 .. Len(st)
    BY <1>3
  <2>2. \A s \in Sides : pos[s] \in 0 .. Len(Stream(s))
    BY DEF TypeOK
  <2> QED BY <1>2, <1>8, <2>1, <2>2
<1>10. Len(data') <= pos'["client"] + pos'["server"]
  <2>1. Len(b) <= pos["client"] + pos["server"] /\ Len(b) \in Nat
    BY <1>2, <1>3 DEF TypeOK
  <2>2. pos["client"] \in Nat /\ pos["server"] \in Nat
    <3>1. "client" \in Sides /\ "server" \in Sides
      BY DEF Sides
    <3> QED BY <3>1, StreamFacts DEF TypeOK
  <2>3. side = "client" \/ side = "server"
    BY DEF Sides
  <2>4. /\ side = "client" => pos'["client"] = pos["client"] + n /\ pos'["server"] = pos["server"]
        /\ side = "server" => pos'["server"] = pos["server"] + n /\ pos'["client"] = pos["client"]
    BY <1>2, <1>8 DEF Sides
  <2> QED BY <1>3, <1>7, <2>1, <2>2, <2>3, <2>4
<1>11. splits' \in 0 .. MaxSplits
  BY <1>1, DecoderAssumption DEF TypeOK
<1>12. {refused, mixed, cut}' \subseteq BOOLEAN
  <2>1. refused' \in BOOLEAN
    BY <1>1, Zenon DEF TypeOK
  <2>2. mixed' \in BOOLEAN /\ cut' \in BOOLEAN
    BY <1>1, Zenon
  <2> QED BY <2>1, <2>2
<1>13. trace' \in Seq(Sides \X (1 .. 255))
  BY <1>1, Zenon DEF TypeOK
<1>14. pc' \in Sides \cup {"idle", "dead"}
  BY <1>1
<1> QED BY <1>7, <1>8, <1>9, <1>10, <1>11, <1>12, <1>13, <1>14 DEF TypeOK

\* A step of a handler reads nothing: what remains of the buffer, the place and the lines
\* are as they should be.
LEMMA TypeHandler ==
  ASSUME TypeOK, Handler
  PROVE  TypeOK'
<1>1. /\ data \in Seq(0 .. 255) /\ Len(data) \in Nat
      /\ (IsMessage => Size \in Nat /\ Size <= Len(data)) /\ (IsStartup => PacketSize \in Nat)
  BY SizeType DEF TypeOK
<1>2. pos' = pos /\ mixed' = mixed /\ cut' = cut /\ splits' = splits
  BY DEF Handler, ClientStartup, ClientStartupFails, ClientMessage, ClientDone, ServerRefusal,
         ServerMessage, ServerDone, OverreadKills
<1>3. \/ data' = data
      \/ \E n \in Nat : n <= Len(data) /\ data' = DataRemove(n)
  <2>1. CASE ClientStartup
    BY <1>1, <2>1 DEF ClientStartup
  <2>2. CASE ClientMessage \/ ServerMessage
    BY <1>1, <2>2 DEF ClientMessage, ServerMessage
  <2>3. CASE ServerRefusal
    <3>1. Len(data) = 1 /\ data' = DataRemove(1)
      BY <2>3 DEF ServerRefusal, IsRefusal
    <3> QED BY <3>1
  <2>4. CASE \/ ClientStartupFails \/ ClientDone \/ ServerDone \/ OverreadKills
    BY <2>4 DEF ClientStartupFails, ClientDone, ServerDone, OverreadKills
  <2> QED BY <2>1, <2>2, <2>3, <2>4 DEF Handler
<1>4. data' \in Seq(0 .. 255) /\ Len(data') <= Len(data)
  BY <1>1, <1>3, RemoveType
<1>5. pc' \in Sides \cup {"idle", "dead"}
  BY DEF TypeOK, Handler, ClientStartup, ClientStartupFails, ClientMessage, ClientDone,
         ServerRefusal, ServerMessage, ServerDone, OverreadKills
<1>6. refused' \in BOOLEAN
  <2>1. refused \in BOOLEAN
    BY Zenon DEF TypeOK
  <2>2. refused' = refused \/ refused' = (refused \/ Request = ProtocolTwo)
    BY DEF Handler, ClientStartup, ClientStartupFails, ClientMessage, ClientDone,
           ServerRefusal, ServerMessage, ServerDone, OverreadKills
  <2> QED BY <2>1, <2>2, Zenon
<1>7. trace' \in Seq(Sides \X (1 .. 255))
  <2>1. \/ trace' = trace
        \/ IsMessage /\ \E side \in Sides : trace' = Append(trace, <<side, data[1]>>)
    BY DEF Sides, Handler, ClientStartup, ClientStartupFails, ClientMessage, ClientDone,
           ServerRefusal, ServerMessage, ServerDone, OverreadKills,
           OutputWrite, FrontendLine, BackendLine
  <2>2. IsMessage => data[1] \in 1 .. 255
    <3>1. Len(data) >= 5 => 1 \in 1 .. Len(data)
      BY <1>1
    <3>2. Len(data) >= 5 => data[1] \in 0 .. 255
      BY <1>1, <3>1, ElementOfSeq, Zenon
    <3> QED BY <3>2 DEF IsMessage
  <2>3. PICK L : L = Sides \X (1 .. 255)
    OBVIOUS
  <2>4. trace \in Seq(L)
    BY <2>3, Zenon DEF TypeOK
  <2>5. ASSUME NEW l \in L PROVE Append(trace, l) \in Seq(L)
    BY <2>4, <2>5
  <2>6. \A side \in Sides : IsMessage => <<side, data[1]>> \in L
    BY <2>2, <2>3
  <2> QED BY <2>1, <2>3, <2>4, <2>5, <2>6, Zenon
<1>8. Len(data') <= pos'["client"] + pos'["server"]
  <2>1. pos["client"] \in Nat /\ pos["server"] \in Nat
    <3>1. "client" \in Sides /\ "server" \in Sides
      BY DEF Sides
    <3> QED BY <3>1, StreamFacts DEF TypeOK
  <2>2. Len(data) <= pos["client"] + pos["server"]
    BY DEF TypeOK
  <2>3. Len(data') \in Nat
    BY <1>4
  <2> QED BY <1>1, <1>2, <1>4, <2>1, <2>2, <2>3
<1>9. {refused, mixed, cut}' \subseteq BOOLEAN
  <2>1. mixed \in BOOLEAN /\ cut \in BOOLEAN
    BY Zenon DEF TypeOK
  <2> QED BY <1>2, <1>6, <2>1
<1>10. /\ \A side \in Sides : pos'[side] \in 0 .. Len(Stream(side))
       /\ DOMAIN pos' = Sides /\ splits' \in 0 .. MaxSplits
  BY <1>2 DEF TypeOK
<1> QED BY <1>4, <1>5, <1>7, <1>8, <1>9, <1>10 DEF TypeOK

\* A step that changes nothing.
LEMMA TypeStutter ==
  ASSUME TypeOK, UNCHANGED vars
  PROVE  TypeOK'
<1>1. /\ pos' = pos /\ data' = data /\ pc' = pc /\ trace' = trace /\ refused' = refused
      /\ mixed' = mixed /\ cut' = cut /\ splits' = splits
  BY DEF vars
<1> QED BY <1>1, Zenon DEF TypeOK

\* What the decoder (protocol.c:92-405, utils.c:526-576) keeps stays what it should be,
\* for all scripts and all chunks: bytes in the buffer, never more of them than were read,
\* and lines with a kind.
THEOREM DecoderTypeCorrect == Spec => []TypeOK
<1>1. Init => TypeOK
  BY TypeInit
<1>2. TypeOK /\ [Next]_vars => TypeOK'
  BY TypeRead, TypeHandler, TypeStutter DEF Next
<1> QED BY <1>1, <1>2, PTL DEF Spec

-----------------------------------------------------------------------------
(* The message at the front of the buffer. *)

NextMessage(d, side) == Script(side)[d[side] + 1]

\* There are two sides.
LEMMA Others ==
  ASSUME NEW side \in Sides
  PROVE  /\ Other(side) \in Sides /\ Other(side) # side /\ Other(Other(side)) = side
         /\ \A s \in Sides : s = side \/ s = Other(side)
  BY DEF Sides, Other

\* Numbers in the common part of two sequences of bytes.
LEMMA SameNumber ==
  ASSUME NEW a \in Seq(0 .. 255), NEW b \in Seq(0 .. 255), NEW o \in Nat,
         o + 4 <= Len(a), o + 4 <= Len(b), \A i \in 1 .. Len(a) : i <= Len(b) => a[i] = b[i]
  PROVE  Int32(a, o) = Int32(b, o)
<1>1. Len(a) \in Nat /\ Len(b) \in Nat
  BY LenProperties
<1>2. /\ Byte(a, o) = Byte(b, o) /\ Byte(a, o + 1) = Byte(b, o + 1)
      /\ Byte(a, o + 2) = Byte(b, o + 2) /\ Byte(a, o + 3) = Byte(b, o + 3)
  <2>1. /\ o + 1 \in 1 .. Len(a) /\ o + 2 \in 1 .. Len(a) /\ o + 3 \in 1 .. Len(a)
        /\ o + 4 \in 1 .. Len(a) /\ o + 1 <= Len(b) /\ o + 2 <= Len(b) /\ o + 3 <= Len(b)
    BY <1>1
  <2>2. a[o + 1] = b[o + 1] /\ a[o + 2] = b[o + 2] /\ a[o + 3] = b[o + 3] /\ a[o + 4] = b[o + 4]
    BY <2>1
  <2>3. /\ (o + 1) + 1 = o + 2 /\ (o + 2) + 1 = o + 3 /\ (o + 3) + 1 = o + 4
        /\ o < Len(a) /\ o + 1 < Len(a) /\ o + 2 < Len(a) /\ o + 3 < Len(a)
        /\ o < Len(b) /\ o + 1 < Len(b) /\ o + 2 < Len(b) /\ o + 3 < Len(b)
    BY <1>1
  <2> QED BY <2>2, <2>3 DEF Byte
<1> QED BY <1>2 DEF Int32

\* A buffer that holds the rest of a side begins with its next message.
LEMMA FrontFacts ==
  ASSUME TypeOK, NEW side \in Sides, NEW d, d[side] \in 0 .. Len(Script(side)),
         End(side, d[side]) <= pos[side],
         data = SubSeq(Stream(side), End(side, d[side]) + 1, pos[side])
  PROVE  /\ Len(data) = pos[side] - End(side, d[side])
         /\ data \in Seq(0 .. 255) /\ Len(data) \in Nat
         /\ End(side, d[side]) \in Nat /\ pos[side] \in Nat
         /\ data # <<>> => d[side] < Len(Script(side))
         /\ d[side] < Len(Script(side)) =>
               /\ NextMessage(d, side).bytes \in Seq(0 .. 255)
               /\ Len(NextMessage(d, side).bytes) \in Nat
               /\ Len(NextMessage(d, side).bytes) > 0
               /\ End(side, d[side] + 1) = End(side, d[side]) + Len(NextMessage(d, side).bytes)
               /\ \A i \in 1 .. Len(data) : i <= Len(NextMessage(d, side).bytes) =>
                     data[i] = NextMessage(d, side).bytes[i]
<1>1. PICK k, n, st, e, p, b :
        /\ k = d[side] /\ n = Len(Script(side)) /\ st = Stream(side) /\ e = End(side, k)
        /\ p = pos[side] /\ b = data
  OBVIOUS
<1>2. n \in Nat /\ k \in 0 .. n
  BY <1>1, ScriptType
<1>3. st \in Seq(0 .. 255) /\ Len(st) \in Nat /\ e \in Nat /\ End(side, n) = Len(st)
  BY <1>1, <1>2, StreamFacts
<1>4. p \in Nat /\ p <= Len(st)
  BY <1>1, <1>3 DEF TypeOK
<1>5. e <= p /\ b = SubSeq(st, e + 1, p)
  BY <1>1
<1>6. b \in Seq(0 .. 255) /\ Len(b) = p - e /\ \A i \in 1 .. p - e : b[i] = st[e + i]
  <2>1. st \in Seq(0 .. 255) /\ e \in Nat /\ p \in Nat /\ e <= p /\ p <= Len(st)
    BY <1>3, <1>4, <1>5
  <2>2. /\ SubSeq(st, e + 1, p) \in Seq(0 .. 255) /\ Len(SubSeq(st, e + 1, p)) = p - e
        /\ \A i \in 1 .. p - e : SubSeq(st, e + 1, p)[i] = st[e + i]
    BY <2>1, Between, Zenon
  <2> QED BY <1>5, <2>2, Zenon
<1>7. Len(b) \in Nat
  BY <1>6
<1>8. b # <<>> => k < n
  <2> SUFFICES ASSUME k = n PROVE b = <<>>
    BY <1>2
  <2>1. e = Len(st)
    BY <1>1, <1>3
  <2>2. Len(b) = 0
    BY <1>3, <1>4, <1>5, <1>6, <2>1
  <2> QED BY <1>6, <2>2, EmptySeq
<1>9. ASSUME k < n
      PROVE  /\ Script(side)[k + 1].bytes \in Seq(0 .. 255)
             /\ Len(Script(side)[k + 1].bytes) \in Nat /\ Len(Script(side)[k + 1].bytes) > 0
             /\ End(side, k + 1) = e + Len(Script(side)[k + 1].bytes)
             /\ \A i \in 1 .. Len(b) : i <= Len(Script(side)[k + 1].bytes) =>
                   b[i] = Script(side)[k + 1].bytes[i]
  <2>1. k \in 0 .. n - 1 /\ k + 1 \in 1 .. n
    BY <1>2, <1>9
  <2>2. PICK m : m = Script(side)[k + 1].bytes
    OBVIOUS
  <2>3. m \in Seq(0 .. 255) /\ Len(m) \in Nat /\ Len(m) > 0
    BY <1>1, <2>1, <2>2, ScriptType
  <2>4. End(side, k + 1) = e + Len(m) /\ \A i \in 1 .. Len(m) : st[e + i] = m[i]
    BY <1>1, <2>1, <2>2, StreamFacts
  <2>5. \A i \in 1 .. Len(b) : i <= Len(m) => b[i] = m[i]
    BY <1>6, <1>7, <2>3, <2>4
  <2> QED BY <2>2, <2>3, <2>4, <2>5
<1> QED BY <1>1, <1>3, <1>4, <1>6, <1>7, <1>8, <1>9 DEF NextMessage

\* A message that should arrive whole has arrived when it has begun.
LEMMA Whole ==
  ASSUME TypeOK, NotCut, NEW side \in Sides, NEW d, d[side] \in 0 .. Len(Script(side)) - 1,
         NextMessage(d, side).whole, End(side, d[side]) < pos[side]
  PROVE  End(side, d[side] + 1) <= pos[side]
<1>1. PICK k, n : k = d[side] /\ n = Len(Script(side))
  OBVIOUS
<1>2. /\ n \in Nat /\ k + 1 \in 1 .. n /\ (k + 1) - 1 = k /\ k \in 0 .. n
      /\ DOMAIN Script(side) = 1 .. n
  BY <1>1, ScriptType
<1>3. Script(side)[k + 1].whole
  BY <1>1 DEF NextMessage
<1>4. pos[side] <= End(side, (k + 1) - 1) \/ End(side, k + 1) <= pos[side]
  BY <1>2, <1>3, Zenon DEF NotCut
<1>5. End(side, k) \in Nat /\ pos[side] \in Int
  BY <1>1, <1>2, StreamFacts DEF TypeOK
<1> QED BY <1>1, <1>2, <1>4, <1>5

\* What the client's handler finds.
LEMMA ClientFront ==
  ASSUME TypeOK, Conversation, NotCut, NEW d, Consumed(d), Holds(d, "client")
  PROVE  /\ IsStartup =>
               /\ d["client"] < Len(Script("client")) /\ NextMessage(d, "client").line = NoLine
               /\ PacketSize = Len(NextMessage(d, "client").bytes) /\ PacketSize <= Len(data)
               /\ PacketSize >= 8 /\ Request \in Requests \ {ProtocolTwo}
         /\ IsMessage =>
               /\ d["client"] < Len(Script("client")) /\ NextMessage(d, "client").line # NoLine
               /\ data[1] = NextMessage(d, "client").line
               /\ Size = Len(NextMessage(d, "client").bytes)
               /\ Size <= Len(data) /\ Size >= 5
         /\ ~IsStartup /\ ~IsMessage => NoneLeft(d, "client")
<1>1. "client" \in Sides /\ Script("client") = ClientScript
  BY DEF Sides, Script
<1>2. PICK k, n, e, p, m : /\ k = d["client"] /\ n = Len(Script("client"))
                           /\ e = End("client", k) /\ p = pos["client"]
                           /\ m = NextMessage(d, "client")
  OBVIOUS
<1>3. /\ k \in 0 .. n /\ e <= p
      /\ data = SubSeq(Stream("client"), e + 1, p)
  BY <1>1, <1>2, Zenon DEF Consumed, Holds
<1>4. n \in Nat /\ DOMAIN ClientScript = 1 .. n
  BY <1>1, <1>2, ScriptType
<1>5. /\ Len(data) = p - e /\ data \in Seq(0 .. 255) /\ Len(data) \in Nat /\ e \in Nat /\ p \in Nat
      /\ data # <<>> => k < n
      /\ k < n => /\ m.bytes \in Seq(0 .. 255) /\ Len(m.bytes) \in Nat /\ Len(m.bytes) > 0
                  /\ End("client", k + 1) = e + Len(m.bytes)
                  /\ \A i \in 1 .. Len(data) : i <= Len(m.bytes) => data[i] = m.bytes[i]
  <2>1. /\ d["client"] \in 0 .. Len(Script("client"))
        /\ End("client", d["client"]) <= pos["client"]
        /\ data = SubSeq(Stream("client"), End("client", d["client"]) + 1, pos["client"])
    BY <1>2, <1>3
  <2> QED BY <1>1, <1>2, <2>1, FrontFacts
<1>6. k < n => IF m.line = NoLine THEN IsPacket(m) ELSE HasKind(m)
  <2>1. k < n => k + 1 \in DOMAIN ClientScript
    BY <1>3, <1>4
  <2>2. m = ClientScript[k + 1]
    BY <1>1, <1>2 DEF NextMessage
  <2> QED BY <2>1, <2>2, Zenon DEF Conversation, WellFormed
<1>7. ASSUME k < n, m.line = NoLine, data # <<>>
      PROVE  /\ PacketSize = Len(m.bytes) /\ PacketSize <= Len(data) /\ PacketSize >= 8
             /\ Request \in Requests \ {ProtocolTwo} /\ IsStartup /\ ~IsMessage
  <2>1. /\ m.whole /\ Len(m.bytes) >= 8 /\ m.bytes[1] = 0 /\ Int32(m.bytes, 0) = Len(m.bytes)
        /\ Int32(m.bytes, 4) \in Requests \ {ProtocolTwo}
    BY <1>6, <1>7, Zenon DEF IsPacket
  <2>2. Len(data) # 0
    BY <1>5, <1>7, EmptySeq
  <2>3. e < p
    BY <1>5, <2>2
  <2>4. End("client", k + 1) <= p
    <3>1. d["client"] \in 0 .. Len(Script("client")) - 1
      BY <1>2, <1>3, <1>4, <1>7
    <3>2. NextMessage(d, "client").whole /\ End("client", d["client"]) < pos["client"]
      BY <1>2, <2>1, <2>3
    <3> QED BY <1>1, <1>2, <3>1, <3>2, Whole
  <2>5. Len(m.bytes) <= Len(data)
    BY <1>5, <1>7, <2>4
  <2>6. \A i \in 1 .. 8 : data[i] = m.bytes[i]
    BY <1>5, <1>7, <2>1, <2>5
  <2>7. Int32(data, 0) = Int32(m.bytes, 0) /\ Int32(data, 4) = Int32(m.bytes, 4)
    <3>1. 0 \in Nat /\ 0 + 4 <= Len(data) /\ 0 + 4 <= Len(m.bytes)
      BY <1>5, <1>7, <2>1, <2>5
    <3>2. 4 \in Nat /\ 4 + 4 <= Len(data) /\ 4 + 4 <= Len(m.bytes)
      BY <1>5, <1>7, <2>1, <2>5
    <3> QED BY <1>5, <1>7, <3>1, <3>2, SameNumber, Zenon
  <2>9. data[1] = 0
    BY <2>1, <2>6
  <2>10. Len(data) >= 8
    BY <1>5, <1>7, <2>1, <2>5
  <2>11. PacketSize = Len(m.bytes) /\ Request = Int32(m.bytes, 4)
    BY <2>1, <2>7 DEF PacketSize, Request
  <2> QED BY <1>7, <2>1, <2>5, <2>9, <2>10, <2>11 DEF IsStartup, IsMessage
<1>8. ASSUME k < n, m.line # NoLine, data # <<>>
      PROVE  /\ data[1] = m.line /\ ~IsStartup
             /\ Len(data) >= 5 => Size = Len(m.bytes) /\ Size >= 5
             /\ Len(m.bytes) <= Len(data) => IsMessage
  <2>1. Len(m.bytes) >= 5 /\ m.bytes[1] = m.line /\ Length(m.bytes) + 1 = Len(m.bytes)
    BY <1>6, <1>8, Zenon DEF HasKind
  <2>2. Len(data) # 0
    BY <1>5, <1>8, EmptySeq
  <2>3. data[1] = m.line /\ data[1] # 0
    BY <1>5, <1>8, <2>1, <2>2 DEF NoLine
  <2>4. ASSUME Len(data) >= 5 PROVE Size = Len(m.bytes)
    <3>1. 1 \in Nat /\ 1 + 4 <= Len(data) /\ 1 + 4 <= Len(m.bytes)
      BY <1>5, <1>8, <2>1, <2>4
    <3>2. Int32(data, 1) = Int32(m.bytes, 1)
      BY <1>5, <1>8, <3>1, SameNumber, Zenon
    <3> QED BY <2>1, <3>2 DEF Size, Length
  <2>5. Len(m.bytes) <= Len(data) => IsMessage
    <3> SUFFICES ASSUME Len(m.bytes) <= Len(data) PROVE IsMessage
      OBVIOUS
    <3>1. Len(data) >= 5
      BY <1>5, <1>8, <2>1
    <3>2. Length(data) + 1 = Len(m.bytes)
      BY <2>4, <3>1 DEF Size
    <3> QED BY <1>5, <1>8, <2>3, <3>1, <3>2 DEF IsMessage
  <2> QED BY <2>1, <2>3, <2>4, <2>5 DEF IsStartup
<1>9. /\ (IsStartup => data # <<>>)
      /\ (IsMessage => data # <<>> /\ Len(data) >= 5 /\ Size <= Len(data))
  BY DEF IsStartup, IsMessage, Size
<1>10. ~IsStartup /\ ~IsMessage => NoneLeft(d, "client")
  <2> SUFFICES ASSUME ~IsStartup, ~IsMessage, k < n PROVE p < End("client", k + 1)
    BY <1>2 DEF NoneLeft
  <2>1. CASE data = <<>>
    <3>1. Len(data) = 0
      BY <2>1
    <3> QED BY <1>5, <3>1
  <2>2. CASE data # <<>>
    <3>1. ~(Len(m.bytes) <= Len(data))
      BY <1>7, <1>8, <2>2
    <3> QED BY <1>5, <3>1
  <2> QED BY <2>1, <2>2
<1>11. IsStartup => /\ k < n /\ m.line = NoLine /\ PacketSize = Len(m.bytes)
                    /\ PacketSize <= Len(data) /\ PacketSize >= 8
                    /\ Request \in Requests \ {ProtocolTwo}
  BY <1>5, <1>7, <1>8, <1>9
<1>12. IsMessage => /\ k < n /\ m.line # NoLine /\ data[1] = m.line /\ Size = Len(m.bytes)
                    /\ Size <= Len(data) /\ Size >= 5
  BY <1>5, <1>7, <1>8, <1>9
<1> QED BY <1>2, <1>10, <1>11, <1>12, Zenon


\* What the server's handler finds.
LEMMA ServerFront ==
  ASSUME TypeOK, Conversation, NotCut, NEW d, Consumed(d), Holds(d, "server"), RefusalLast(d)
  PROVE  /\ IsMessage =>
               /\ d["server"] < Len(Script("server")) /\ NextMessage(d, "server").line # NoLine
               /\ data[1] = NextMessage(d, "server").line
               /\ Size = Len(NextMessage(d, "server").bytes)
               /\ Size <= Len(data) /\ Size >= 5
         /\ IsRefusal =>
               /\ d["server"] < Len(Script("server")) /\ NextMessage(d, "server").line = NoLine
               /\ Len(NextMessage(d, "server").bytes) = 1 /\ Len(data) = 1
         /\ ~IsRefusal /\ ~IsMessage => NoneLeft(d, "server")
<1>1. "server" \in Sides /\ Script("server") = ServerScript
  BY DEF Sides, Script
<1>2. PICK k, n, e, p, m : /\ k = d["server"] /\ n = Len(Script("server"))
                           /\ e = End("server", k) /\ p = pos["server"]
                           /\ m = NextMessage(d, "server")
  OBVIOUS
<1>3. /\ k \in 0 .. n /\ e <= p
      /\ data = SubSeq(Stream("server"), e + 1, p)
  BY <1>1, <1>2, Zenon DEF Consumed, Holds
<1>4. n \in Nat /\ DOMAIN ServerScript = 1 .. n
  BY <1>1, <1>2, ScriptType
<1>5. /\ Len(data) = p - e /\ data \in Seq(0 .. 255) /\ Len(data) \in Nat /\ e \in Nat /\ p \in Nat
      /\ data # <<>> => k < n
      /\ k < n => /\ m.bytes \in Seq(0 .. 255) /\ Len(m.bytes) \in Nat /\ Len(m.bytes) > 0
                  /\ End("server", k + 1) = e + Len(m.bytes)
                  /\ \A i \in 1 .. Len(data) : i <= Len(m.bytes) => data[i] = m.bytes[i]
  <2>1. /\ d["server"] \in 0 .. Len(Script("server"))
        /\ End("server", d["server"]) <= pos["server"]
        /\ data = SubSeq(Stream("server"), End("server", d["server"]) + 1, pos["server"])
    BY <1>2, <1>3
  <2> QED BY <1>1, <1>2, <2>1, FrontFacts
<1>6. k < n => /\ k + 1 \in DOMAIN ServerScript /\ m = ServerScript[k + 1]
               /\ IF m.line = NoLine THEN m.bytes = << 78 >>
                  ELSE HasKind(m) /\ (m.line = 78 => m.whole)
  <2>1. k < n => k + 1 \in DOMAIN ServerScript
    BY <1>3, <1>4
  <2>2. m = ServerScript[k + 1]
    BY <1>1, <1>2 DEF NextMessage
  <2> QED BY <2>1, <2>2, Zenon DEF Conversation, WellFormed
<1>7. ASSUME k < n, m.line = NoLine, data # <<>>
      PROVE  IsRefusal /\ ~IsMessage /\ Len(m.bytes) = 1 /\ Len(data) = 1
  <2>1. m.bytes = << 78 >> /\ Len(m.bytes) = 1 /\ m.bytes[1] = 78
    <3>1. m.bytes = << 78 >>
      BY <1>6, <1>7, Zenon
    <3>2. Len(<< 78 >>) = 1 /\ << 78 >>[1] = 78
      OBVIOUS
    <3> QED BY <3>1, <3>2, Zenon
  <2>2. p <= End("server", k + 1)
    <3>1. d["server"] < k + 1 /\ ServerScript[k + 1].line = NoLine /\ k + 1 \in DOMAIN ServerScript
      BY <1>2, <1>3, <1>6, <1>7
    <3> QED BY <1>2, <3>1, Zenon DEF RefusalLast
  <2>3. Len(data) # 0
    BY <1>5, <1>7, EmptySeq
  <2>4. Len(data) = 1
    BY <1>5, <1>7, <2>1, <2>2, <2>3
  <2>5. data[1] = 78
    BY <1>5, <1>7, <2>1, <2>4
  <2>6. data = << 78 >>
    <3>1. PICK b : b = data
      OBVIOUS
    <3>2. b \in Seq(0 .. 255) /\ Len(b) = 1 /\ b[1] = 78
      BY <1>5, <2>4, <2>5, <3>1
    <3> QED BY <3>1, <3>2
  <2> QED BY <2>1, <2>4, <2>6 DEF IsRefusal, IsMessage
<1>8. ASSUME k < n, m.line # NoLine, data # <<>>
      PROVE  /\ data[1] = m.line /\ ~IsRefusal
             /\ Len(data) >= 5 => Size = Len(m.bytes) /\ Size >= 5
             /\ Len(m.bytes) <= Len(data) => IsMessage
  <2>1. /\ Len(m.bytes) >= 5 /\ m.bytes[1] = m.line /\ Length(m.bytes) + 1 = Len(m.bytes)
        /\ m.line = 78 => m.whole
    BY <1>6, <1>8, Zenon DEF HasKind
  <2>2. Len(data) # 0
    BY <1>5, <1>8, EmptySeq
  <2>3. data[1] = m.line /\ data[1] # 0
    BY <1>5, <1>8, <2>1, <2>2 DEF NoLine
  <2>4. ASSUME Len(data) >= 5 PROVE Size = Len(m.bytes)
    <3>1. 1 \in Nat /\ 1 + 4 <= Len(data) /\ 1 + 4 <= Len(m.bytes)
      BY <1>5, <1>8, <2>1, <2>4
    <3>2. Int32(data, 1) = Int32(m.bytes, 1)
      BY <1>5, <1>8, <3>1, SameNumber, Zenon
    <3> QED BY <2>1, <3>2 DEF Size, Length
  <2>5. Len(m.bytes) <= Len(data) => IsMessage
    <3> SUFFICES ASSUME Len(m.bytes) <= Len(data) PROVE IsMessage
      OBVIOUS
    <3>1. Len(data) >= 5
      BY <1>5, <1>8, <2>1
    <3>2. Length(data) + 1 = Len(m.bytes)
      BY <2>4, <3>1 DEF Size
    <3> QED BY <1>5, <1>8, <2>3, <3>1, <3>2 DEF IsMessage
  <2>6. ~IsRefusal
    <3> SUFFICES ASSUME data = << 78 >> PROVE FALSE
      BY DEF IsRefusal
    <3>1. Len(data) = 1 /\ data[1] = 78
      OBVIOUS
    <3>2. m.whole /\ e < p
      BY <1>5, <2>1, <2>3, <3>1
    <3>3. End("server", k + 1) <= p
      <4>1. d["server"] \in 0 .. Len(Script("server")) - 1
        BY <1>2, <1>3, <1>4, <1>8
      <4>2. NextMessage(d, "server").whole /\ End("server", d["server"]) < pos["server"]
        BY <1>2, <3>2
      <4> QED BY <1>1, <1>2, <4>1, <4>2, Whole
    <3> QED BY <1>5, <1>8, <2>1, <3>1, <3>3
  <2> QED BY <2>1, <2>3, <2>4, <2>5, <2>6
<1>9. /\ (IsRefusal => data # <<>>)
      /\ (IsMessage => data # <<>> /\ Len(data) >= 5 /\ Size <= Len(data))
  BY DEF IsRefusal, IsMessage, Size
<1>10. ~IsRefusal /\ ~IsMessage => NoneLeft(d, "server")
  <2> SUFFICES ASSUME ~IsRefusal, ~IsMessage, k < n PROVE p < End("server", k + 1)
    BY <1>2 DEF NoneLeft
  <2>1. CASE data = <<>>
    <3>1. Len(data) = 0
      BY <2>1
    <3> QED BY <1>5, <3>1
  <2>2. CASE data # <<>>
    <3>1. ~(Len(m.bytes) <= Len(data))
      BY <1>7, <1>8, <2>2
    <3> QED BY <1>5, <3>1
  <2> QED BY <2>1, <2>2
<1>11. IsRefusal => k < n /\ m.line = NoLine /\ Len(m.bytes) = 1 /\ Len(data) = 1
  BY <1>5, <1>7, <1>8, <1>9
<1>12. IsMessage => /\ k < n /\ m.line # NoLine /\ data[1] = m.line /\ Size = Len(m.bytes)
                    /\ Size <= Len(data) /\ Size >= 5
  BY <1>5, <1>7, <1>8, <1>9
<1> QED BY <1>2, <1>10, <1>11, <1>12, Zenon

-----------------------------------------------------------------------------
(* The inductive step. *)

Tallies == [Sides -> 0 .. Len(ClientScript) + Len(ServerScript)]

\* The bound on what can be taken off.
LEMMA ScriptBound ==
  ASSUME NEW side \in Sides
  PROVE  /\ Len(Script(side)) <= Len(ClientScript) + Len(ServerScript)
         /\ Len(ClientScript) \in Nat /\ Len(ServerScript) \in Nat
<1>1. /\ Script("client") = ClientScript /\ Script("server") = ServerScript
      /\ "client" \in Sides /\ "server" \in Sides /\ side \in {"client", "server"}
  BY DEF Script, Sides
<1>2. Len(ClientScript) \in Nat /\ Len(ServerScript) \in Nat
  BY <1>1, ScriptType
<1> QED BY <1>1, <1>2

\* A handler takes the message at the front, and notes it.
LEMMA Advance ==
  ASSUME TypeOK, NEW side \in Sides, NEW d \in Tallies, UnderstoodAs(d),
         pc = side, d[side] < Len(Script(side)), Len(NextMessage(d, side).bytes) <= Len(data),
         data' = DataRemove(Len(NextMessage(d, side).bytes)), pos' = pos, pc' = side,
         Traced(side)' = Traced(side) \o Kind(NextMessage(d, side)),
         Traced(Other(side))' = Traced(Other(side))
  PROVE  Understood'
<1>1. PICK k, n, e, p, L, o :
        /\ k = d[side] /\ n = Len(Script(side)) /\ e = End(side, k) /\ p = pos[side]
        /\ L = Len(NextMessage(d, side).bytes) /\ o = Other(side)
  OBVIOUS
<1>2. o \in Sides /\ o # side /\ \A s \in Sides : s = side \/ s = o
  BY <1>1, Others
<1>3. Consumed(d) /\ RefusalLast(d) /\ Holds(d, side) /\ NoneLeft(d, o)
  BY <1>1, Zenon DEF UnderstoodAs
<1>4. /\ k \in 0 .. n /\ e <= p /\ n \in Nat
      /\ Traced(side) = FirstKinds(side, k)
      /\ data = SubSeq(Stream(side), e + 1, p)
      /\ End(o, d[o]) = pos[o]
  BY <1>1, <1>3, ScriptType DEF Consumed, Holds, FirstKinds
<1>5. Len(data) = p - e /\ e \in Nat /\ p \in Nat /\ End(side, k + 1) = e + L /\ L \in Nat
  <2>1. /\ d[side] \in 0 .. Len(Script(side)) /\ End(side, d[side]) <= pos[side]
        /\ data = SubSeq(Stream(side), End(side, d[side]) + 1, pos[side])
    BY <1>1, <1>4
  <2> QED BY <1>1, <2>1, FrontFacts
<1>6. PICK g : g = [d EXCEPT ![side] = k + 1]
  OBVIOUS
<1>7. k < n /\ k + 1 \in 0 .. n /\ k + 1 \in 0 .. Len(ClientScript) + Len(ServerScript)
  <2>1. n <= Len(ClientScript) + Len(ServerScript) /\ Len(ClientScript) \in Nat
        /\ Len(ServerScript) \in Nat
    BY <1>1, ScriptBound
  <2> QED BY <1>1, <1>4, <2>1
<1>8. g \in Tallies /\ g[side] = k + 1 /\ g[o] = d[o]
  BY <1>2, <1>6, <1>7 DEF Tallies
<1>9. Consumed(g)'
  <2>1. /\ g[side] \in 0 .. Len(Script(side)) /\ End(side, g[side]) <= pos'[side]
    BY <1>1, <1>5, <1>7, <1>8
  <2>2. Traced(side)' = FirstKinds(side, g[side])
    <3>1. k \in 0 .. n - 1
      BY <1>4, <1>7
    <3>2. FirstKinds(side, k + 1) = FirstKinds(side, k) \o Kind(Script(side)[k + 1])
      BY <1>1, <3>1, KindsFacts
    <3> QED BY <1>1, <1>4, <1>8, <3>2 DEF NextMessage
  <2>3. /\ g[o] \in 0 .. Len(Script(o)) /\ End(o, g[o]) <= pos'[o]
        /\ Traced(o)' = FirstKinds(o, g[o])
    BY <1>1, <1>2, <1>3, <1>8 DEF Consumed, FirstKinds
  <2>4. ASSUME NEW s \in Sides
        PROVE  /\ g[s] \in 0 .. Len(Script(s)) /\ End(s, g[s]) <= pos'[s]
               /\ Traced(s)' = FirstKinds(s, g[s])
    BY <1>2, <2>1, <2>2, <2>3, Zenon
  <2> QED BY <2>4, Zenon DEF Consumed, FirstKinds
<1>10. RefusalLast(g)'
  <2> SUFFICES ASSUME NEW j \in DOMAIN ServerScript, g["server"] < j,
                      ServerScript[j].line = NoLine
               PROVE  pos'["server"] <= End("server", j)
    BY DEF RefusalLast
  <2>1. "server" \in Sides /\ d["server"] \in Nat
    BY DEF Sides, Tallies
  <2>2. g["server"] = d["server"] \/ g["server"] = d["server"] + 1
    BY <1>1, <1>2, <1>8, <2>1
  <2>3. j \in Nat
    <3>1. Script("server") = ServerScript
      BY DEF Script
    <3> QED BY <2>1, <3>1, ScriptType
  <2>4. d["server"] < j
    BY <2>1, <2>2, <2>3
  <2> QED BY <1>3, <2>4 DEF RefusalLast
<1>11. Holds(g, side)'
  <2>1. data' = SubSeq(Stream(side), (e + L) + 1, p)
    <3>1. data' = SubSeq(SubSeq(Stream(side), e + 1, p), L + 1, p - e)
      BY <1>1, <1>4, <1>5 DEF DataRemove
    <3>2. Stream(side) \in Seq(0 .. 255) /\ p <= Len(Stream(side)) /\ e + L <= p
      <4>1. Stream(side) \in Seq(0 .. 255) /\ Len(Stream(side)) \in Nat
        BY StreamFacts
      <4> QED BY <1>1, <1>5, <4>1 DEF TypeOK
    <3>3. SubSeq(SubSeq(Stream(side), e + 1, p), L + 1, p - e)
            = SubSeq(Stream(side), (e + L) + 1, p)
      BY <1>5, <3>2, Rest
    <3> QED BY <3>1, <3>3
  <2>2. data' = SubSeq(Stream(side), End(side, g[side]) + 1, pos'[side])
    BY <1>1, <1>5, <1>8, <2>1
  <2>3. End(o, g[o]) = pos'[o]
    BY <1>4, <1>8
  <2> QED BY <1>1, <2>2, <2>3 DEF Holds
<1>12. NoneLeft(g, o)'
  BY <1>3, <1>8 DEF NoneLeft
<1>13. pc' \in Sides /\ pc' # "idle"
  BY DEF Sides
<1>14. UnderstoodAs(g)'
  BY <1>1, <1>9, <1>10, <1>11, <1>12, <1>13 DEF UnderstoodAs
<1> QED BY <1>8, <1>14 DEF Understood, Tallies


Invariant == TypeOK /\ DecoderInv

\* The chunks of a side whose other side is not inside a message.
LEMMA Caught ==
  ASSUME TypeOK, NEW side \in Sides, NEW d, Consumed(d), NoneLeft(d, side), AtBoundary(side)
  PROVE  End(side, d[side]) = pos[side]
<1>1. PICK k, n, p : k = d[side] /\ n = Len(Script(side)) /\ p = pos[side]
  OBVIOUS
<1>2. PICK j \in 0 .. n : End(side, j) = p
  BY <1>1 DEF AtBoundary, Boundary
<1>3. /\ k \in 0 .. n /\ End(side, k) <= p /\ n \in Nat
      /\ k < n => p < End(side, k + 1)
  BY <1>1, ScriptType DEF Consumed, NoneLeft
<1>4. End(side, k) \in Nat /\ p \in Nat
  BY <1>1, <1>2, <1>3, StreamFacts
<1>5. CASE j <= k
  <2>1. k \in j .. n
    BY <1>3, <1>5
  <2>2. End(side, j) <= End(side, k)
    BY <1>1, <2>1, StreamFacts
  <2> QED BY <1>1, <1>2, <1>3, <1>4, <2>2
<1>6. CASE j > k
  <2>1. j \in k + 1 .. n /\ k + 1 \in 0 .. n /\ k < n
    BY <1>3, <1>6
  <2>2. End(side, k + 1) <= End(side, j) /\ End(side, k + 1) \in Nat
    BY <1>1, <2>1, StreamFacts
  <2> QED BY <1>2, <1>3, <1>4, <2>1, <2>2
<1> QED BY <1>3, <1>5, <1>6

\* What is sent waits for what has arrived, and what has arrived stays.
LEMMA AnsweredRead ==
  ASSUME TypeOK, TypeOK', Answered, NEW side \in Sides, NEW n \in Nat, Arrives(side, n),
         pos'[side] = pos[side] + n, pos'[Other(side)] = pos[Other(side)]
  PROVE  Answered'
<1>1. \A s \in Sides : /\ Delivered(s) = DeliveredAt(s, pos[s])
                       /\ Delivered(s)' = DeliveredAt(s, pos'[s])
  BY DEF Delivered, DeliveredAt
<1>2. \A s \in Sides : pos[s] \in 0 .. Len(Stream(s)) /\ pos'[s] \in 0 .. Len(Stream(s))
  BY DEF TypeOK
<1>3. \A s \in Sides : Len(Stream(s)) \in Nat /\ pos[s] \in Nat /\ pos'[s] \in Nat
  BY <1>2, StreamFacts
<1>4. \A s \in Sides : pos[s] <= pos'[s]
  <2> TAKE s \in Sides
  <2>1. s = side \/ s = Other(side)
    BY Others
  <2> QED BY <1>3, <2>1
<1>5. ASSUME NEW s \in Sides
      PROVE  Delivered(s) \in Nat /\ Delivered(s)' \in Nat /\ Delivered(s) <= Delivered(s)'
  <2>1. PICK c, b, m : /\ c = DeliveredAt(s, pos[s]) /\ b = DeliveredAt(s, pos'[s])
                       /\ m = Len(Script(s))
    OBVIOUS
  <2>2. m \in Nat /\ c \in 0 .. m /\ b \in 0 .. m
    BY <1>2, <2>1, ScriptType, DeliveredFacts
  <2>3. c <= c
    BY <2>2
  <2>4. End(s, c) <= pos[s]
    BY <1>2, <2>1, <2>2, <2>3, DeliveredFacts
  <2>5. End(s, c) \in Nat
    BY <2>1, <2>2, StreamFacts
  <2>6. End(s, c) <= pos'[s]
    BY <1>3, <1>4, <2>4, <2>5
  <2>7. c <= b
    BY <1>2, <2>1, <2>2, <2>6, DeliveredFacts
  <2> QED BY <1>1, <2>1, <2>2, <2>7
<1>6. ASSUME NEW s \in Sides, NEW k \in DOMAIN Script(s), End(s, k - 1) < pos'[s]
      PROVE  Script(s)[k].after <= Delivered(Other(s))'
  <2>1. Other(s) \in Sides
    BY Others
  <2>2. /\ k \in 1 .. Len(Script(s)) /\ Len(Script(s)) \in Nat /\ Script(s)[k].after \in Nat
        /\ k - 1 \in 0 .. Len(Script(s))
    <3>1. k \in 1 .. Len(Script(s)) /\ Len(Script(s)) \in Nat
      BY ScriptType, Zenon
    <3>2. Script(s)[k].after \in Nat
      BY <3>1, ScriptType, Zenon
    <3> QED BY <3>1, <3>2
  <2>3. End(s, k - 1) \in Nat
    BY <2>2, StreamFacts
  <2>4. Script(s)[k].after <= Delivered(Other(s))
    <3>1. CASE End(s, k - 1) < pos[s]
      BY <3>1, Zenon DEF Answered, MaySend
    <3>2. CASE ~(End(s, k - 1) < pos[s])
      <4>1. s = side
        BY <1>6, <3>2, Others
      <4>2. pos[side] <= End(side, k - 1) /\ End(side, k - 1) < pos[side] + n
        BY <1>3, <1>6, <2>3, <3>2, <4>1
      <4> QED BY <4>1, <4>2, Zenon DEF Arrives, MaySend
    <3> QED BY <3>1, <3>2
  <2> QED BY <1>5, <2>1, <2>2, <2>4
<1> QED BY <1>6 DEF Answered, MaySend

\* The server sends nothing behind a refusal that the decoder still has before it.
LEMMA RefusalWaits ==
  ASSUME TypeOK, Conversation, Answered, NEW d, Consumed(d), NoneLeft(d, "server"),
         NEW n \in Nat, Arrives("server", n), pos["server"] + n <= Len(Stream("server")),
         NEW i \in DOMAIN ServerScript, d["server"] < i, ServerScript[i].line = NoLine
  PROVE  pos["server"] + n <= End("server", i)
<1>1. /\ "server" \in Sides /\ "client" \in Sides /\ Script("server") = ServerScript
      /\ Script("client") = ClientScript /\ Other("server") = "client"
      /\ Other("client") = "server"
  BY DEF Sides, Script, Other
<1>2. PICK p, k, len : p = pos["server"] /\ k = d["server"] /\ len = Len(ServerScript)
  OBVIOUS
<1>3. len \in Nat /\ DOMAIN ServerScript = 1 .. len /\ i \in 1 .. len /\ k \in 0 .. len
  BY <1>1, <1>2, ScriptType DEF Consumed
<1>4. p \in Nat /\ End("server", i) \in Nat
  <2>1. Len(Stream("server")) \in Nat /\ End("server", i) \in Nat
    BY <1>1, <1>2, <1>3, StreamFacts
  <2> QED BY <1>1, <1>2, <2>1 DEF TypeOK
<1>5. p < End("server", i)
  <2>1. k + 1 \in 0 .. len /\ i \in k + 1 .. len /\ k < len
    BY <1>2, <1>3
  <2>2. p < End("server", k + 1)
    BY <1>1, <1>2, <2>1 DEF NoneLeft
  <2>3. End("server", k + 1) <= End("server", i) /\ End("server", k + 1) \in Nat
    BY <1>1, <1>2, <2>1, StreamFacts
  <2> QED BY <1>4, <2>2, <2>3
<1> SUFFICES ASSUME End("server", i) < p + n PROVE FALSE
  BY <1>2, <1>4
<1>6. i < len
  <2>1. End("server", len) = Len(Stream("server"))
    BY <1>1, <1>2, StreamFacts
  <2>2. i # len
    BY <1>2, <1>4, <2>1
  <2> QED BY <1>3, <2>2
<1>7. PICK c \in DOMAIN ClientScript : c <= ServerScript[i + 1].after /\ i <= ClientScript[c].after
  BY <1>2, <1>6, Zenon DEF Conversation, WellFormed
<1>8. ServerScript[i + 1].after <= Delivered("client")
  <2>1. i + 1 \in DOMAIN ServerScript /\ (i + 1) - 1 = i
    BY <1>3, <1>6
  <2>2. /\ pos["server"] <= End("server", (i + 1) - 1)
        /\ End("server", (i + 1) - 1) < pos["server"] + n
    BY <1>2, <1>4, <1>5, <2>1
  <2>3. MaySend("server", i + 1)
    BY <1>1, <2>1, <2>2, Zenon DEF Arrives
  <2> QED BY <1>1, <2>3 DEF MaySend
<1>9. /\ Delivered("client") = DeliveredAt("client", pos["client"])
      /\ Delivered("server") = DeliveredAt("server", pos["server"])
  BY DEF Delivered, DeliveredAt
<1>10. /\ pos["client"] \in 0 .. Len(Stream("client"))
       /\ pos["server"] \in 0 .. Len(Stream("server"))
       /\ pos["client"] \in Nat
  <2>1. Len(Stream("client")) \in Nat
    BY <1>1, StreamFacts
  <2> QED BY <1>1, <2>1 DEF TypeOK
<1>11. /\ c \in 1 .. Len(ClientScript) /\ Len(ClientScript) \in Nat /\ ClientScript[c].after \in Nat
       /\ ServerScript[i + 1].after \in Nat
  <2>1. i + 1 \in 1 .. len
    BY <1>3, <1>6
  <2> QED BY <1>1, <1>2, <2>1, ScriptType
<1>12. End("client", c) <= pos["client"]
  <2>1. Delivered("client") \in Nat
    BY <1>1, <1>9, <1>10, <1>11, DeliveredFacts
  <2>2. c <= Delivered("client") /\ c \in 0 .. Len(Script("client"))
    BY <1>1, <1>7, <1>8, <1>11, <2>1
  <2> QED BY <1>1, <1>9, <1>10, <2>2, DeliveredFacts
<1>13. End("client", c - 1) < pos["client"]
  <2>1. c - 1 \in 0 .. Len(Script("client")) - 1 /\ (c - 1) + 1 = c
    BY <1>1, <1>11
  <2>2. /\ End("client", c - 1) \in Nat
        /\ End("client", c) = End("client", c - 1) + Len(Script("client")[c].bytes)
    <3>1. c - 1 \in 0 .. Len(Script("client"))
      BY <1>1, <1>11
    <3> QED BY <1>1, <2>1, <3>1, StreamFacts
  <2>3. Len(Script("client")[c].bytes) \in Nat /\ Len(Script("client")[c].bytes) > 0
    BY <1>1, <1>11, ScriptType
  <2> QED BY <1>10, <1>12, <2>2, <2>3
<1>14. ClientScript[c].after <= Delivered("server")
  <2>1. MaySend("client", c)
    BY <1>1, <1>13, Zenon DEF Answered
  <2> QED BY <1>1, <2>1 DEF MaySend
<1>15. End("server", i) <= pos["server"]
  <2>1. Delivered("server") \in Nat
    BY <1>1, <1>2, <1>3, <1>9, <1>10, DeliveredFacts
  <2>2. i <= Delivered("server") /\ i \in 0 .. Len(Script("server"))
    BY <1>1, <1>2, <1>3, <1>7, <1>11, <1>14, <2>1
  <2> QED BY <1>1, <1>9, <1>10, <2>2, DeliveredFacts
<1> QED BY <1>2, <1>4, <1>5, <1>15


\* A chunk that arrives while the other side is between two messages is understood.
LEMMA UnderstoodRead ==
  ASSUME TypeOK, Conversation, Answered, Understood, NEW side \in Sides, NEW n \in Nat, n > 0,
         pc = "idle", pos[side] + n <= Len(Stream(side)), Arrives(side, n),
         AtBoundary(Other(side)),
         data' = DataAppend(SubSeq(Stream(side), pos[side] + 1, pos[side] + n)),
         pos' = [pos EXCEPT ![side] = @ + n], pc' = side, trace' = trace
  PROVE  Understood'
<1>1. PICK d \in Tallies : UnderstoodAs(d)
  BY DEF Understood, Tallies
<1>2. /\ Consumed(d) /\ RefusalLast(d)
      /\ \E s \in Sides : Holds(d, s)
      /\ \A s \in Sides : NoneLeft(d, s)
  BY <1>1 DEF UnderstoodAs
<1>3. PICK o : o = Other(side)
  OBVIOUS
<1>4. o \in Sides /\ o # side /\ Other(o) = side /\ \A s \in Sides : s = side \/ s = o
  BY <1>3, Others
<1>5. pos'[side] = pos[side] + n /\ pos'[o] = pos[o]
  BY <1>4 DEF TypeOK
<1>6. PICK st, p, e : st = Stream(side) /\ p = pos[side] /\ e = End(side, d[side])
  OBVIOUS
<1>7. /\ st \in Seq(0 .. 255) /\ p \in Nat /\ e \in Nat /\ e <= p /\ p + n <= Len(st)
      /\ p + n \in Nat /\ Len(st) \in Nat /\ d[side] \in 0 .. Len(Script(side))
  <2>1. st \in Seq(0 .. 255) /\ Len(st) \in Nat
    BY <1>6, StreamFacts
  <2>2. d[side] \in 0 .. Len(Script(side)) /\ e <= p
    BY <1>2, <1>6 DEF Consumed
  <2>3. e \in Nat
    BY <1>6, <2>2, StreamFacts
  <2> QED BY <1>6, <2>1, <2>2, <2>3 DEF TypeOK
<1>8. End(o, d[o]) = pos[o]
  BY <1>2, <1>3, <1>4, Caught
<1>9. data = SubSeq(st, e + 1, p)
  <2>1. CASE Holds(d, side)
    BY <1>6, <2>1 DEF Holds
  <2>2. CASE Holds(d, o)
    <3>1. e = p /\ data = SubSeq(Stream(o), pos[o] + 1, pos[o])
      BY <1>4, <1>6, <1>8, <2>2 DEF Holds
    <3>2. pos[o] + 1 \in Int /\ pos[o] \in Int /\ pos[o] < pos[o] + 1
      <4>1. Len(Stream(o)) \in Nat
        BY <1>4, StreamFacts
      <4> QED BY <1>4, <4>1 DEF TypeOK
    <3>3. data = <<>>
      BY <3>1, <3>2, SubSeqEmpty
    <3>4. SubSeq(st, e + 1, p) = <<>>
      BY <1>7, <3>1, SubSeqEmpty
    <3> QED BY <3>3, <3>4
  <2> QED BY <1>2, <1>4, <2>1, <2>2
<1>10. data' = SubSeq(st, e + 1, p + n)
  <2>1. p <= p + n
    BY <1>7
  <2>2. SubSeq(st, e + 1, p) \o SubSeq(st, p + 1, p + n) = SubSeq(st, e + 1, p + n)
    BY <1>7, <2>1, Join
  <2> QED BY <1>6, <1>9, <2>2 DEF DataAppend
<1>11. Holds(d, side)'
  BY <1>3, <1>5, <1>6, <1>8, <1>10 DEF Holds
<1>12. NoneLeft(d, o)'
  BY <1>2, <1>4, <1>5 DEF NoneLeft
<1>13. Consumed(d)'
  <2>1. \A s \in Sides : Traced(s)' = Traced(s)
    BY DEF Traced
  <2>2. End(side, d[side]) <= pos'[side]
    BY <1>5, <1>6, <1>7
  <2>3. \A s \in Sides : End(s, d[s]) <= pos'[s]
    BY <1>2, <1>4, <1>5, <2>2 DEF Consumed
  <2> QED BY <1>2, <2>1, <2>3 DEF Consumed
<1>14. RefusalLast(d)'
  <2> SUFFICES ASSUME NEW i \in DOMAIN ServerScript, d["server"] < i,
                      ServerScript[i].line = NoLine
               PROVE  pos'["server"] <= End("server", i)
    BY DEF RefusalLast
  <2>1. CASE side = "server"
    <3>1. pos["server"] + n <= End("server", i)
      <4>1. /\ NoneLeft(d, "server") /\ Arrives("server", n)
            /\ pos["server"] + n <= Len(Stream("server"))
        BY <1>2, <2>1
      <4> QED BY <1>2, <4>1, RefusalWaits
    <3> QED BY <1>5, <2>1, <3>1
  <2>2. CASE side # "server"
    <3>1. o = "server"
      BY <1>3, <2>2 DEF Other, Sides
    <3> QED BY <1>2, <1>5, <3>1 DEF RefusalLast
  <2> QED BY <2>1, <2>2
<1>15. pc' \in Sides /\ pc' # "idle"
  BY DEF Sides
<1>16. UnderstoodAs(d)'
  BY <1>3, <1>11, <1>12, <1>13, <1>14, <1>15 DEF UnderstoodAs
<1> QED BY <1>1, <1>16 DEF Understood, Tallies

\* A read keeps the invariant.
LEMMA DecoderInvRead ==
  ASSUME Invariant, Conversation, NEW side \in Sides, Read(side)
  PROVE  DecoderInv'
<1>1. PICK n \in 1 .. MaxChunk :
        /\ pc = "idle" /\ pos[side] + n <= Len(Stream(side))
        /\ Arrives(side, n)
        /\ Orderly => AtBoundary(Other(side)) /\ ~Cuts(side, n)
        /\ data' = DataAppend(SubSeq(Stream(side), pos[side] + 1, pos[side] + n))
        /\ pos' = [pos EXCEPT ![side] = @ + n]
        /\ pc' = side
        /\ mixed' = (mixed \/ ~AtBoundary(Other(side)))
        /\ cut' = (cut \/ Cuts(side, n))
        /\ UNCHANGED <<trace, refused>>
  BY Zenon DEF Read
<1>2. TypeOK /\ DecoderInv /\ TypeOK'
  BY TypeRead DEF Invariant
<1>3. n \in Nat /\ n > 0
  BY DecoderAssumption
<1>4. Other(side) \in Sides /\ Other(side) # side
  BY Others
<1>5. pos'[side] = pos[side] + n /\ \A s \in Sides : s # side => pos'[s] = pos[s]
  BY <1>1, <1>2 DEF TypeOK
<1>6. Answered'
  BY <1>1, <1>2, <1>3, <1>4, <1>5, AnsweredRead DEF DecoderInv
<1>7. Orderly => ~mixed' /\ ~cut'
  BY <1>1, <1>2, Zenon DEF DecoderInv
<1>8. ~cut' => NotCut'
  <2> SUFFICES ASSUME ~cut', NEW s \in Sides, NEW k \in DOMAIN Script(s), Script(s)[k].whole
               PROVE  pos'[s] <= End(s, k - 1) \/ End(s, k) <= pos'[s]
    BY DEF NotCut
  <2>1. ~cut /\ ~Cuts(side, n) /\ NotCut
    BY <1>1, <1>2, Zenon DEF DecoderInv
  <2>2. CASE s # side
    BY <1>5, <2>1, <2>2, Zenon DEF NotCut
  <2>3. CASE s = side
    <3>1. ~(End(side, k - 1) < pos[side] + n /\ pos[side] + n < End(side, k))
      BY <2>1, <2>3, Zenon DEF Cuts
    <3>2. k - 1 \in 0 .. Len(Script(side)) /\ k \in 0 .. Len(Script(side))
      BY <2>3, ScriptType
    <3>3. End(side, k - 1) \in Nat /\ End(side, k) \in Nat /\ Len(Stream(side)) \in Nat
      BY <3>2, StreamFacts
    <3>4. pos[side] \in Nat
      BY <1>2, <3>3 DEF TypeOK
    <3> QED BY <1>3, <1>5, <2>3, <3>1, <3>3, <3>4
  <2> QED BY <2>2, <2>3
<1>9. ~cut' /\ ~mixed' => Understood' /\ ~refused'
  <2> SUFFICES ASSUME ~cut', ~mixed' PROVE Understood' /\ ~refused'
    OBVIOUS
  <2>1. ~cut /\ ~mixed /\ AtBoundary(Other(side))
    BY <1>1, Zenon
  <2>2. Understood /\ ~refused /\ Answered
    BY <1>2, <2>1, Zenon DEF DecoderInv
  <2>3. Understood'
    BY <1>1, <1>2, <1>3, <2>1, <2>2, UnderstoodRead
  <2> QED BY <1>1, <2>2, <2>3, Zenon
<1> QED BY <1>6, <1>7, <1>8, <1>9 DEF DecoderInv

\* What the trace has for a side when a handler writes a line.
LEMMA LineWritten ==
  ASSUME TypeOK, NEW side \in Sides, NEW kind \in 1 .. 255, trace' = Append(trace, <<side, kind>>)
  PROVE  Traced(side)' = Traced(side) \o <<kind>> /\ Traced(Other(side))' = Traced(Other(side))
<1>1. trace \in Lines /\ <<side, kind>> \in Sides \X (1 .. 255)
  BY DEF TypeOK, Lines
<1>2. \A s \in Sides : Traced(s) = TracedIn(trace, s) /\ Traced(s)' = TracedIn(trace', s)
  BY Zenon DEF Traced, TracedIn, Mine
<1>3. Other(side) \in Sides /\ Other(side) # side
  BY Others
<1>4. Mine(side, <<side, kind>>) = <<kind>> /\ Mine(Other(side), <<side, kind>>) = <<>>
  BY <1>3 DEF Mine
<1>5. Traced(side)' = Traced(side) \o <<kind>>
  BY <1>1, <1>2, <1>4, TracedStep
<1>6. Traced(Other(side))' = Traced(Other(side)) \o <<>>
  BY <1>1, <1>2, <1>3, <1>4, TracedStep
<1>7. Traced(Other(side)) \in Seq(0 .. 255)
  BY <1>1, <1>2, <1>3, TracedStep
<1> QED BY <1>5, <1>6, <1>7, ConcatEmptySeq


\* The kind byte of a complete message.
LEMMA TypeBounds ==
  ASSUME TypeOK
  PROVE  data \in Seq(0 .. 255) /\ Len(data) \in Nat /\ (IsMessage => data[1] \in 1 .. 255)
<1>1. data \in Seq(0 .. 255) /\ Len(data) \in Nat
  BY SizeType DEF TypeOK
<1>2. IsMessage => data[1] \in 1 .. 255
  <2>1. Len(data) >= 5 => 1 \in 1 .. Len(data)
    BY <1>1
  <2>2. Len(data) >= 5 => data[1] \in 0 .. 255
    BY <1>1, <2>1, ElementOfSeq, Zenon
  <2> QED BY <2>2 DEF IsMessage
<1> QED BY <1>1, <1>2

\* A message without a line adds nothing to the trace.
LEMMA KindOfNoLine ==
  ASSUME NEW m, m.line = NoLine
  PROVE  Kind(m) = <<>>
  BY DEF Kind

\* The steps of a handler on a buffer that it has understood.
LEMMA UnderstoodHandler ==
  ASSUME TypeOK, Conversation, NotCut, Understood, Handler
  PROVE  Understood' /\ (refused' => refused)
<1>1. PICK d \in Tallies : UnderstoodAs(d)
  BY DEF Understood, Tallies
<1>2. /\ Consumed(d) /\ RefusalLast(d)
      /\ pc \in Sides => Holds(d, pc) /\ NoneLeft(d, Other(pc))
  BY <1>1, Zenon DEF UnderstoodAs
<1>3. /\ data \in Seq(0 .. 255) /\ Len(data) \in Nat /\ (IsMessage => data[1] \in 1 .. 255)
  BY TypeBounds
<1>4. /\ "client" \in Sides /\ "server" \in Sides /\ "client" # "server"
      /\ Other("client") = "server" /\ Other("server") = "client"
      /\ \A s \in Sides : s = "client" \/ s = "server"
  BY DEF Sides, Other
<1>5. pc = "client" =>
        /\ IsStartup =>
              /\ d["client"] < Len(Script("client")) /\ NextMessage(d, "client").line = NoLine
              /\ PacketSize = Len(NextMessage(d, "client").bytes) /\ PacketSize <= Len(data)
              /\ PacketSize >= 8 /\ Request \in Requests \ {ProtocolTwo}
        /\ IsMessage =>
              /\ d["client"] < Len(Script("client")) /\ NextMessage(d, "client").line # NoLine
              /\ data[1] = NextMessage(d, "client").line
              /\ Size = Len(NextMessage(d, "client").bytes)
              /\ Size <= Len(data) /\ Size >= 5
        /\ ~IsStartup /\ ~IsMessage => NoneLeft(d, "client")
  BY <1>2, <1>4, ClientFront
<1>6. pc = "server" =>
        /\ IsMessage =>
              /\ d["server"] < Len(Script("server")) /\ NextMessage(d, "server").line # NoLine
              /\ data[1] = NextMessage(d, "server").line
              /\ Size = Len(NextMessage(d, "server").bytes)
              /\ Size <= Len(data) /\ Size >= 5
        /\ IsRefusal =>
              /\ d["server"] < Len(Script("server")) /\ NextMessage(d, "server").line = NoLine
              /\ Len(NextMessage(d, "server").bytes) = 1 /\ Len(data) = 1
        /\ ~IsRefusal /\ ~IsMessage => NoneLeft(d, "server")
  BY <1>2, <1>4, ServerFront
<1>7. ASSUME pos' = pos, trace' = trace, pc' \notin Sides, pc' # "idle"
      PROVE  Understood'
  <2>1. Consumed(d)' /\ RefusalLast(d)'
    <3>1. \A s \in Sides : Traced(s)' = Traced(s)
      BY <1>7 DEF Traced
    <3> QED BY <1>2, <1>7, <3>1 DEF Consumed, RefusalLast
  <2>2. UnderstoodAs(d)'
    BY <1>7, <2>1 DEF UnderstoodAs
  <2> QED BY <1>1, <2>2 DEF Understood, Tallies
<1>8. ASSUME NEW side \in Sides, pc = side, NoneLeft(d, side), pos' = pos, data' = data,
             trace' = trace, pc' = "idle"
      PROVE  Understood'
  <2>1. Consumed(d)' /\ RefusalLast(d)'
    <3>1. \A s \in Sides : Traced(s)' = Traced(s)
      BY <1>8 DEF Traced
    <3> QED BY <1>2, <1>8, <3>1 DEF Consumed, RefusalLast
  <2>2. Holds(d, side)'
    BY <1>2, <1>8 DEF Holds
  <2>3. \A s \in Sides : NoneLeft(d, s)'
    <3>1. NoneLeft(d, side)' /\ NoneLeft(d, Other(side))'
      BY <1>2, <1>8 DEF NoneLeft
    <3> QED BY <3>1, Others
  <2>4. pc' \notin Sides
    BY <1>8 DEF Sides
  <2>5. UnderstoodAs(d)'
    BY <1>8, <2>1, <2>2, <2>3, <2>4, Zenon DEF UnderstoodAs
  <2> QED BY <1>1, <2>5 DEF Understood, Tallies
<1>9. CASE ClientStartup
  <2>1. /\ pc = "client" /\ IsStartup /\ data' = DataRemove(PacketSize) /\ pos' = pos
        /\ pc' = "client" /\ trace' = trace /\ (Request # ProtocolTwo => (refused' => refused))
    BY <1>9 DEF ClientStartup
  <2>2. /\ d["client"] < Len(Script("client")) /\ NextMessage(d, "client").line = NoLine
        /\ PacketSize = Len(NextMessage(d, "client").bytes) /\ PacketSize <= Len(data)
        /\ Request # ProtocolTwo
    BY <1>5, <2>1
  <2>3. Traced("client")' = Traced("client") /\ Traced("server")' = Traced("server")
    BY <2>1 DEF Traced
  <2>4. Kind(NextMessage(d, "client")) = <<>>
    BY <2>2, KindOfNoLine
  <2>5. Traced("client") \o <<>> = Traced("client")
    <3>1. trace \in Lines /\ Traced("client") = TracedIn(trace, "client")
      BY Zenon DEF TypeOK, Lines, Traced, TracedIn, Mine
    <3>2. <<"client", 1>> \in Sides \X (1 .. 255)
      BY <1>4
    <3>3. Traced("client") \in Seq(0 .. 255)
      BY <1>4, <3>1, <3>2, TracedStep
    <3> QED BY <3>3, ConcatEmptySeq
  <2>6. Understood'
    <3>1. Traced("client")' = Traced("client") \o Kind(NextMessage(d, "client"))
      BY <2>3, <2>4, <2>5
    <3>2. Traced(Other("client"))' = Traced(Other("client"))
      BY <1>4, <2>3
    <3>3. Len(NextMessage(d, "client").bytes) <= Len(data)
          /\ data' = DataRemove(Len(NextMessage(d, "client").bytes))
      BY <2>1, <2>2
    <3> QED BY <1>1, <1>4, <2>1, <2>2, <3>1, <3>2, <3>3, Advance
  <2> QED BY <2>1, <2>2, <2>6
<1>10. ASSUME NEW side \in Sides, pc = side, pc' = side, IsMessage,
              trace' = Append(trace, <<side, data[1]>>), data' = DataRemove(Size), pos' = pos
       PROVE  Understood'
  <2>1. /\ d[side] < Len(Script(side)) /\ NextMessage(d, side).line # NoLine
        /\ data[1] = NextMessage(d, side).line /\ Size = Len(NextMessage(d, side).bytes)
        /\ Size <= Len(data)
    BY <1>4, <1>5, <1>6, <1>10
  <2>2. Traced(side)' = Traced(side) \o <<data[1]>> /\ Traced(Other(side))' = Traced(Other(side))
    BY <1>3, <1>10, LineWritten
  <2>3. Kind(NextMessage(d, side)) = <<data[1]>>
    BY <2>1 DEF Kind
  <2>4. /\ Len(NextMessage(d, side).bytes) <= Len(data)
        /\ data' = DataRemove(Len(NextMessage(d, side).bytes))
        /\ Traced(side)' = Traced(side) \o Kind(NextMessage(d, side))
    BY <1>10, <2>1, <2>2, <2>3
  <2> QED BY <1>1, <1>10, <2>1, <2>2, <2>4, Advance
<1>11. CASE ClientMessage
  <2>1. /\ pc = "client" /\ pc' = "client" /\ IsMessage /\ data' = DataRemove(Size) /\ pos' = pos
        /\ trace' = OutputWrite(<<"client", data[1]>>) /\ refused' = refused
    BY <1>11 DEF ClientMessage, FrontendLine
  <2>2. Size >= 5
    BY <1>5, <2>1
  <2>3. trace' = Append(trace, <<"client", data[1]>>)
    BY <2>1, <2>2, SizeType DEF OutputWrite, TypeOK
  <2> QED BY <1>4, <1>10, <2>1, <2>3
<1>12. CASE ServerMessage
  <2>1. /\ pc = "server" /\ pc' = "server" /\ IsMessage /\ data' = DataRemove(Size) /\ pos' = pos
        /\ trace' = OutputWrite(<<"server", data[1]>>) /\ refused' = refused
    BY <1>12 DEF ServerMessage, BackendLine
  <2>2. Size >= 5
    BY <1>6, <2>1
  <2>3. trace' = Append(trace, <<"server", data[1]>>)
    BY <2>1, <2>2, SizeType DEF OutputWrite, TypeOK
  <2> QED BY <1>4, <1>10, <2>1, <2>3
<1>13. CASE ServerRefusal
  <2>1. /\ pc = "server" /\ IsRefusal /\ data' = DataRemove(1) /\ pos' = pos
        /\ pc' = "server" /\ trace' = trace /\ refused' = refused
    BY <1>13 DEF ServerRefusal
  <2>2. /\ d["server"] < Len(Script("server")) /\ NextMessage(d, "server").line = NoLine
        /\ Len(NextMessage(d, "server").bytes) = 1 /\ Len(data) = 1
    BY <1>6, <2>1
  <2>3. Traced("client")' = Traced("client") /\ Traced("server")' = Traced("server")
    BY <2>1 DEF Traced
  <2>4. Kind(NextMessage(d, "server")) = <<>>
    BY <2>2, KindOfNoLine
  <2>5. Traced("server") \o <<>> = Traced("server")
    <3>1. trace \in Lines /\ Traced("server") = TracedIn(trace, "server")
      BY Zenon DEF TypeOK, Lines, Traced, TracedIn, Mine
    <3>2. <<"server", 1>> \in Sides \X (1 .. 255)
      BY <1>4
    <3>3. Traced("server") \in Seq(0 .. 255)
      BY <1>4, <3>1, <3>2, TracedStep
    <3> QED BY <3>3, ConcatEmptySeq
  <2>6. Understood'
    <3>1. Traced("server")' = Traced("server") \o Kind(NextMessage(d, "server"))
      BY <2>3, <2>4, <2>5
    <3>2. Traced(Other("server"))' = Traced(Other("server"))
      BY <1>4, <2>3
    <3>3. Len(NextMessage(d, "server").bytes) <= Len(data)
          /\ data' = DataRemove(Len(NextMessage(d, "server").bytes))
      <4>1. 1 <= 1
        OBVIOUS
      <4> QED BY <2>1, <2>2, <4>1, Zenon
    <3> QED BY <1>1, <1>4, <2>1, <2>2, <3>1, <3>2, <3>3, Advance
  <2> QED BY <2>1, <2>6
<1>14. CASE ClientDone
  <2>1. NoneLeft(d, "client")
    BY <1>5, <1>14 DEF ClientDone
  <2> QED BY <1>4, <1>8, <1>14, <2>1 DEF ClientDone
<1>15. CASE ServerDone
  <2>1. NoneLeft(d, "server")
    BY <1>6, <1>15 DEF ServerDone
  <2> QED BY <1>4, <1>8, <1>15, <2>1 DEF ServerDone
<1>16. CASE ClientStartupFails \/ OverreadKills
  <2>1. pos' = pos /\ trace' = trace /\ pc' = "dead" /\ refused' = refused
    BY <1>16 DEF ClientStartupFails, OverreadKills
  <2>2. pc' \notin Sides /\ pc' # "idle"
    BY <2>1 DEF Sides
  <2> QED BY <1>7, <2>1, <2>2
<1> QED BY <1>9, <1>11, <1>12, <1>13, <1>14, <1>15, <1>16 DEF Handler


\* A handler keeps the invariant.
LEMMA DecoderInvHandler ==
  ASSUME Invariant, Conversation, Handler
  PROVE  DecoderInv'
<1>1. TypeOK /\ DecoderInv
  BY DEF Invariant
<1>2. pos' = pos /\ mixed' = mixed /\ cut' = cut
  BY DEF Handler, ClientStartup, ClientStartupFails, ClientMessage, ClientDone, ServerRefusal,
         ServerMessage, ServerDone, OverreadKills
<1>3. Answered'
  <2>1. \A s \in Sides : Delivered(s)' = Delivered(s)
    BY <1>2 DEF Delivered
  <2>2. \A s \in Sides : Other(s) \in Sides
    BY Others
  <2> QED BY <1>1, <1>2, <2>1, <2>2 DEF DecoderInv, Answered, MaySend
<1>4. (Orderly => ~mixed' /\ ~cut') /\ (~cut' => NotCut')
  BY <1>1, <1>2, Zenon DEF DecoderInv, NotCut
<1>5. ASSUME ~cut', ~mixed' PROVE Understood' /\ ~refused'
  <2>1. NotCut /\ Understood /\ ~refused
    BY <1>1, <1>2, <1>5, Zenon DEF DecoderInv
  <2>2. Understood' /\ (refused' => refused)
    BY <1>1, <2>1, UnderstoodHandler
  <2> QED BY <2>1, <2>2
<1> QED BY <1>3, <1>4, <1>5, Zenon DEF DecoderInv

\* So does a step that changes nothing.
LEMMA DecoderInvStutter ==
  ASSUME Invariant, UNCHANGED vars
  PROVE  DecoderInv'
<1>1. /\ pos' = pos /\ data' = data /\ pc' = pc /\ trace' = trace /\ refused' = refused
      /\ mixed' = mixed /\ cut' = cut
  BY DEF vars
<1>2. \A s \in Sides : Delivered(s)' = Delivered(s) /\ Traced(s)' = Traced(s)
  BY <1>1 DEF Delivered, Traced
<1>3. Answered => Answered'
  <2>1. \A s \in Sides : Other(s) \in Sides
    BY Others
  <2> QED BY <1>1, <1>2, <2>1 DEF Answered, MaySend
<1>4. NotCut => NotCut'
  BY <1>1, Zenon DEF NotCut
<1>5. Understood => Understood'
  <2> SUFFICES ASSUME NEW d \in Tallies, UnderstoodAs(d) PROVE UnderstoodAs(d)'
    BY Zenon DEF Understood, Tallies
  <2>1. Consumed(d)' /\ RefusalLast(d)'
    BY <1>1, <1>2 DEF UnderstoodAs, Consumed, RefusalLast
  <2>2. \A s : (Holds(d, s) => Holds(d, s)') /\ (NoneLeft(d, s) => NoneLeft(d, s)')
    BY <1>1 DEF Holds, NoneLeft
  <2> QED BY <1>1, <2>1, <2>2, Zenon DEF UnderstoodAs
<1> QED BY <1>1, <1>3, <1>4, <1>5, Zenon DEF Invariant, DecoderInv

\* At the start nothing has been taken off, and the buffer is empty.
LEMMA DecoderInvInit ==
  ASSUME Init
  PROVE  DecoderInv
<1>1. /\ \A s \in Sides : pos[s] = 0
      /\ data = <<>> /\ pc = "idle" /\ trace = <<>> /\ ~refused /\ ~mixed /\ ~cut
  BY DEF Init
<1>2. ASSUME NEW s \in Sides, NEW k \in 0 .. Len(Script(s)) PROVE End(s, k) \in Nat
  BY StreamFacts
<1>3. \A s \in Sides : \A k \in DOMAIN Script(s) :
         k - 1 \in 0 .. Len(Script(s)) /\ k \in 0 .. Len(Script(s))
  BY ScriptType
<1>4. Answered
  <2> SUFFICES ASSUME NEW s \in Sides, NEW k \in DOMAIN Script(s), End(s, k - 1) < pos[s]
               PROVE  FALSE
    BY DEF Answered
  <2>1. End(s, k - 1) \in Nat
    BY <1>2, <1>3
  <2> QED BY <1>1, <2>1
<1>5. NotCut
  <2> SUFFICES ASSUME NEW s \in Sides, NEW k \in DOMAIN Script(s) PROVE pos[s] <= End(s, k - 1)
    BY DEF NotCut
  <2>1. End(s, k - 1) \in Nat
    BY <1>2, <1>3
  <2> QED BY <1>1, <2>1
<1>6. PICK d : d = [s \in Sides |-> 0]
  OBVIOUS
<1>7. d \in Tallies /\ \A s \in Sides : d[s] = 0
  <2>1. 0 \in 0 .. Len(ClientScript) + Len(ServerScript)
    <3>1. "client" \in Sides
      BY DEF Sides
    <3> QED BY <3>1, ScriptBound
  <2> QED BY <1>6, <2>1 DEF Tallies
<1>8. \A s \in Sides : /\ End(s, 0) = 0 /\ 0 \in 0 .. Len(Script(s)) /\ Len(Script(s)) \in Nat
                       /\ FirstKinds(s, 0) = <<>>
  BY StreamFacts, KindsFacts, ScriptType
<1>9. \A s \in Sides : Traced(s) = <<>>
  <2> TAKE s \in Sides
  <2>1. Traced(s) = TracedIn(<<>>, s)
    BY <1>1, Zenon DEF Traced, TracedIn, Mine
  <2>2. [i \in DOMAIN <<>> |-> Mine(s, <<>>[i])] = <<>>
    OBVIOUS
  <2> QED BY <2>1, <2>2, FlattenEmpty DEF TracedIn
<1>10. Consumed(d)
  BY <1>1, <1>7, <1>8, <1>9 DEF Consumed, FirstKinds
<1>11. RefusalLast(d)
  <2> SUFFICES ASSUME NEW k \in DOMAIN ServerScript PROVE pos["server"] <= End("server", k)
    BY DEF RefusalLast
  <2>1. "server" \in Sides /\ Script("server") = ServerScript
    BY DEF Sides, Script
  <2>2. End("server", k) \in Nat
    BY <1>2, <1>3, <2>1
  <2> QED BY <1>1, <2>1, <2>2
<1>12. Holds(d, "client")
  <2>1. "client" \in Sides /\ "server" \in Sides /\ Other("client") = "server"
    BY DEF Sides, Other
  <2>2. SubSeq(Stream("client"), 0 + 1, 0) = <<>>
    BY SubSeqEmpty
  <2> QED BY <1>1, <1>7, <1>8, <2>1, <2>2 DEF Holds
<1>13. ASSUME NEW s \in Sides PROVE NoneLeft(d, s)
  <2> SUFFICES ASSUME 0 < Len(Script(s)) PROVE 0 < End(s, 0 + 1)
    BY <1>1, <1>7 DEF NoneLeft
  <2>1. 0 \in 0 .. Len(Script(s)) - 1 /\ 0 + 1 \in 1 .. Len(Script(s))
    BY <1>8
  <2>2. End(s, 0 + 1) = End(s, 0) + Len(Script(s)[0 + 1].bytes)
    BY <2>1, StreamFacts
  <2>3. Len(Script(s)[0 + 1].bytes) \in Nat /\ Len(Script(s)[0 + 1].bytes) > 0
    BY <2>1, ScriptType
  <2> QED BY <1>8, <2>2, <2>3
<1>14. UnderstoodAs(d)
  <2>1. "client" \in Sides /\ pc \notin Sides
    BY <1>1 DEF Sides
  <2> QED BY <1>10, <1>11, <1>12, <1>13, <2>1 DEF UnderstoodAs
<1>15. Understood
  BY <1>7, <1>14 DEF Understood, Tallies
<1> QED BY <1>1, <1>4, <1>5, <1>15 DEF DecoderInv

\* The inductive invariant of the decoder.
LEMMA InvariantHolds ==
  Conversation => (Spec => []Invariant)
<1> SUFFICES ASSUME Conversation PROVE Spec => []Invariant
  OBVIOUS
<1>1. Init => Invariant
  BY TypeInit, DecoderInvInit DEF Invariant
<1>2. Invariant /\ [Next]_vars => Invariant'
  <2> SUFFICES ASSUME Invariant, [Next]_vars PROVE Invariant'
    OBVIOUS
  <2>1. TypeOK'
    BY TypeRead, TypeHandler, TypeStutter DEF Next, Invariant
  <2>2. DecoderInv'
    BY DecoderInvRead, DecoderInvHandler, DecoderInvStutter DEF Next
  <2> QED BY <2>1, <2>2 DEF Invariant
<1> QED BY <1>1, <1>2, PTL DEF Spec

-----------------------------------------------------------------------------
(* What follows for the trace file. *)

\* A sequence cut in two.
LEMMA CutInTwo ==
  ASSUME NEW s \in Seq(0 .. 255), NEW n \in Nat, n <= Len(s)
  PROVE  /\ SubSeq(s, 1, n) \in Seq(0 .. 255) /\ Len(SubSeq(s, 1, n)) = n
         /\ \A i \in 1 .. n : SubSeq(s, 1, n)[i] = s[i]
         /\ SubSeq(s, n + 1, Len(s)) \in Seq(0 .. 255)
         /\ Len(SubSeq(s, n + 1, Len(s))) = Len(s) - n
         /\ \A i \in 1 .. Len(s) - n : SubSeq(s, n + 1, Len(s))[i] = s[n + i]
<1>1. Len(s) \in Nat
  BY LenProperties
<1>2. /\ SubSeq(s, 1, n) \in Seq(0 .. 255) /\ Len(SubSeq(s, 1, n)) = n
      /\ \A i \in 1 .. n : SubSeq(s, 1, n)[i] = s[i]
  <2>1. n \in 0 .. Len(s)
    BY <1>1
  <2>2. SubSeq(s, 1, n) \in Seq(0 .. 255) /\ Len(SubSeq(s, 1, n)) = n
    BY <2>1, PrefixStep
  <2>3. ASSUME NEW i \in 1 .. n PROVE SubSeq(s, 1, n)[i] = s[i]
    BY <1>1
  <2> QED BY <2>2, <2>3
<1>3. /\ SubSeq(s, n + 1, Len(s)) \in Seq(0 .. 255)
      /\ Len(SubSeq(s, n + 1, Len(s))) = Len(s) - n
      /\ \A i \in 1 .. Len(s) - n : SubSeq(s, n + 1, Len(s))[i] = s[n + i]
  <2>1. PICK c : c = Len(s)
    OBVIOUS
  <2>2. s \in Seq(0 .. 255) /\ n \in Nat /\ c \in Nat /\ n <= c /\ c <= Len(s)
    BY <1>1, <2>1
  <2>3. /\ SubSeq(s, n + 1, c) \in Seq(0 .. 255) /\ Len(SubSeq(s, n + 1, c)) = c - n
        /\ \A i \in 1 .. c - n : SubSeq(s, n + 1, c)[i] = s[n + i]
    BY <2>2, Between, Zenon
  <2> QED BY <2>1, <2>3
<1> QED BY <1>2, <1>3

\* A sequence that another one begins with is its prefix.
LEMMA FrontIsPrefix ==
  ASSUME NEW s \in Seq(0 .. 255), NEW t \in Seq(0 .. 255), Len(s) <= Len(t),
         \A i \in 1 .. Len(s) : t[i] = s[i]
  PROVE  IsPrefix(s, t)
<1>1. Len(s) \in Nat /\ Len(t) \in Nat
  BY LenProperties
<1>2. PICK n, u : n = Len(s) /\ u = SubSeq(t, 1, n)
  OBVIOUS
<1>3. u \in Seq(0 .. 255) /\ Len(u) = n /\ \A i \in 1 .. n : u[i] = t[i]
  BY <1>1, <1>2, CutInTwo
<1>4. u = s
  <2>1. Len(u) = Len(s) /\ \A i \in 1 .. Len(u) : u[i] = s[i]
    BY <1>2, <1>3
  <2> QED BY <1>3, <2>1, SeqEqual
<1>5. SubSeq(s, 1, n) = s
  BY <1>2, PrefixStep
<1> QED BY <1>2, <1>4, <1>5 DEF IsPrefix

\* The kinds of the first messages are a prefix of the script's.
LEMMA KindsArePrefix ==
  ASSUME NEW side \in Sides, NEW k \in 0 .. Len(Script(side))
  PROVE  IsPrefix(FirstKinds(side, k), KindsOf(Script(side)))
<1>1. PICK s, t : s = FirstKinds(side, k) /\ t = KindsOf(Script(side))
  OBVIOUS
<1>2. /\ s \in Seq(0 .. 255) /\ t \in Seq(0 .. 255) /\ Len(s) <= Len(t)
      /\ \A i \in 1 .. Len(s) : t[i] = s[i]
  BY <1>1, KindsFacts
<1> QED BY <1>1, <1>2, FrontIsPrefix

\* A decoder (protocol.c:92-405) whose buffer has not mixed the two directions, and that
\* got whole what it relies on, has written the lines of a side in their order, with none
\* missing and none invented, for every conversation that follows the protocol and every
\* way in which it is cut into chunks.
THEOREM TraceIsFaithful ==
  Conversation => (Spec => []FaithfulUntilConfused)
<1> SUFFICES ASSUME Conversation PROVE Spec => []FaithfulUntilConfused
  OBVIOUS
<1>1. Invariant => FaithfulUntilConfused
  <2> SUFFICES ASSUME Invariant, ~cut, ~mixed, NEW side \in Sides
               PROVE  IsPrefix(Traced(side), KindsOf(Script(side)))
    BY DEF FaithfulUntilConfused, TraceFaithful
  <2>1. PICK d \in Tallies : UnderstoodAs(d)
    BY DEF Invariant, DecoderInv, Understood, Tallies
  <2>2. Traced(side) = FirstKinds(side, d[side]) /\ d[side] \in 0 .. Len(Script(side))
    BY <2>1 DEF UnderstoodAs, Consumed, FirstKinds
  <2> QED BY <2>2, KindsArePrefix
<1> QED BY <1>1, InvariantHolds, PTL

\* When the peers take turns, the trace between two reads (protocol.c:201, 336) has a line
\* for every message that has arrived completely, and the buffer the rest of one message.
THEOREM TraceIsComplete ==
  Conversation /\ Orderly => (Spec => []TraceComplete)
<1> SUFFICES ASSUME Conversation, Orderly PROVE Spec => []TraceComplete
  OBVIOUS
<1>1. Invariant => TraceComplete
  <2> SUFFICES ASSUME Invariant, pc = "idle" PROVE TraceComplete
    BY DEF TraceComplete
  <2>1. TypeOK
    BY DEF Invariant
  <2>2. PICK d \in Tallies : UnderstoodAs(d)
    BY Zenon DEF Invariant, DecoderInv, Understood, Tallies
  <2>3. /\ Consumed(d) /\ \E s \in Sides : Holds(d, s)
        /\ \A s \in Sides : NoneLeft(d, s)
    BY <2>2 DEF UnderstoodAs
  <2>4. ASSUME NEW s \in Sides PROVE Delivered(s) = d[s]
    <3>1. PICK k, n, p : k = d[s] /\ n = Len(Script(s)) /\ p = pos[s]
      OBVIOUS
    <3>2. /\ n \in Nat /\ k \in 0 .. n /\ End(s, k) <= p /\ (k < n => p < End(s, k + 1))
          /\ p \in 0 .. Len(Stream(s)) /\ p \in Nat
      <4>1. Len(Stream(s)) \in Nat
        BY StreamFacts
      <4>2. n \in Nat
        BY <3>1, ScriptType
      <4>3. k \in 0 .. n /\ End(s, k) <= p /\ (k < n => p < End(s, k + 1))
        BY <2>3, <3>1, Zenon DEF Consumed, NoneLeft
      <4>4. p \in 0 .. Len(Stream(s))
        BY <2>1, <3>1, Zenon DEF TypeOK
      <4> QED BY <4>1, <4>2, <4>3, <4>4
    <3>3. PICK c : c = DeliveredAt(s, p)
      OBVIOUS
    <3>4. c \in 0 .. n /\ k <= c /\ (k + 1 <= c /\ k < n => End(s, k + 1) <= p)
      <4>1. c \in 0 .. n /\ \A j \in 0 .. n : j <= c <=> End(s, j) <= p
        BY <3>1, <3>2, <3>3, DeliveredFacts
      <4>2. k < n => k + 1 \in 0 .. n
        BY <3>2
      <4> QED BY <3>2, <4>1, <4>2
    <3>5. k < n => End(s, k + 1) \in Nat
      <4>1. k < n => k + 1 \in 0 .. n
        BY <3>2
      <4> QED BY <3>1, <4>1, StreamFacts
    <3>6. c = k
      BY <3>2, <3>4, <3>5
    <3> QED BY <3>1, <3>3, <3>6 DEF Delivered, DeliveredAt
  <2> QED BY <2>3, <2>4 DEF TraceComplete, Consumed, Holds
<1> QED BY <1>1, InvariantHolds, PTL


\* The message the handler looks at is of the script, and has arrived.
LEMMA Arrived ==
  ASSUME Invariant, Conversation, ~cut, ~mixed, NEW side \in Sides, pc = side,
         IsMessage \/ (side = "client" /\ IsStartup)
  PROVE  \E k \in DOMAIN Script(side) :
            /\ data = SubSeq(Stream(side), End(side, k - 1) + 1, pos[side])
            /\ End(side, k) <= pos[side] /\ Len(data) = pos[side] - End(side, k - 1)
            /\ Script(side)[k].bytes # << 78 >>
            /\ Len(Script(side)[k].bytes) <= Len(data)
            /\ \A i \in 1 .. Len(Script(side)[k].bytes) : data[i] = Script(side)[k].bytes[i]
            /\ IsMessage => /\ Script(side)[k].line = data[1] /\ data[1] # NoLine
                            /\ Traced(side) = FirstKinds(side, k - 1)
                            /\ Size = Len(Script(side)[k].bytes) /\ Size >= 5
            /\ side = "client" /\ IsStartup =>
                  PacketSize = Len(Script(side)[k].bytes) /\ PacketSize >= 8
<1>1. TypeOK /\ NotCut
  BY Zenon DEF Invariant, DecoderInv
<1>2. PICK d \in Tallies : UnderstoodAs(d)
  BY Zenon DEF Invariant, DecoderInv, Understood, Tallies
<1>3. Consumed(d) /\ RefusalLast(d) /\ Holds(d, side)
  BY <1>2 DEF UnderstoodAs
<1>4. PICK j, n, e, p, m : /\ j = d[side] /\ n = Len(Script(side)) /\ e = End(side, j)
                           /\ p = pos[side] /\ m = NextMessage(d, side)
  OBVIOUS
<1>5. side = "client" \/ side = "server"
  BY DEF Sides
<1>6. /\ j < n /\ Len(m.bytes) <= Len(data) /\ Len(m.bytes) >= 5
      /\ IsMessage => m.line = data[1] /\ data[1] # NoLine /\ Size = Len(m.bytes) /\ Size >= 5
      /\ side = "client" /\ IsStartup => PacketSize = Len(m.bytes) /\ PacketSize >= 8
  <2>1. CASE side = "client"
    <3>1. /\ IsStartup => /\ d["client"] < Len(Script("client"))
                          /\ PacketSize = Len(NextMessage(d, "client").bytes)
                          /\ PacketSize <= Len(data)
                          /\ PacketSize >= 8 /\ ~IsMessage
          /\ IsMessage => /\ d["client"] < Len(Script("client"))
                          /\ NextMessage(d, "client").line # NoLine
                          /\ data[1] = NextMessage(d, "client").line
                          /\ Size = Len(NextMessage(d, "client").bytes) /\ Size <= Len(data)
                          /\ Size >= 5
      <4>1. ~(IsStartup /\ IsMessage)
        BY DEF IsStartup, IsMessage
      <4> QED BY <1>1, <1>3, <2>1, <4>1, ClientFront
    <3>2. PacketSize \in Int /\ Size \in Int
      BY <1>1, SizeType DEF TypeOK
    <3> QED BY <1>4, <2>1, <3>1, <3>2
  <2>2. CASE side = "server"
    <3>1. /\ d["server"] < Len(Script("server")) /\ NextMessage(d, "server").line # NoLine
          /\ data[1] = NextMessage(d, "server").line
          /\ Size = Len(NextMessage(d, "server").bytes) /\ Size <= Len(data) /\ Size >= 5
      BY <1>1, <1>3, <2>2, ServerFront
    <3> QED BY <1>4, <2>2, <3>1
  <2> QED BY <1>5, <2>1, <2>2
<1>7. j \in 0 .. n /\ n \in Nat /\ DOMAIN Script(side) = 1 .. n /\ e <= p
      /\ data = SubSeq(Stream(side), e + 1, p)
      /\ Traced(side) = FirstKinds(side, j)
  BY <1>3, <1>4, ScriptType DEF Consumed, Holds, FirstKinds
<1>8. /\ Len(data) = p - e /\ e \in Nat /\ p \in Nat /\ Len(m.bytes) \in Nat
      /\ End(side, j + 1) = e + Len(m.bytes)
      /\ \A i \in 1 .. Len(data) : i <= Len(m.bytes) => data[i] = m.bytes[i]
  <2>1. /\ d[side] \in 0 .. Len(Script(side)) /\ End(side, d[side]) <= pos[side]
        /\ data = SubSeq(Stream(side), End(side, d[side]) + 1, pos[side])
    BY <1>4, <1>7
  <2> QED BY <1>1, <1>4, <1>6, <2>1, FrontFacts
<1>9. PICK k : k = j + 1
  OBVIOUS
<1>10. k \in DOMAIN Script(side) /\ k - 1 = j /\ m = Script(side)[k]
  <2>1. m = Script(side)[k]
    BY <1>4, <1>9 DEF NextMessage
  <2> QED BY <1>6, <1>7, <1>9, <2>1
<1>11. End(side, k) <= pos[side]
  BY <1>4, <1>6, <1>8, <1>9
<1>12. m.bytes # << 78 >>
  <2> SUFFICES ASSUME m.bytes = << 78 >> PROVE FALSE
    OBVIOUS
  <2>1. Len(<< 78 >>) = 1
    OBVIOUS
  <2>2. Len(m.bytes) = 1
    BY <2>1, Zenon
  <2> QED BY <1>6, <2>2
<1>13. \A i \in 1 .. Len(m.bytes) : data[i] = m.bytes[i]
  <2>1. \A i \in 1 .. Len(m.bytes) : i \in 1 .. Len(data) /\ i <= Len(m.bytes)
    BY <1>4, <1>6, <1>7, <1>8
  <2> QED BY <1>8, <2>1
<1> QED BY <1>4, <1>6, <1>7, <1>8, <1>10, <1>11, <1>12, <1>13

\* The bytes at the front of the buffer, and what pgprtdbg_data_remove leaves behind them.
LEMMA Taken ==
  ASSUME data \in Seq(0 .. 255), NEW b \in Seq(0 .. 255), Len(b) <= Len(data),
         \A i \in 1 .. Len(b) : data[i] = b[i], data' = DataRemove(Len(b))
  PROVE  data = b \o data'
<1>1. PICK x, n, y : x = data /\ n = Len(b) /\ y = SubSeq(x, n + 1, Len(x))
  OBVIOUS
<1>2. x \in Seq(0 .. 255) /\ n \in Nat /\ Len(x) \in Nat /\ n <= Len(x)
  BY <1>1, LenProperties
<1>3. y \in Seq(0 .. 255) /\ Len(y) = Len(x) - n /\ \A i \in 1 .. Len(x) - n : y[i] = x[n + i]
  BY <1>1, <1>2, CutInTwo
<1>4. PICK z : z = b \o y
  OBVIOUS
<1>5. /\ z \in Seq(0 .. 255) /\ Len(z) = n + Len(y)
      /\ \A i \in 1 .. n + Len(y) : z[i] = IF i <= n THEN b[i] ELSE y[i - n]
  <2>1. y \in Seq(0 .. 255)
    BY <1>3, Zenon
  <2>2. /\ b \o y \in Seq(0 .. 255) /\ Len(b \o y) = Len(b) + Len(y)
        /\ \A i \in 1 .. Len(b) + Len(y) :
              (b \o y)[i] = IF i <= Len(b) THEN b[i] ELSE y[i - Len(b)]
    BY <2>1, ConcatProperties
  <2> QED BY <1>1, <1>4, <2>2, Zenon
<1>6. Len(z) = Len(x)
  BY <1>2, <1>3, <1>5
<1>7. ASSUME NEW i \in 1 .. Len(x) PROVE x[i] = z[i]
  <2>1. CASE i <= n
    <3>1. x[i] = b[i]
      BY <1>1, <1>2, <2>1
    <3> QED BY <1>2, <1>3, <1>5, <2>1, <3>1
  <2>2. CASE ~(i <= n)
    <3>1. i - n \in 1 .. Len(x) - n /\ n + (i - n) = i
      BY <1>2, <2>2
    <3>2. y[i - n] = x[i]
      BY <1>3, <3>1
    <3> QED BY <1>2, <1>3, <1>5, <2>2, <3>2
  <2> QED BY <2>1, <2>2
<1>8. x = z
  BY <1>2, <1>5, <1>6, <1>7, SeqEqual
<1> QED BY <1>1, <1>4, <1>8 DEF DataRemove

\* The refusal of a request that the server's handler takes is of the script.
LEMMA RefusalArrived ==
  ASSUME Invariant, Conversation, ~cut, ~mixed, pc = "server", IsRefusal
  PROVE  \E k \in DOMAIN Script("server") : Script("server")[k].bytes = << 78 >>
<1>1. TypeOK /\ NotCut
  BY Zenon DEF Invariant, DecoderInv
<1>2. PICK d \in Tallies : UnderstoodAs(d)
  BY Zenon DEF Invariant, DecoderInv, Understood, Tallies
<1>3. Consumed(d) /\ RefusalLast(d) /\ Holds(d, "server")
  BY <1>2 DEF UnderstoodAs, Sides
<1>4. d["server"] < Len(Script("server")) /\ NextMessage(d, "server").line = NoLine
  BY <1>1, <1>3, ServerFront
<1>5. "server" \in Sides /\ Script("server") = ServerScript
  BY DEF Sides, Script
<1>6. d["server"] + 1 \in DOMAIN ServerScript
  BY <1>3, <1>4, <1>5, ScriptType DEF Consumed
<1>7. ServerScript[d["server"] + 1].bytes = << 78 >>
  BY <1>4, <1>5, <1>6, Zenon DEF NextMessage, Conversation, WellFormed
<1> QED BY <1>5, <1>6, <1>7

\* Until a packet is cut or the two directions meet, every iteration of the loops
\* (protocol.c:116-197, 221-332) takes exactly one message of its side off the buffer, for
\* every conversation and every way in which it is cut into chunks.
THEOREM EachIterationTakesOne ==
  Conversation => (Spec => TakesOneMessage)
<1> SUFFICES ASSUME Conversation PROVE Spec => TakesOneMessage
  OBVIOUS
<1>1. Invariant /\ [Next]_vars =>
        [pc' = pc /\ pc \in Sides /\ ~cut /\ ~mixed =>
            \E k \in DOMAIN Script(pc) : data = Script(pc)[k].bytes \o data']_vars
  <2> SUFFICES ASSUME Invariant, Next, pc' = pc, pc \in Sides, ~cut, ~mixed
               PROVE  \E k \in DOMAIN Script(pc) : data = Script(pc)[k].bytes \o data'
    BY DEF vars
  <2>1. data \in Seq(0 .. 255)
    BY DEF Invariant, TypeOK
  <2>2. ASSUME NEW side \in Sides, pc = side, IsMessage \/ (side = "client" /\ IsStartup),
               IsMessage => data' = DataRemove(Size),
               side = "client" /\ IsStartup => data' = DataRemove(PacketSize)
        PROVE  \E k \in DOMAIN Script(pc) : data = Script(pc)[k].bytes \o data'
    <3>1. PICK k \in DOMAIN Script(side) :
            /\ Len(Script(side)[k].bytes) <= Len(data)
            /\ \A i \in 1 .. Len(Script(side)[k].bytes) : data[i] = Script(side)[k].bytes[i]
            /\ IsMessage => Size = Len(Script(side)[k].bytes)
            /\ side = "client" /\ IsStartup => PacketSize = Len(Script(side)[k].bytes)
      BY <2>2, Arrived
    <3>2. Script(side)[k].bytes \in Seq(0 .. 255)
      BY ScriptType
    <3>3. data' = DataRemove(Len(Script(side)[k].bytes))
      BY <2>2, <3>1
    <3>4. data = Script(side)[k].bytes \o data'
      BY <2>1, <3>1, <3>2, <3>3, Taken
    <3> QED BY <2>2, <3>1, <3>4
  <2>3. ~(IsStartup /\ IsMessage)
    BY DEF IsStartup, IsMessage
  <2>4. CASE ClientStartup
    <3>1. pc = "client" /\ IsStartup /\ data' = DataRemove(PacketSize) /\ "client" \in Sides
      BY <2>4 DEF ClientStartup, Sides
    <3> QED BY <2>2, <2>3, <3>1
  <2>5. CASE ClientMessage
    <3>1. pc = "client" /\ IsMessage /\ data' = DataRemove(Size) /\ "client" \in Sides
      BY <2>5 DEF ClientMessage, Sides
    <3> QED BY <2>2, <2>3, <3>1
  <2>6. CASE ServerMessage
    <3>1. pc = "server" /\ IsMessage /\ data' = DataRemove(Size) /\ "server" \in Sides
      BY <2>6 DEF ServerMessage, Sides
    <3>2. ~("server" = "client")
      OBVIOUS
    <3> QED BY <2>2, <3>1, <3>2
  <2>7. CASE ServerRefusal
    <3>1. pc = "server" /\ data = << 78 >> /\ data' = DataRemove(1) /\ IsRefusal
      BY <2>7 DEF ServerRefusal, IsRefusal
    <3>2. PICK b : b = << 78 >>
      OBVIOUS
    <3>3. b \in Seq(0 .. 255) /\ Len(b) = 1 /\ Len(b) <= Len(b)
      BY <3>2
    <3>4. data = b \o data'
      BY <3>1, <3>2, <3>3, Taken
    <3>5. PICK k \in DOMAIN Script("server") : Script("server")[k].bytes = << 78 >>
      BY <3>1, RefusalArrived
    <3> QED BY <3>1, <3>2, <3>4, <3>5
  <2>8. ~(\/ ClientStartupFails \/ ClientDone \/ ServerDone \/ OverreadKills
          \/ \E side \in Sides : Read(side))
    BY DEF ClientStartupFails, ClientDone, ServerDone, OverreadKills, Read, Sides
  <2> QED BY <2>4, <2>5, <2>6, <2>7, <2>8 DEF Next, Handler
<1> QED BY <1>1, InvariantHolds, PTL DEF Spec, TakesOneMessage

\* A message that is complete has its size, so the loop goes on behind it.
LEMMA NoSpin ==
  ASSUME Invariant, Conversation, ~cut, ~mixed
  PROVE  ~Spins
<1> SUFFICES ASSUME Spins PROVE FALSE
  OBVIOUS
<1>1. CASE pc \in Sides /\ IsMessage /\ Size = 0
  <2>1. Size >= 5
    BY <1>1, Arrived
  <2> QED BY <1>1, <2>1
<1>2. CASE pc = "client" /\ IsStartup /\ PacketSize = 0
  <2>1. "client" \in Sides
    BY DEF Sides
  <2>2. PacketSize >= 8
    BY <1>2, <2>1, Arrived
  <2> QED BY <1>2, <2>2
<1> QED BY <1>1, <1>2 DEF Spins

\* In a conversation whose walks stay in the buffer nothing makes the decoder spin
\* (protocol.c:132, 190) or write to the client (protocol.c:480) before a packet has been
\* cut or the two directions have met, and nothing ends the worker (protocol.c:489,
\* utils.c:556) but a message too large for the stack (protocol.c:792, 892) at the front of
\* the buffer.
THEOREM NothingStopsTheDecoder ==
  Conversation /\ WalksStay => (Spec => []StopsOnlyConfused)
<1> SUFFICES ASSUME Conversation, WalksStay PROVE Spec => []StopsOnlyConfused
  OBVIOUS
<1> DEFINE Alive == ~cut /\ ~mixed /\ pc = "dead" => TooLargeInFront
<1>1. Init => Alive
  BY DEF Init
<1>2. Invariant /\ Alive /\ [Next]_vars => Alive'
  <2> SUFFICES ASSUME Invariant, Alive, [Next]_vars, ~cut', ~mixed', pc' = "dead"
               PROVE  TooLargeInFront'
    OBVIOUS
  <2>1. ~cut /\ ~mixed
    <3>1. CASE \E side \in Sides : Read(side)
      BY <3>1, Zenon DEF Read
    <3>2. CASE Handler
      <4>1. mixed' = mixed /\ cut' = cut
        BY <3>2 DEF Handler, ClientStartup, ClientStartupFails, ClientMessage, ClientDone,
             ServerRefusal, ServerMessage, ServerDone, OverreadKills
      <4> QED BY <4>1
    <3>3. CASE UNCHANGED vars
      BY <3>3 DEF vars
    <3> QED BY <3>1, <3>2, <3>3 DEF Next
  <2>2. data' = data /\ (pc = "dead" \/ ClientStartupFails \/ OverreadKills)
    BY DEF Next, Read, Handler, ClientStartup, ClientMessage, ClientDone, ServerRefusal,
         ServerMessage, ServerDone, ClientStartupFails, OverreadKills, vars, Sides
  <2>3. SUFFICES ASSUME pc # "dead" PROVE TooLargeInFront
    BY <2>1, <2>2 DEF TooLargeInFront
  <2>4. TypeOK /\ NotCut
    BY <2>1, Zenon DEF Invariant, DecoderInv
  <2>5. CASE ClientStartupFails
    <3>1. PICK d \in Tallies : UnderstoodAs(d)
      BY <2>1, Zenon DEF Invariant, DecoderInv, Understood, Tallies
    <3>2. /\ pc = "client" /\ IsStartup /\ (Request \notin Requests \/ PacketSize > Len(data))
      BY <2>5 DEF ClientStartupFails
    <3>3. Consumed(d) /\ Holds(d, "client")
      BY <3>1, <3>2 DEF UnderstoodAs, Sides
    <3>4. PacketSize <= Len(data) /\ Request \in Requests
      BY <2>4, <3>2, <3>3, ClientFront
    <3>5. PacketSize \in Int /\ Len(data) \in Nat
      BY <2>4, SizeType DEF TypeOK
    <3> QED BY <3>2, <3>4, <3>5
  <2>6. CASE OverreadKills
    <3>1. /\ pc \in Sides /\ ((pc = "client" /\ IsStartup) \/ IsMessage)
          /\ Overreads(pc, data)
      BY <2>6 DEF OverreadKills
    <3>2. PICK side \in Sides : side = pc
      BY <3>1
    <3>3. PICK k \in DOMAIN Script(side) :
            /\ data = SubSeq(Stream(side), End(side, k - 1) + 1, pos[side])
            /\ End(side, k) <= pos[side] /\ Len(data) = pos[side] - End(side, k - 1)
            /\ Script(side)[k].bytes # << 78 >>
            /\ Len(Script(side)[k].bytes) <= Len(data)
            /\ \A i \in 1 .. Len(Script(side)[k].bytes) : data[i] = Script(side)[k].bytes[i]
      BY <2>1, <3>1, <3>2, Arrived
    <3>4. pos[side] \in End(side, k) .. Len(Stream(side))
      <4>1. k \in 0 .. Len(Script(side))
        BY ScriptType
      <4>2. End(side, k) \in Nat /\ Len(Stream(side)) \in Nat
        BY <4>1, StreamFacts
      <4>3. pos[side] \in 0 .. Len(Stream(side))
        BY <2>4 DEF TypeOK
      <4> QED BY <3>3, <4>2, <4>3
    <3>5. TooLarge(side, Script(side)[k].bytes)
      <4> SUFFICES ASSUME ~TooLarge(side, Script(side)[k].bytes) PROVE FALSE
        OBVIOUS
      <4>1. ~Overreads(side, SubSeq(Stream(side), End(side, k - 1) + 1, pos[side]))
        BY <3>3, <3>4, Zenon DEF WalksStay
      <4> QED BY <3>1, <3>2, <3>3, <4>1, Zenon
    <3>6. IsPrefix(Script(side)[k].bytes, data)
      <4>1. Script(side)[k].bytes \in Seq(0 .. 255) /\ data \in Seq(0 .. 255)
        BY <2>4, ScriptType DEF TypeOK
      <4> QED BY <3>3, <4>1, FrontIsPrefix
    <3> QED BY <3>5, <3>6, Zenon DEF TooLargeInFront
  <2> QED BY <2>2, <2>3, <2>5, <2>6
<1>3. Invariant /\ Alive => StopsOnlyConfused
  <2> SUFFICES ASSUME Invariant, Alive, ~cut, ~mixed
               PROVE  ~Spins /\ ~refused /\ (pc = "dead" => TooLargeInFront)
    BY Zenon DEF StopsOnlyConfused
  <2>1. ~refused
    BY Zenon DEF Invariant, DecoderInv
  <2> QED BY <2>1, NoSpin
<1> QED BY <1>1, <1>2, <1>3, InvariantHolds, PTL DEF Spec


-----------------------------------------------------------------------------
(* The decoder implements the promise of the trace file. *)

\* A line that is written is the next of its side.
LEMMA NextLine ==
  ASSUME Invariant, Conversation, ~cut, ~mixed, NEW side \in Sides, pc = side, IsMessage,
         trace' = OutputWrite(<<side, data[1]>>)
  PROVE  Promise!Line(side)
<1>1. PICK k \in DOMAIN Script(side) :
        /\ Script(side)[k].line = data[1] /\ data[1] # NoLine
        /\ Traced(side) = FirstKinds(side, k - 1) /\ Size >= 5
  BY Arrived
<1>2. PICK n, s, t, u : /\ n = Len(Script(side)) /\ s = FirstKinds(side, k - 1)
                        /\ t = FirstKinds(side, k) /\ u = KindsOf(Script(side))
  OBVIOUS
<1>3. n \in Nat /\ k \in 1 .. n
  BY <1>2, ScriptType, Zenon
<1>4. k - 1 \in 0 .. n - 1 /\ k - 1 \in 0 .. n /\ k \in 0 .. n /\ (k - 1) + 1 = k
  BY <1>3
<1>5. t = s \o <<data[1]>>
  <2>1. FirstKinds(side, (k - 1) + 1)
          = FirstKinds(side, k - 1) \o Kind(Script(side)[(k - 1) + 1])
    BY <1>2, <1>4, KindsFacts, Zenon
  <2>2. Kind(Script(side)[k]) = <<data[1]>>
    BY <1>1 DEF Kind
  <2> QED BY <1>2, <1>4, <2>1, <2>2
<1>6. /\ s \in Seq(0 .. 255) /\ Len(t) <= Len(u) /\ u \in Seq(0 .. 255)
      /\ \A i \in 1 .. Len(t) : u[i] = t[i]
  BY <1>2, <1>4, KindsFacts
<1>7. data[1] \in 0 .. 255
  BY TypeBounds DEF Invariant
<1>8. /\ Len(t) = Len(s) + 1 /\ t[Len(s) + 1] = data[1] /\ Len(s) \in Nat
      /\ Len(s) + 1 \in 1 .. Len(t)
  BY <1>5, <1>6, <1>7
<1>9. Promise!LinesOf(side) = s
  <2>1. Promise!LinesOf(side) = Traced(side)
    BY Zenon DEF Promise!LinesOf, Promise!FlattenSeq, FlattenSeq, Traced
  <2> QED BY <1>1, <1>2, <2>1, Zenon
<1>10. [x \in Sides |-> KindsOf(Script(x))][side] = u
  BY <1>2
<1>11. u[Len(s) + 1] = data[1]
  BY <1>6, <1>8
<1>12. trace' = Append(trace, <<side, data[1]>>)
  <2>1. Size # 0
    BY <1>1
  <2> QED BY <2>1 DEF OutputWrite
<1> QED BY <1>6, <1>8, <1>9, <1>10, <1>11, <1>12 DEF Promise!Line

\* When the peers take turns, the decoder (protocol.c:92-405) only ever appends, for one
\* side, the kind of that side's next message: it implements what the trace file promises.
THEOREM DecoderImplementsMessageTrace ==
  Conversation /\ Orderly => (Spec => ImplementsMessageTrace)
<1> SUFFICES ASSUME Conversation, Orderly PROVE Spec => ImplementsMessageTrace
  OBVIOUS
<1>1. Init => Promise!Init
  BY DEF Init, Promise!Init
<1>2. Invariant /\ Invariant' /\ [Next]_vars => [Promise!Next]_trace
  <2> SUFFICES ASSUME Invariant, Invariant', [Next]_vars PROVE Promise!Next \/ trace' = trace
    OBVIOUS
  <2>1. ~cut /\ ~mixed /\ ~cut' /\ ~mixed'
    BY Zenon DEF Invariant, DecoderInv
  <2>2. DOMAIN [x \in Sides |-> KindsOf(Script(x))] = Sides
    OBVIOUS
  <2>3. ASSUME NEW side \in Sides, Promise!Line(side) PROVE Promise!Next
    BY <2>2, <2>3 DEF Promise!Next
  <2>4. CASE ClientMessage
    <3>1. /\ pc = "client" /\ IsMessage /\ trace' = OutputWrite(<<"client", data[1]>>)
          /\ "client" \in Sides
      BY <2>4 DEF ClientMessage, FrontendLine, Sides
    <3> QED BY <2>1, <2>3, <3>1, NextLine
  <2>5. CASE ServerMessage
    <3>1. /\ pc = "server" /\ IsMessage /\ trace' = OutputWrite(<<"server", data[1]>>)
          /\ "server" \in Sides
      BY <2>5 DEF ServerMessage, BackendLine, Sides
    <3> QED BY <2>1, <2>3, <3>1, NextLine
  <2>6. CASE \/ ClientStartup \/ ClientStartupFails \/ ClientDone \/ ServerRefusal
             \/ ServerDone \/ OverreadKills
    BY <2>6 DEF ClientStartup, ClientStartupFails, ClientDone, ServerRefusal, ServerDone,
                OverreadKills
  <2>7. CASE \E side \in Sides : Read(side)
    BY <2>7, Zenon DEF Read
  <2>8. CASE UNCHANGED vars
    BY <2>8 DEF vars
  <2> QED BY <2>4, <2>5, <2>6, <2>7, <2>8 DEF Next, Handler
<1> QED BY <1>1, <1>2, InvariantHolds, PTL DEF Spec, ImplementsMessageTrace, Promise!Spec
=============================================================================
