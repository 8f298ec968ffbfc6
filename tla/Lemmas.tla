------------------------------- MODULE Lemmas -------------------------------
(***************************************************************************)
(* Facts about numbers and sequences that several proofs need: induction   *)
(* over the naturals, in terms of sets, and what FlattenSeq makes of the   *)
(* prefixes of a sequence.                                                 *)
(***************************************************************************)
EXTENDS Integers, Sequences, SequencesExt, SequenceTheorems, WellFoundedInduction,
        TLAPS

\* A set of numbers has a least one.
LEMMA LeastNatural ==
  ASSUME NEW T, T \subseteq Nat, T # {}
  PROVE  \E x \in T : \A y \in T : x <= y
<1> DEFINE R == {ss \in Nat \X Nat : ss[1] < ss[2]}
<1>1. IsWellFoundedOn(R, Nat)
  BY NatLessThanWellFounded, Zenon DEF OpToRel
<1>2. PICK x \in T : \A y \in T : ~ (<<y, x>> \in R)
  <2> HIDE DEF R
  <2> QED BY <1>1, WFMin
<1>3. ASSUME NEW y \in T PROVE x <= y
  <2>1. x \in Nat /\ y \in Nat /\ <<y, x>> \in Nat \X Nat
    OBVIOUS
  <2>2. ~(y < x)
    <3>1. <<y, x>>[1] = y /\ <<y, x>>[2] = x
      OBVIOUS
    <3>2. ~(<<y, x>>[1] < <<y, x>>[2])
      BY <1>2, <2>1, Zenon
    <3> QED BY <3>1, <3>2, Zenon
  <2> QED BY <2>1, <2>2
<1> QED BY <1>3

\* A set of numbers that has 0, and with a number the next, has them all.
LEMMA SetInduction ==
  ASSUME NEW S, 0 \in S, \A n \in Nat : n \in S => n + 1 \in S
  PROVE  \A n \in Nat : n \in S
<1> DEFINE T == Nat \ S
<1> SUFFICES ASSUME T # {} PROVE FALSE
  OBVIOUS
<1>1. PICK x \in T : \A y \in T : x <= y
  <2>1. T \subseteq Nat
    OBVIOUS
  <2> QED BY <2>1, LeastNatural
<1>2. x \in Nat /\ x \notin S /\ x # 0
  BY <1>1
<1>3. x - 1 \in Nat /\ ~(x <= x - 1) /\ (x - 1) + 1 = x
  BY <1>2
<1>4. x - 1 \in S
  BY <1>1, <1>3
<1> QED BY <1>2, <1>3, <1>4

-----------------------------------------------------------------------------
(* FlattenSeq. *)

\* What the recursive function in FlattenSeq is, up to its n-th value.
Flattens(f, s, n) ==
  f = [i \in 1 .. n |-> IF i = 1 THEN s[i] ELSE f[i - 1] \o s[i]]

\* Its values.
LEMMA FlattensValues ==
  ASSUME NEW f, NEW s, NEW n \in Nat, Flattens(f, s, n)
  PROVE  /\ DOMAIN f = 1 .. n
         /\ \A i \in 1 .. n : f[i] = IF i = 1 THEN s[i] ELSE f[i - 1] \o s[i]
<1>1. f = [i \in 1 .. n |-> IF i = 1 THEN s[i] ELSE f[i - 1] \o s[i]]
  BY DEF Flattens
<1>2. DOMAIN f = 1 .. n
  BY <1>1, Zenon
<1>3. ASSUME NEW i \in 1 .. n PROVE f[i] = IF i = 1 THEN s[i] ELSE f[i - 1] \o s[i]
  BY <1>1, Zenon
<1> QED BY <1>2, <1>3

\* There is at most one.
LEMMA FlattensUnique ==
  ASSUME NEW s, NEW n \in Nat, NEW f, NEW g, Flattens(f, s, n), Flattens(g, s, n)
  PROVE  \A i \in 1 .. n : f[i] = g[i]
<1> DEFINE S == {m \in Nat : \A i \in 1 .. n : i <= m => f[i] = g[i]}
<1>1. 0 \in S
  OBVIOUS
<1>2. ASSUME NEW m \in Nat, m \in S PROVE m + 1 \in S
  <2> SUFFICES ASSUME NEW i \in 1 .. n, i <= m + 1 PROVE f[i] = g[i]
    OBVIOUS
  <2>1. CASE i <= m
    BY <1>2, <2>1
  <2>2. CASE i = m + 1
    <3>1. /\ f[i] = IF i = 1 THEN s[i] ELSE f[i - 1] \o s[i]
          /\ g[i] = IF i = 1 THEN s[i] ELSE g[i - 1] \o s[i]
      BY FlattensValues
    <3>2. i # 1 => f[i - 1] = g[i - 1]
      BY <1>2, <2>2
    <3> QED BY <3>1, <3>2
  <2> QED BY <2>1, <2>2
<1>3. \A m \in Nat : m \in S
  <2> HIDE DEF S
  <2> QED BY <1>1, <1>2, SetInduction
<1>4. n \in S
  BY <1>3
<1> QED BY <1>4

\* There is one.
LEMMA FlattensExists ==
  ASSUME NEW s, NEW n \in Nat
  PROVE  \E f : Flattens(f, s, n)
<1> DEFINE S == {m \in Nat : \E f : Flattens(f, s, m)}
<1>1. 0 \in S
  <2>1. Flattens([i \in 1 .. 0 |-> 0], s, 0)
    <3>1. 1 .. 0 = {}
      OBVIOUS
    <3>2. [i \in {} |-> 0] = [i \in {} |-> IF i = 1 THEN s[i] ELSE [j \in {} |-> 0][i - 1] \o s[i]]
      OBVIOUS
    <3> QED BY <3>1, <3>2 DEF Flattens
  <2> QED BY <2>1
<1>2. ASSUME NEW m \in Nat, m \in S PROVE m + 1 \in S
  <2>1. PICK f : Flattens(f, s, m)
    BY <1>2
  <2>2. PICK last : last = IF m = 0 THEN s[m + 1] ELSE f[m] \o s[m + 1]
    OBVIOUS
  <2>3. PICK g : g = [i \in 1 .. m + 1 |-> IF i = m + 1 THEN last ELSE f[i]]
    OBVIOUS
  <2>4. \A i \in 1 .. m : g[i] = f[i]
    BY <2>3
  <2>5. g[m + 1] = last
    BY <2>3
  <2>6. ASSUME NEW i \in 1 .. m + 1
        PROVE  g[i] = IF i = 1 THEN s[i] ELSE g[i - 1] \o s[i]
    <3>1. CASE i = m + 1
      <4>1. m # 0 => g[m] = f[m]
        BY <2>4
      <4>2. i = 1 <=> m = 0
        BY <3>1
      <4>3. i - 1 = m
        BY <3>1
      <4> QED BY <2>2, <2>5, <3>1, <4>1, <4>2, <4>3
    <3>2. CASE i # m + 1
      <4>1. i \in 1 .. m /\ (i # 1 => i - 1 \in 1 .. m)
        BY <3>2
      <4>2. f[i] = IF i = 1 THEN s[i] ELSE f[i - 1] \o s[i]
        BY <2>1, <4>1, FlattensValues
      <4> QED BY <2>4, <4>1, <4>2
    <3> QED BY <3>1, <3>2
  <2>7. g = [i \in 1 .. m + 1 |-> g[i]]
    BY <2>3
  <2>8. Flattens(g, s, m + 1)
    BY <2>6, <2>7 DEF Flattens
  <2> QED BY <2>8
<1>3. \A m \in Nat : m \in S
  <2> HIDE DEF S
  <2> QED BY <1>1, <1>2, SetInduction
<1>4. n \in S
  BY <1>3
<1> QED BY <1>4

\* FlattenSeq of no sequence.
LEMMA FlattenEmpty == FlattenSeq(<<>>) = <<>>
  BY DEF FlattenSeq

\* FlattenSeq is the last value of the function.
LEMMA FlattenValue ==
  ASSUME NEW T, NEW s \in Seq(Seq(T)), Len(s) # 0, NEW f, Flattens(f, s, Len(s))
  PROVE  FlattenSeq(s) = f[Len(s)]
<1>1. PICK n : n = Len(s)
  OBVIOUS
<1>2. n \in Nat /\ n # 0
  BY <1>1
<1>3. PICK g : g = CHOOSE h : Flattens(h, s, n)
  OBVIOUS
<1>4. Flattens(g, s, n)
  <2>1. \E h : Flattens(h, s, n)
    BY <1>1
  <2> QED BY <1>3, <2>1, Zenon
<1>5. FlattenSeq(s) = g[n]
  BY <1>1, <1>2, <1>3 DEF FlattenSeq, Flattens
<1>6. Flattens(f, s, n)
  BY <1>1
<1>7. \A i \in 1 .. n : f[i] = g[i]
  <2>1. n \in Nat
    BY <1>2
  <2> QED BY <1>4, <1>6, <2>1, FlattensUnique
<1>8. n \in 1 .. n
  BY <1>2
<1> QED BY <1>1, <1>5, <1>7, <1>8

\* FlattenSeq of one sequence more.
LEMMA FlattenAppend ==
  ASSUME NEW T, NEW s \in Seq(Seq(T)), NEW x \in Seq(T)
  PROVE  FlattenSeq(Append(s, x)) = FlattenSeq(s) \o x
<1>1. PICK t, n : t = Append(s, x) /\ n = Len(s)
  OBVIOUS
<1>2. /\ t \in Seq(Seq(T)) /\ n \in Nat /\ Len(t) = n + 1 /\ t[n + 1] = x
      /\ \A i \in 1 .. n : t[i] = s[i]
  BY <1>1
<1>3. PICK f : Flattens(f, t, n + 1)
  <2>1. n + 1 \in Nat
    BY <1>2
  <2> QED BY <2>1, FlattensExists, Zenon
<1>4. FlattenSeq(t) = f[n + 1]
  BY <1>2, <1>3, FlattenValue
<1>5. f[n + 1] = IF n = 0 THEN x ELSE f[n] \o x
  <2>1. n + 1 \in 1 .. n + 1 /\ n + 1 \in Nat /\ (n + 1) - 1 = n /\ (n + 1 = 1 <=> n = 0)
    BY <1>2
  <2>2. f[n + 1] = IF n + 1 = 1 THEN t[n + 1] ELSE f[(n + 1) - 1] \o t[n + 1]
    BY <1>3, <2>1, FlattensValues
  <2> QED BY <1>2, <2>1, <2>2
<1>6. CASE n = 0
  <2>1. s = <<>>
    <3>1. Len(s) = 0
      BY <1>1, <1>6
    <3> QED BY <3>1, EmptySeq, Zenon
  <2>2. <<>> \o x = x
    OBVIOUS
  <2> QED BY <1>1, <1>4, <1>5, <1>6, <2>1, <2>2, FlattenEmpty
<1>7. CASE n # 0
  <2>1. PICK g : g = [i \in 1 .. n |-> f[i]]
    OBVIOUS
  <2>2. \A i \in 1 .. n : g[i] = f[i]
    BY <2>1
  <2>3. ASSUME NEW i \in 1 .. n PROVE g[i] = IF i = 1 THEN s[i] ELSE g[i - 1] \o s[i]
    <3>1. i \in 1 .. n + 1 /\ n + 1 \in Nat /\ (i # 1 => i - 1 \in 1 .. n)
      BY <1>2
    <3>2. f[i] = IF i = 1 THEN t[i] ELSE f[i - 1] \o t[i]
      BY <1>3, <3>1, FlattensValues
    <3> QED BY <1>2, <2>2, <3>1, <3>2
  <2>4. g = [i \in 1 .. n |-> g[i]]
    BY <2>1
  <2>5. Flattens(g, s, n)
    BY <2>3, <2>4 DEF Flattens
  <2>6. FlattenSeq(s) = g[n]
    BY <1>1, <1>7, <2>5, FlattenValue
  <2>7. g[n] = f[n]
    BY <1>2, <1>7, <2>2
  <2> QED BY <1>1, <1>4, <1>5, <1>7, <2>6, <2>7
<1> QED BY <1>6, <1>7

\* The prefixes of a sequence.
LEMMA PrefixStep ==
  ASSUME NEW S, NEW s \in Seq(S)
  PROVE  /\ SubSeq(s, 1, 0) = <<>> /\ SubSeq(s, 1, Len(s)) = s
         /\ \A k \in 0 .. Len(s) : SubSeq(s, 1, k) \in Seq(S) /\ Len(SubSeq(s, 1, k)) = k
         /\ \A k \in 0 .. Len(s) - 1 :
               SubSeq(s, 1, k + 1) = Append(SubSeq(s, 1, k), s[k + 1])
<1>1. SubSeq(s, 1, 0) = <<>> /\ SubSeq(s, 1, Len(s)) = s
  OBVIOUS
<1>2. ASSUME NEW k \in 0 .. Len(s)
      PROVE  SubSeq(s, 1, k) \in Seq(S) /\ Len(SubSeq(s, 1, k)) = k
  OBVIOUS
<1>3. ASSUME NEW k \in 0 .. Len(s) - 1
      PROVE  SubSeq(s, 1, k + 1) = Append(SubSeq(s, 1, k), s[k + 1])
  OBVIOUS
<1> QED BY <1>1, <1>2, <1>3

\* What is flattened of the first k sequences.
Flat(s, k) == FlattenSeq(SubSeq(s, 1, k))

\* It begins empty, grows by one sequence at a time, and ends with all of them.
LEMMA FlatSteps ==
  ASSUME NEW T, NEW s \in Seq(Seq(T))
  PROVE  /\ Flat(s, 0) = <<>> /\ Flat(s, Len(s)) = FlattenSeq(s)
         /\ \A k \in 0 .. Len(s) - 1 : Flat(s, k + 1) = Flat(s, k) \o s[k + 1]
         /\ \A k \in 0 .. Len(s) : Flat(s, k) \in Seq(T)
<1>1. PICK S : S = Seq(T)
  OBVIOUS
<1>2. PICK n : n = Len(s)
  OBVIOUS
<1>3. s \in Seq(S) /\ n \in Nat
  BY <1>1, <1>2
<1>4. /\ SubSeq(s, 1, 0) = <<>> /\ SubSeq(s, 1, n) = s
      /\ \A k \in 0 .. n : SubSeq(s, 1, k) \in Seq(S)
      /\ \A k \in 0 .. n - 1 : SubSeq(s, 1, k + 1) = Append(SubSeq(s, 1, k), s[k + 1])
  BY <1>2, <1>3, PrefixStep
<1>5. Flat(s, 0) = <<>> /\ Flat(s, n) = FlattenSeq(s)
  BY <1>4, FlattenEmpty DEF Flat
<1>6. ASSUME NEW k \in 0 .. n - 1
      PROVE  Flat(s, k + 1) = Flat(s, k) \o s[k + 1]
  <2>1. PICK p, x : p = SubSeq(s, 1, k) /\ x = s[k + 1]
    OBVIOUS
  <2>2. p \in Seq(Seq(T)) /\ x \in Seq(T)
    BY <1>1, <1>2, <1>3, <1>4, <2>1
  <2>3. SubSeq(s, 1, k + 1) = Append(p, x)
    BY <1>4, <2>1
  <2>4. FlattenSeq(Append(p, x)) = FlattenSeq(p) \o x
    BY <2>2, FlattenAppend
  <2> QED BY <2>1, <2>3, <2>4 DEF Flat
<1>7. \A k \in 0 .. n : Flat(s, k) \in Seq(T)
  <2> DEFINE I == {k \in Nat : k <= n => Flat(s, k) \in Seq(T)}
  <2>1. 0 \in I
    <3>1. <<>> \in Seq(T)
      BY EmptySeq, Zenon
    <3> QED BY <1>5, <3>1
  <2>2. ASSUME NEW k \in Nat, k \in I PROVE k + 1 \in I
    <3> SUFFICES ASSUME k + 1 <= n PROVE Flat(s, k + 1) \in Seq(T)
      OBVIOUS
    <3>1. k \in 0 .. n - 1 /\ k <= n /\ k + 1 \in 1 .. n
      BY <1>3
    <3>2. PICK p, x : p = Flat(s, k) /\ x = s[k + 1]
      OBVIOUS
    <3>3. p \in Seq(T) /\ x \in Seq(T)
      BY <1>1, <1>2, <1>3, <2>2, <3>1, <3>2
    <3>4. p \o x \in Seq(T)
      BY <3>3
    <3> QED BY <1>6, <3>1, <3>2, <3>4
  <2>3. \A k \in Nat : k \in I
    <3> HIDE DEF I
    <3> QED BY <2>1, <2>2, SetInduction
  <2> QED BY <1>3, <2>3
<1> QED BY <1>2, <1>5, <1>6, <1>7

\* The flattened prefixes are prefixes of each other.
LEMMA FlatGrows ==
  ASSUME NEW T, NEW s \in Seq(Seq(T)), NEW k \in 0 .. Len(s), NEW j \in k .. Len(s)
  PROVE  /\ Len(Flat(s, k)) <= Len(Flat(s, j))
         /\ \A i \in 1 .. Len(Flat(s, k)) : Flat(s, j)[i] = Flat(s, k)[i]
<1>1. PICK n, p : n = Len(s) /\ p = Flat(s, k)
  OBVIOUS
<1>2. n \in Nat /\ k \in 0 .. n /\ j \in k .. n /\ p \in Seq(T) /\ Len(p) \in Nat
  BY <1>1, FlatSteps
<1> DEFINE Good(q) == Len(p) <= Len(q) /\ \A i \in 1 .. Len(p) : q[i] = p[i]
           I == {m \in Nat : k + m <= n => Good(Flat(s, k + m))}
<1>3. 0 \in I
  <2>1. k + 0 = k /\ Good(p)
    BY <1>2
  <2> QED BY <1>1, <2>1
<1>4. ASSUME NEW m \in Nat, m \in I PROVE m + 1 \in I
  <2> SUFFICES ASSUME k + (m + 1) <= n PROVE Good(Flat(s, k + (m + 1)))
    OBVIOUS
  <2>1. /\ k + m \in 0 .. n - 1 /\ k + m \in 0 .. n /\ k + m <= n /\ k + (m + 1) = (k + m) + 1
        /\ (k + m) + 1 \in 1 .. n
    BY <1>2
  <2>2. PICK q, x : q = Flat(s, k + m) /\ x = s[(k + m) + 1]
    OBVIOUS
  <2>3. q \in Seq(T) /\ x \in Seq(T) /\ Good(q)
    BY <1>1, <1>4, <2>1, <2>2, FlatSteps
  <2>4. Flat(s, k + (m + 1)) = q \o x
    BY <1>1, <2>1, <2>2, FlatSteps
  <2>5. Good(q \o x)
    BY <1>2, <2>3
  <2> QED BY <2>4, <2>5
<1>5. \A m \in Nat : m \in I
  <2> HIDE DEF I
  <2> QED BY <1>3, <1>4, SetInduction
<1>6. j - k \in Nat /\ k + (j - k) = j /\ j <= n
  BY <1>2
<1>7. j - k \in I
  <2> HIDE DEF I
  <2> QED BY <1>5, <1>6
<1>8. Good(Flat(s, j))
  BY <1>6, <1>7
<1> QED BY <1>1, <1>8


-----------------------------------------------------------------------------
(* Pieces of a sequence: what lies between two places. *)

\* The type, the length and the elements of a piece.
LEMMA Between ==
  ASSUME NEW B, NEW s \in Seq(B), NEW a \in Nat, NEW c \in Nat, a <= c, c <= Len(s)
  PROVE  /\ SubSeq(s, a + 1, c) \in Seq(B) /\ Len(SubSeq(s, a + 1, c)) = c - a
         /\ \A i \in 1 .. c - a : SubSeq(s, a + 1, c)[i] = s[a + i]
<1>1. Len(s) \in Nat
  BY LenProperties
<1>2. \A i \in a + 1 .. c : s[i] \in B
  BY <1>1, ElementOfSeq
<1> QED BY <1>2, SubSeqProperties

\* Two pieces side by side.
LEMMA Join ==
  ASSUME NEW B, NEW s \in Seq(B), NEW a \in Nat, NEW b \in Nat, NEW c \in Nat,
         a <= b, b <= c, c <= Len(s)
  PROVE  SubSeq(s, a + 1, b) \o SubSeq(s, b + 1, c) = SubSeq(s, a + 1, c)
<1>1. Len(s) \in Nat
  BY LenProperties
<1>2. PICK x, y, z : x = SubSeq(s, a + 1, b) /\ y = SubSeq(s, b + 1, c) /\ z = SubSeq(s, a + 1, c)
  OBVIOUS
<1>3. x \in Seq(B) /\ Len(x) = b - a /\ \A i \in 1 .. b - a : x[i] = s[a + i]
  <2>1. b <= Len(s)
    BY <1>1
  <2> QED BY <1>2, <2>1, Between
<1>4. y \in Seq(B) /\ Len(y) = c - b /\ \A i \in 1 .. c - b : y[i] = s[b + i]
  BY <1>2, Between
<1>5. z \in Seq(B) /\ Len(z) = c - a /\ \A i \in 1 .. c - a : z[i] = s[a + i]
  <2>1. a <= c
    OBVIOUS
  <2> QED BY <1>2, <2>1, Between
<1>6. PICK w : w = x \o y
  OBVIOUS
<1>7. /\ w \in Seq(B) /\ Len(w) = Len(x) + Len(y)
      /\ \A i \in 1 .. Len(w) : w[i] = IF i <= Len(x) THEN x[i] ELSE y[i - Len(x)]
  <2>1. /\ w \in Seq(B) /\ Len(w) = Len(x) + Len(y)
        /\ \A i \in 1 .. Len(x) + Len(y) :
              w[i] = IF i <= Len(x) THEN x[i] ELSE y[i - Len(x)]
    BY <1>3, <1>4, <1>6, ConcatProperties, Zenon
  <2> QED BY <2>1, Zenon
<1>8. Len(w) = Len(z)
  BY <1>3, <1>4, <1>5, <1>7
<1>9. ASSUME NEW i \in 1 .. Len(w) PROVE w[i] = z[i]
  <2>1. z[i] = s[a + i]
    BY <1>3, <1>4, <1>5, <1>7
  <2>2. CASE i <= b - a
    BY <1>3, <1>7, <2>1, <2>2
  <2>3. CASE ~(i <= b - a)
    <3>1. i - (b - a) \in 1 .. c - b /\ b + (i - (b - a)) = a + i
      BY <1>3, <1>4, <1>7, <2>3
    <3>2. w[i] = y[i - (b - a)]
      BY <1>3, <1>7, <2>3
    <3>3. y[i - (b - a)] = s[b + (i - (b - a))]
      BY <1>4, <3>1
    <3> QED BY <2>1, <3>1, <3>2, <3>3
  <2> QED BY <2>2, <2>3
<1>10. w = z
  BY <1>5, <1>7, <1>8, <1>9, SeqEqual
<1> QED BY <1>2, <1>6, <1>10

\* What is left of a piece when its first k elements are gone.
LEMMA Rest ==
  ASSUME NEW B, NEW s \in Seq(B), NEW a \in Nat, NEW c \in Nat, NEW k \in Nat,
         a + k <= c, c <= Len(s)
  PROVE  SubSeq(SubSeq(s, a + 1, c), k + 1, c - a) = SubSeq(s, (a + k) + 1, c)
<1>1. PICK x, y, z : x = SubSeq(s, a + 1, c) /\ y = SubSeq(x, k + 1, c - a)
                     /\ z = SubSeq(s, (a + k) + 1, c)
  OBVIOUS
<1>2. a <= c /\ a + k \in Nat /\ c - a \in Nat /\ k <= c - a
  OBVIOUS
<1>3. x \in Seq(B) /\ Len(x) = c - a /\ \A i \in 1 .. c - a : x[i] = s[a + i]
  BY <1>1, <1>2, Between
<1>4. y \in Seq(B) /\ Len(y) = (c - a) - k /\ \A i \in 1 .. (c - a) - k : y[i] = x[k + i]
  <2>1. c - a <= Len(x)
    BY <1>2, <1>3
  <2> QED BY <1>1, <1>2, <1>3, <2>1, Between
<1>5. z \in Seq(B) /\ Len(z) = c - (a + k) /\ \A i \in 1 .. c - (a + k) : z[i] = s[(a + k) + i]
  BY <1>1, <1>2, Between
<1>6. Len(y) = Len(z)
  BY <1>2, <1>4, <1>5
<1>7. ASSUME NEW i \in 1 .. Len(y) PROVE y[i] = z[i]
  <2>1. i \in 1 .. (c - a) - k /\ i \in 1 .. c - (a + k) /\ k + i \in 1 .. c - a
        /\ (a + k) + i = a + (k + i)
    BY <1>2, <1>4
  <2> QED BY <1>3, <1>4, <1>5, <2>1
<1>8. y = z
  BY <1>4, <1>5, <1>6, <1>7, SeqEqual
<1> QED BY <1>1, <1>8
=============================================================================
