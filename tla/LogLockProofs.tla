---------------------------- MODULE LogLockProofs ----------------------------
(***************************************************************************)
(* Theorems about LogLock, for any finite number of processes, any number  *)
(* of sections and any number of lines.                                    *)
(***************************************************************************)
EXTENDS LogLock, FiniteSetTheorems, TLAPS

(* Typing. *)

\* Zero is within both bounds.
LEMMA ZeroInBounds == 0 \in 0 .. MaxSections /\ 0 \in 0 .. MaxLines
  BY LogLockAssumption

\* The first states have the types.
LEMMA TypeInit == Init => TypeOK
<1> SUFFICES ASSUME Init PROVE TypeOK
  OBVIOUS
<1>1. sections \in [Procs -> 0 .. MaxSections] /\ lines \in [Procs -> 0 .. MaxLines]
  BY ZeroInBounds DEF Init
<1>2. late \in [Procs -> BOOLEAN]
  BY DEF Init
<1> QED BY <1>1, <1>2 DEF Init, TypeOK

\* Every step keeps the types.
LEMMA TypeNext == TypeOK /\ [Next]_vars => TypeOK'
<1> SUFFICES ASSUME TypeOK, [Next]_vars PROVE TypeOK'
  OBVIOUS
<1> USE LogLockAssumption
<1>1. ASSUME NEW p \in Procs, Call(p) PROVE TypeOK'
  BY <1>1 DEF TypeOK, Call
<1>2. ASSUME NEW p \in Procs, Lock(p) PROVE TypeOK'
  <2>1. lines' \in [Procs -> 0 .. MaxLines]
    BY <1>2, ZeroInBounds DEF TypeOK, Lock, Acquire, Fail, Retry, GiveUp
  <2> QED BY <1>2, <2>1 DEF TypeOK, Lock, Acquire, Fail, Retry, GiveUp
<1>3. ASSUME NEW p \in Procs, Tick(p) \/ Unlock(p) \/ Die(p) PROVE TypeOK'
  BY <1>3 DEF TypeOK, Tick, Unlock, Die
<1>5. ASSUME NEW p \in Procs, WriteLine(p) PROVE TypeOK'
  <2>1. torn' \in BOOLEAN
    BY <1>5 DEF TypeOK, WriteLine
  <2>2. lines' \in [Procs -> 0 .. MaxLines]
    BY <1>5 DEF TypeOK, WriteLine
  <2> QED BY <1>5, <2>1, <2>2 DEF TypeOK, WriteLine
<1>4. CASE UNCHANGED vars
  BY <1>4 DEF TypeOK, vars
<1> QED BY <1>1, <1>2, <1>3, <1>4, <1>5 DEF Next

\* Every variable keeps its type (logging.c:95-142).
LEMMA TypeCorrect == Spec => []TypeOK
  BY TypeInit, TypeNext, PTL DEF Spec

-----------------------------------------------------------------------------
(* How far the lock degrades. *)

\* The processes that write are finitely many.
LEMMA WritingFinite == IsFiniteSet(Writing) /\ Cardinality(Writing) \in Nat
  BY LogLockAssumption, FS_Subset, FS_CardinalityType DEF Writing

\* Nobody writes in the first states.
LEMMA BoundInit == Init => DegradationBound
<1> SUFFICES ASSUME Init PROVE DegradationBound
  OBVIOUS
<1>1. Writing = {}
  BY DEF Init, Writing
<1> QED BY <1>1, FS_EmptySet DEF Init, DegradationBound

\* Every step keeps the bound on the processes that write at once.
LEMMA BoundNext == TypeOK /\ DegradationBound /\ [Next]_vars => DegradationBound'
<1> SUFFICES ASSUME TypeOK, DegradationBound, [Next]_vars PROVE DegradationBound'
  OBVIOUS
<1> USE WritingFinite
<1>1. ASSUME NEW p \in Procs, Call(p) \/ Fail(p) \/ Retry(p) \/ Tick(p) \/ WriteLine(p)
      PROVE DegradationBound'
  <2>1. Writing' = Writing
    BY <1>1 DEF TypeOK, Writing, Call, Fail, Retry, Tick, WriteLine
  <2> QED
    BY <1>1, <2>1 DEF DegradationBound, Call, Fail, Retry, Tick, WriteLine
<1>2. ASSUME NEW p \in Procs, Acquire(p) \/ GiveUp(p) PROVE DegradationBound'
  <2>1. Writing' = Writing \cup {p} /\ p \notin Writing
    BY <1>2 DEF TypeOK, Writing, Acquire, GiveUp
  <2>2. Cardinality(Writing') = Cardinality(Writing) + 1
    BY <2>1, FS_AddElement
  <2> QED BY <1>2, <2>2 DEF TypeOK, DegradationBound, Acquire, GiveUp
<1>3. ASSUME NEW p \in Procs, Unlock(p) \/ Die(p) PROVE DegradationBound'
  <2>1. Writing' = Writing \ {p} /\ p \in Writing
    BY <1>3 DEF TypeOK, Writing, Unlock, Die
  <2>2. Cardinality(Writing') = Cardinality(Writing) - 1
    BY <2>1, FS_RemoveElement
  <2> QED BY <1>3, <2>2 DEF TypeOK, DegradationBound, Unlock, Die
<1>4. CASE UNCHANGED vars
  BY <1>4 DEF DegradationBound, Writing, vars
<1> QED BY <1>1, <1>2, <1>3, <1>4 DEF Next, Lock

\* At most one process more than calls have given up is inside the log (logging.c:101-141).
THEOREM DegradationIsBounded == Spec => []DegradationBound
  BY BoundInit, BoundNext, TypeCorrect, PTL DEF Spec

-----------------------------------------------------------------------------
(* Exclusion as long as nobody gives up. *)

\* The lock is free in the first states.
LEMMA ExclusiveInit == Init => ExclusiveInv
  BY DEF Init, ExclusiveInv, Writing

\* Every step keeps the lock exclusive as long as nobody gave up waiting.
LEMMA ExclusiveNext == TypeOK /\ ExclusiveInv /\ [Next]_vars => ExclusiveInv'
<1> SUFFICES ASSUME TypeOK, ExclusiveInv, [Next]_vars, timeouts' = 0
             PROVE  /\ log_lock' = "free" => Writing' = {}
                    /\ \A p, q \in Writing' : p = q
                    /\ \A p \in Writing' : lines'[p] > 0 => writer' = p
                    /\ ~torn'
  BY DEF ExclusiveInv
<1>0. ASSUME NEW p \in Procs, GiveUp(p) PROVE FALSE
  BY <1>0 DEF TypeOK, GiveUp
<1>1. timeouts = 0
  BY <1>0 DEF Next, Lock, Call, Acquire, Fail, Retry, Tick, WriteLine, Unlock, Die, vars
<1>2. ASSUME NEW p \in Procs, Call(p) \/ Fail(p) \/ Retry(p) \/ Tick(p)
      PROVE  Writing' = Writing /\ UNCHANGED <<log_lock, lines, writer, torn>>
  BY <1>2 DEF TypeOK, Writing, Call, Fail, Retry, Tick
<1>3. CASE UNCHANGED vars
  BY <1>1, <1>3 DEF ExclusiveInv, Writing, vars
<1>4. ASSUME NEW p \in Procs, Call(p) \/ Fail(p) \/ Retry(p) \/ Tick(p)
      PROVE  /\ log_lock' = "free" => Writing' = {}
             /\ \A r, q \in Writing' : r = q
             /\ \A r \in Writing' : lines'[r] > 0 => writer' = r
             /\ ~torn'
  BY <1>1, <1>2, <1>4 DEF ExclusiveInv
<1>5. ASSUME NEW p \in Procs, Acquire(p)
      PROVE  /\ log_lock' = "in_use" /\ Writing' = {p} /\ lines'[p] = 0 /\ ~torn'
  BY <1>1, <1>5 DEF TypeOK, ExclusiveInv, Writing, Acquire
<1>6. ASSUME NEW p \in Procs, WriteLine(p)
      PROVE  /\ log_lock' = "in_use" /\ Writing' = {p} /\ writer' = p /\ ~torn'
  <2>1. Writing' = Writing /\ p \in Writing
    BY <1>6 DEF TypeOK, Writing, WriteLine
  <2> QED BY <1>1, <1>6, <2>1 DEF TypeOK, ExclusiveInv, WriteLine
<1>7. ASSUME NEW p \in Procs, Unlock(p) \/ Die(p) PROVE Writing' = {} /\ ~torn'
  <2>1. Writing' = Writing \ {p} /\ p \in Writing
    BY <1>7 DEF TypeOK, Writing, Unlock, Die
  <2> QED BY <1>1, <1>7, <2>1 DEF ExclusiveInv, Unlock, Die
<1> QED
  BY <1>0, <1>3, <1>4, <1>5, <1>6, <1>7 DEF Next, Lock

\* As long as no call has given up the lock excludes and no section is torn, whoever dies
\* in one (logging.c:105, protocol.c:489).
THEOREM ExclusionUntilTimeout == Spec => []ExclusiveUntilTimeout
<1>1. ExclusiveInv => ExclusiveUntilTimeout
  <2> SUFFICES ASSUME ExclusiveInv, timeouts = 0 PROVE Cardinality(Writing) <= 1 /\ ~torn
    BY DEF ExclusiveUntilTimeout
  <2>1. CASE Writing = {}
    BY <2>1, FS_EmptySet DEF ExclusiveInv
  <2>2. CASE Writing # {}
    <3>1. PICK p \in Writing : Writing = {p}
      BY <2>2 DEF ExclusiveInv
    <3>2. Cardinality(Writing) = 1
      BY <3>1, FS_Singleton
    <3> QED BY <3>2 DEF ExclusiveInv
  <2> QED BY <2>1, <2>2
<1> QED BY <1>1, ExclusiveInit, ExclusiveNext, TypeCorrect, PTL DEF Spec

-----------------------------------------------------------------------------
(* What the callers count on. *)

\* Every step enters, leaves or ends a section as LogSection says, or is not seen by the
\* callers.
LEMMA SectionStep == TypeOK /\ [Next]_vars => [Section!Next]_<<log_lock, Writing>>
<1> SUFFICES ASSUME TypeOK, [Next]_vars PROVE [Section!Next]_<<log_lock, Writing>>
  OBVIOUS
<1>1. ASSUME NEW p \in Procs, Call(p) \/ Fail(p) \/ Retry(p) \/ Tick(p) \/ WriteLine(p)
      PROVE  UNCHANGED <<log_lock, Writing>>
  BY <1>1 DEF TypeOK, Writing, Call, Fail, Retry, Tick, WriteLine
<1>2. ASSUME NEW p \in Procs, Acquire(p) \/ GiveUp(p) PROVE Section!Enter(p)
  <2>1. Writing' = Writing \cup {p} /\ p \notin Writing
    BY <1>2 DEF TypeOK, Writing, Acquire, GiveUp
  <2> QED BY <1>2, <2>1 DEF Section!Enter, Acquire, GiveUp
<1>3. ASSUME NEW p \in Procs, Unlock(p) \/ Die(p) PROVE Section!Leave(p) \/ Section!Die(p)
  <2>1. Writing' = Writing \ {p} /\ p \in Writing
    BY <1>3 DEF TypeOK, Writing, Unlock, Die
  <2> QED BY <1>3, <2>1 DEF Section!Leave, Section!Die, Unlock, Die
<1>4. CASE UNCHANGED vars
  BY <1>4 DEF Writing, vars
<1> QED BY <1>1, <1>2, <1>3, <1>4 DEF Next, Lock, Section!Next

\* The lock with its attempts, its sleeps and its clock (logging.c:95-142) implements the
\* section its callers count on.
THEOREM LogLockImplementsSection == Spec => ImplementsLogSection
<1>1. Init => Section!Init
  BY DEF Init, Writing, Section!Init
<1> QED
  BY <1>1, SectionStep, TypeCorrect, PTL DEF Spec, ImplementsLogSection, Section!Spec
=============================================================================
