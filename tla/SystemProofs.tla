---------------------------- MODULE SystemProofs ----------------------------
(***************************************************************************)
(* Theorems about System, for any finite number of workers and any number  *)
(* of slots: what LifecycleProofs shows of the table and the counters      *)
(* holds with the log and the trace file in place, because every step of   *)
(* System is one of Lifecycle or a stutter; nobody dies with the semaphore; *)
(* and the log is left locked only by those who died in their section.     *)
(***************************************************************************)
EXTENDS System, LifecycleProofs

(* Every step of System is a step of Lifecycle or leaves its state alone. *)

\* A step of the system is a step of the workers or leaves them alone.
LEMMA StepImplements == [SystemNext]_systemVars => [Next]_vars
<1> SUFFICES ASSUME [SystemNext]_systemVars PROVE [Next]_vars
  OBVIOUS
<1>1. CASE SystemMain
  <2>1. CASE LeaveSection(Main)
    BY <2>1 DEF LeaveSection
  <2>2. CASE SystemAcceptForkFails
    BY <2>2 DEF SystemAcceptForkFails, Next
  <2>3. CASE SystemShutdown \/ SystemKillTest \/ SystemKillSend \/ SystemOutputStatistics
    BY <2>3 DEF SystemShutdown, SystemKillTest, SystemKillSend, SystemOutputStatistics,
                Next, MainStep
  <2> QED BY <1>1, <2>1, <2>2, <2>3 DEF SystemMain
<1>2. ASSUME NEW w \in Workers, SystemWorker(w) PROVE [Next]_vars
  <2>1. CASE LeaveSection(w)
    BY <2>1 DEF LeaveSection
  <2>2. CASE SystemAccept(w) \/ SystemRegister(w) \/ SystemConnect(w) \/ SystemInstall(w)
    BY <2>2 DEF SystemAccept, SystemRegister, SystemConnect, SystemInstall, Next
  <2>3. CASE SystemLeaveLoop(w) \/ SystemHandleSigquit(w) \/ SystemCleanup(w)
    BY <2>3 DEF SystemLeaveLoop, SystemHandleSigquit, SystemCleanup, Next
  <2>4. CASE Refuse(w) \/ LeaveRefusal(w) \/ SystemConnectFails(w)
    BY <2>4 DEF Refuse, LeaveRefusal, SystemConnectFails, Next
  <2> QED BY <1>2, <2>1, <2>2, <2>3, <2>4 DEF SystemWorker
<1>3. ASSUME NEW w \in Workers, Callback(w) PROVE [Next]_vars
  <2>1. CASE EnterDecoder(w) \/ WaitSemaphore(w) \/ PostSemaphore(w) \/ EnterFailure(w)
    BY <2>1 DEF EnterDecoder, WaitSemaphore, PostSemaphore, EnterFailure
  <2>2. CASE SystemBeginRelay(w) \/ WriteNowhere(w) \/ SystemCrash(w) \/ SystemEndRelay(w)
    BY <2>2 DEF SystemBeginRelay, WriteNowhere, SystemCrash, SystemEndRelay, Next
  <2>3. CASE FinishRelayed(w) \/ FinishFailed(w)
    BY <2>3 DEF FinishRelayed, FinishFailed, Next
  <2> QED BY <1>3, <2>1, <2>2, <2>3 DEF Callback
<1>4. CASE UNCHANGED systemVars
  BY <1>4 DEF systemVars
<1> QED BY <1>1, <1>2, <1>3, <1>4 DEF SystemNext

\* The log and the semaphore add nothing to the table, the count and the counters
\* (main.c, worker.c): System implements Lifecycle.
LEMMA SystemImplementsLifecycle == SystemSpec => Spec
<1>1. SystemInit => Init
  BY DEF SystemInit
<1> QED BY <1>1, StepImplements, PTL DEF SystemSpec, Spec

\* What holds of the table of pids without the log and the trace file holds with them.
THEOREM SystemRegistryIsSound == SystemSpec => []RegistrySound
<1>1. RegistryInv => RegistrySound
  BY DEF RegistryInv
<1> QED BY <1>1, SystemImplementsLifecycle, RegistryIsSound, PTL

\* With the log and the trace file as well, a running worker is missing from the table only
\* if it found it full or another worker's store erased it (worker.c:81, 151).
THEOREM SystemLosesOnlyByOverwrite == SystemSpec => []LostOnlyByOverwrite
  BY SystemImplementsLifecycle, LostOnlyByOverwriteAlways, PTL

\* Whatever the workers wait for in the log and at the semaphore, the kill loop
\* (main.c:371-377) misses no registered worker whose slot is not overwritten.
THEOREM SystemShutdownReachesAll == SystemSpec => []ShutdownReachesRegistered
  BY SystemImplementsLifecycle, ShutdownReachesAll, PTL

\* The types of the workers hold in the system.
LEMMA SystemTypes == SystemSpec => []TypeOK
  BY SystemImplementsLifecycle, TypeCorrect, PTL

-----------------------------------------------------------------------------
(* The semaphore of the trace file. *)

Tracing == {w \in Workers : at[w] = "trace"}

\* The processes that trace are finitely many.
LEMMA TracingFinite == IsFiniteSet(Tracing) /\ Cardinality(Tracing) \in Nat
  BY LifecycleAssumption, FS_Subset, FS_CardinalityType DEF Tracing

\* The first states satisfy the invariant of the system.
LEMMA SystemInvInit == SystemInit => SystemInv
<1> SUFFICES ASSUME SystemInit PROVE SystemInv
  OBVIOUS
<1>1. {w \in Workers : at[w] = "trace"} = {}
  BY DEF SystemInit, Procs
<1> QED BY <1>1, FS_EmptySet DEF SystemInit, SystemInv, SemaphoreSurvives, Procs

\* Steps that neither enter nor leave output_write.
LEMMA QuietStep ==
  ASSUME SystemInv, UNCHANGED <<lock, file>>,
         at' \in [Procs -> {"out", "in", "trace", "refuses", "refused", "fails"}],
         log_lock' \in {"free", "in_use"},
         \A w \in Workers : at'[w] = "trace" <=> at[w] = "trace",
         \A w \in Workers : at[w] = "trace" => pc'[w] = "relaying"
  PROVE  SystemInv'
<1>1. Tracing' = Tracing
  BY DEF Tracing
<1> QED BY <1>1 DEF SystemInv, SemaphoreSurvives, Tracing

\* Steps of Lifecycle that one worker takes leave the others where they are.
LEMMA OthersStay ==
  ASSUME TypeOK, NEW w \in Workers,
         \/ Accept(w) \/ Register(w) \/ Connect(w) \/ ConnectFails(w) \/ Install(w)
         \/ BeginRelay(w) \/ EndRelay(w) \/ Crash(w) \/ Finish(w) \/ HandleSigquit(w)
         \/ LeaveLoop(w) \/ Cleanup(w)
  PROVE  \A v \in Workers \ {w} : pc'[v] = pc[v]
<1>1. CASE Accept(w) \/ Register(w) \/ Connect(w) \/ ConnectFails(w) \/ Install(w)
  BY <1>1 DEF TypeOK, Accept, Register, FindFree, SkipTaken, Skip, Claim, Connect,
              ConnectFails, Install
<1>2. CASE BeginRelay(w) \/ EndRelay(w) \/ Crash(w) \/ Finish(w) \/ HandleSigquit(w)
           \/ LeaveLoop(w)
  BY <1>2 DEF TypeOK, BeginRelay, EndRelay, Crash, Finish, HandleSigquit, LeaveLoop
<1>3. CASE Cleanup(w)
  BY <1>3 DEF TypeOK, Cleanup, Uninstall, ClearFind, ClearSkip, Skip, Clear, Exit
<1> QED BY <1>1, <1>2, <1>3

\* A process that enters or leaves a section by the rules of LogSection.
LEMMA SectionTypes ==
  ASSUME SystemInv, NEW p \in Procs
  PROVE  /\ Enters(p) => /\ at[p] # "trace" /\ log_lock' \in {"free", "in_use"}
                         /\ at' = [at EXCEPT ![p] = "in"]
         /\ Leaves(p) => log_lock' = "free"
  BY DEF SystemInv, Enters, Leaves, Moves, Inside, Log!Enter, Log!Leave

\* A process that ends is out of every section, and the flag stays as it is.
LEMMA EndTypes ==
  ASSUME SystemInv, NEW p \in Procs, Ends(p)
  PROVE  log_lock' \in {"free", "in_use"} /\ at' = [at EXCEPT ![p] = "out"]
  BY DEF SystemInv, Ends, Moves

\* A failed pgprtdbg_connect takes the log, and gives it back before it is known.
LEMMA RefusalTypes ==
  ASSUME SystemInv, NEW p \in Workers, p \in Procs, Refuse(p) \/ LeaveRefusal(p)
  PROVE  /\ log_lock' \in {"free", "in_use"} /\ at[p] # "trace"
         /\ \E to \in {"refuses", "refused"} : at' = [at EXCEPT ![p] = to]
         /\ UNCHANGED <<vars, lock, file>>
  BY SectionTypes DEF SystemInv, Refuse, LeaveRefusal, Moves, Log!Enter

\* Every step keeps the invariant of the system.
LEMMA SystemInvNext == TypeOK /\ SystemInv /\ [SystemNext]_systemVars => SystemInv'
<1> SUFFICES ASSUME TypeOK, SystemInv, [SystemNext]_systemVars PROVE SystemInv'
  OBVIOUS
<1> USE SystemAssumption
<1>1. Main \in Procs /\ Main \notin Workers /\ Workers \subseteq Procs
  BY DEF Procs
<1>2. CASE SystemMain
  <2>1. CASE LeaveSection(Main)
    BY <1>1, <2>1, SectionTypes, QuietStep
       DEF LeaveSection, Moves, SystemInv, vars
  <2>2. CASE SystemAcceptForkFails
    BY <1>1, <2>2, SectionTypes, QuietStep
       DEF SystemAcceptForkFails, AcceptForkFails, AfterAccept, SystemInv, logVars
  <2>3. CASE SystemShutdown
    BY <1>1, <2>3, SectionTypes, QuietStep DEF SystemShutdown, Shutdown, SystemInv
  <2>4. CASE SystemKillTest \/ SystemOutputStatistics
    BY <2>4, QuietStep
       DEF SystemKillTest, KillTest, SystemOutputStatistics, OutputStatistics, SystemInv, logVars
  <2>5. CASE SystemKillSend
    <3>1. /\ seen \in Workers
          /\ \A v \in Workers : pc[v] = "relaying" => pc'[v] = "relaying"
      BY <2>5 DEF SystemKillSend, KillSend, TypeOK, Handling
    <3>2. pc'[seen] = "crashed" => at[seen] # "trace"
      BY <3>1 DEF SystemInv
    <3>3. CASE pc'[seen] = "crashed"
      BY <1>1, <2>5, <3>1, <3>2, <3>3, EndTypes, QuietStep DEF SystemKillSend, SystemInv
    <3>4. CASE pc'[seen] # "crashed"
      BY <2>5, <3>1, <3>4, QuietStep DEF SystemKillSend, SystemInv, logVars
    <3> QED BY <3>3, <3>4
  <2> QED BY <1>2, <2>1, <2>2, <2>3, <2>4, <2>5 DEF SystemMain
<1>3. ASSUME NEW w \in Workers, SystemWorker(w) PROVE SystemInv'
  <2>1. CASE LeaveSection(w)
    BY <1>1, <2>1, SectionTypes, QuietStep DEF LeaveSection, Moves, SystemInv, vars
  <2>2. CASE SystemAccept(w)
    <3>1. at[w] # "trace"
      BY <2>2 DEF SystemAccept, Accept, SystemInv
    <3> QED
      BY <1>1, <2>2, <3>1, OthersStay, SectionTypes, QuietStep
         DEF SystemAccept, AfterAccept, SystemInv, logVars
  <2>3. CASE SystemRegister(w)
    <3>1. at[w] # "trace"
      BY <2>3 DEF SystemRegister, Register, FindFree, SkipTaken, Skip, Claim, SystemInv
    <3> QED
      BY <1>1, <2>3, <3>1, OthersStay, SectionTypes, QuietStep
         DEF SystemRegister, SystemInv, logVars
  <2>4. CASE SystemInstall(w) \/ SystemHandleSigquit(w) \/ SystemCleanup(w)
    BY <1>1, <2>4, OthersStay, QuietStep
       DEF SystemInstall, SystemHandleSigquit, SystemCleanup, SystemInv, logVars
  <2>5. CASE SystemConnectFails(w) \/ SystemLeaveLoop(w)
    BY <1>1, <2>5, OthersStay, SectionTypes, QuietStep
       DEF SystemConnectFails, SystemLeaveLoop, SystemInv
  <2>6. CASE SystemConnect(w)
    <3>1. at[w] # "trace" /\ at[w] = "out"
      BY <2>6 DEF SystemConnect
    <3>2. CASE EngineMissing
      BY <1>1, <2>6, <3>1, <3>2, OthersStay, SectionTypes, QuietStep
         DEF SystemConnect, SystemInv
    <3>3. CASE ~EngineMissing
      BY <1>1, <2>6, <3>1, <3>3, OthersStay, QuietStep DEF SystemConnect, SystemInv, logVars
    <3> QED BY <3>2, <3>3
  <2>7. CASE Refuse(w) \/ LeaveRefusal(w)
    BY <1>1, <2>7, RefusalTypes, QuietStep DEF SystemInv, vars
  <2> QED BY <1>3, <2>1, <2>2, <2>3, <2>4, <2>5, <2>6, <2>7 DEF SystemWorker
<1>4. ASSUME NEW w \in Workers, Callback(w) PROVE SystemInv'
  <2>1. CASE EnterDecoder(w)
    BY <1>1, <2>1, SectionTypes, QuietStep DEF EnterDecoder, SystemInv, vars
  <2>2. CASE SystemBeginRelay(w) \/ SystemEndRelay(w) \/ FinishRelayed(w)
    BY <1>1, <2>2, OthersStay, QuietStep
       DEF SystemBeginRelay, SystemEndRelay, FinishRelayed, SystemInv, logVars
  <2>3. CASE SystemCrash(w)
    BY <1>1, <2>3, OthersStay, EndTypes, QuietStep DEF SystemCrash, SystemInv
  <2>4. CASE EnterFailure(w)
    BY <1>1, <2>4, QuietStep DEF EnterFailure, Moves, Log!Enter, SystemInv, vars
  <2>5. CASE FinishFailed(w)
    BY <1>1, <2>5, OthersStay, SectionTypes, QuietStep DEF FinishFailed, Moves, SystemInv
  <2>6. CASE WaitSemaphore(w)
    <3>1. Tracing' = Tracing \cup {w} /\ w \notin Tracing
      BY <1>1, <2>6 DEF WaitSemaphore, Moves, SystemInv, Tracing
    <3>2. Cardinality(Tracing') = Cardinality(Tracing) + 1
      BY <3>1, TracingFinite, FS_AddElement
    <3>3. lock' \in Nat /\ lock' = lock - 1
      BY <2>6 DEF WaitSemaphore, SystemInv
    <3>4. SemaphoreSurvives'
      BY <2>6, <3>2, <3>3, TracingFinite DEF WaitSemaphore, SystemInv, SemaphoreSurvives, Tracing
    <3> QED BY <1>1, <2>6, <3>3, <3>4 DEF WaitSemaphore, Moves, SystemInv, vars, logVars
  <2>7. CASE PostSemaphore(w)
    <3>1. Tracing' = Tracing \ {w} /\ w \in Tracing
      BY <1>1, <2>7 DEF PostSemaphore, Moves, SystemInv, Tracing
    <3>2. Cardinality(Tracing') = Cardinality(Tracing) - 1
      BY <3>1, TracingFinite, FS_RemoveElement
    <3>3. lock' \in Nat /\ lock' = lock + 1
      BY <2>7 DEF PostSemaphore, SystemInv
    <3>4. SemaphoreSurvives'
      BY <2>7, <3>2, <3>3, TracingFinite DEF PostSemaphore, SystemInv, SemaphoreSurvives, Tracing
    <3> QED BY <1>1, <2>7, <3>3, <3>4 DEF PostSemaphore, Moves, SystemInv, vars, logVars
  <2>8. CASE WriteNowhere(w)
    <3>1. ~file'
      BY <2>8 DEF WriteNowhere
    <3> QED
      BY <1>1, <2>8, <3>1, OthersStay, EndTypes
         DEF WriteNowhere, SystemInv, SemaphoreSurvives
  <2> QED BY <1>4, <2>1, <2>2, <2>3, <2>4, <2>5, <2>6, <2>7, <2>8 DEF Callback
<1>5. CASE UNCHANGED systemVars
  BY <1>5, QuietStep DEF systemVars, logVars, vars, SystemInv
<1> QED BY <1>2, <1>3, <1>4, <1>5 DEF SystemNext

\* As long as there is a trace file nobody dies with its semaphore and no two lines are
\* written at once (protocol.c:348-404), for every number of workers: a SIGQUIT ends only
\* workers that are not in their decoder.
THEOREM SemaphoreAlwaysSurvives == SystemSpec => []SemaphoreSurvives
<1>1. SystemInv => SemaphoreSurvives
  BY DEF SystemInv
<1> QED BY <1>1, SystemInvInit, SystemInvNext, SystemTypes, PTL DEF SystemSpec

-----------------------------------------------------------------------------
(* The flag of the log. *)

\* A step enters a section, frees the flag, adds a death in a section, or leaves the flag,
\* who is inside and who has died alone.
LEMMA FlagStep ==
  ASSUME TypeOK, SystemInv, [SystemNext]_systemVars
  PROVE  \/ Inside' # {}
         \/ log_lock' = "free"
         \/ died' # {}
         \/ UNCHANGED <<log_lock, Inside, died>>
<1> USE SystemAssumption
<1>1. Main \in Procs /\ Main \notin Workers /\ Workers \subseteq Procs
  BY DEF Procs
<1>2. ASSUME NEW p \in Procs, Enters(p) PROVE Inside' # {}
  BY <1>2 DEF Enters, Log!Enter
<1>3. ASSUME NEW p \in Procs, Leaves(p) PROVE log_lock' = "free"
  BY <1>3 DEF Leaves, Log!Leave
<1>4. ASSUME UNCHANGED <<at, logVars>> PROVE UNCHANGED <<log_lock, Inside, died>>
  BY <1>4 DEF Inside, logVars
<1>5. ASSUME NEW p \in Procs, Ends(p)
      PROVE  died' # {} \/ UNCHANGED <<log_lock, Inside, died>>
  <2>1. CASE p \in Inside
    BY <1>5, <2>1 DEF Ends
  <2>2. CASE p \notin Inside
    <3>1. \A q \in Procs : q # p => at'[q] = at[q]
      BY <1>5 DEF Ends, Moves, SystemInv
    <3>2. at'[p] = "out"
      BY <1>5 DEF Ends, Moves, SystemInv
    <3>3. Inside' = Inside
      BY <2>2, <3>1, <3>2 DEF Inside
    <3> QED BY <1>5, <2>2, <3>3 DEF Ends
  <2> QED BY <2>1, <2>2
<1>6. CASE SystemMain
  <2>1. CASE LeaveSection(Main)
    BY <1>1, <1>3, <2>1 DEF LeaveSection
  <2>2. CASE SystemAcceptForkFails \/ SystemShutdown
    BY <1>1, <1>2, <1>4, <2>2 DEF SystemAcceptForkFails, AfterAccept, SystemShutdown
  <2>3. CASE SystemKillTest \/ SystemOutputStatistics
    BY <1>4, <2>3 DEF SystemKillTest, SystemOutputStatistics, logVars
  <2>4. CASE SystemKillSend
    <3>1. seen \in Workers
      BY <2>4 DEF SystemKillSend, KillSend, TypeOK
    <3> QED BY <1>1, <1>4, <1>5, <2>4, <3>1 DEF SystemKillSend
  <2> QED BY <1>6, <2>1, <2>2, <2>3, <2>4 DEF SystemMain
<1>7. ASSUME NEW w \in Workers, SystemWorker(w)
      PROVE  Inside' # {} \/ log_lock' = "free" \/ UNCHANGED <<log_lock, Inside, died>>
  <2>1. CASE LeaveSection(w)
    BY <1>1, <1>3, <2>1 DEF LeaveSection
  <2>2. CASE SystemAccept(w) \/ SystemRegister(w) \/ SystemConnectFails(w) \/ SystemLeaveLoop(w)
    BY <1>1, <1>2, <1>4, <2>2
       DEF SystemAccept, AfterAccept, SystemRegister, SystemConnectFails, SystemLeaveLoop
  <2>3. CASE SystemInstall(w) \/ SystemHandleSigquit(w) \/ SystemCleanup(w)
    BY <1>4, <2>3 DEF SystemInstall, SystemHandleSigquit, SystemCleanup, logVars
  <2>4. CASE SystemConnect(w)
    BY <1>1, <1>2, <1>4, <2>4 DEF SystemConnect
  <2>5. CASE Refuse(w)
    BY <2>5 DEF Refuse, Log!Enter
  <2>6. CASE LeaveRefusal(w)
    BY <1>1, <1>3, <2>6 DEF LeaveRefusal
  <2> QED BY <1>7, <2>1, <2>2, <2>3, <2>4, <2>5, <2>6 DEF SystemWorker
<1>8. ASSUME NEW w \in Workers, Callback(w)
      PROVE  \/ Inside' # {} \/ log_lock' = "free" \/ died' # {}
             \/ UNCHANGED <<log_lock, Inside, died>>
  <2>1. CASE EnterDecoder(w)
    BY <1>1, <1>2, <2>1 DEF EnterDecoder
  <2>2. CASE EnterFailure(w)
    BY <2>2 DEF EnterFailure, Log!Enter
  <2>3. CASE FinishFailed(w)
    BY <1>1, <1>3, <2>3 DEF FinishFailed
  <2>4. CASE SystemBeginRelay(w) \/ SystemEndRelay(w) \/ FinishRelayed(w)
    BY <1>4, <2>4 DEF SystemBeginRelay, SystemEndRelay, FinishRelayed, logVars
  <2>5. CASE WaitSemaphore(w) \/ PostSemaphore(w)
    <3>1. at'[w] \in {"in", "trace"} /\ w \in Procs
      BY <1>1, <2>5 DEF WaitSemaphore, PostSemaphore, Moves, SystemInv
    <3> QED BY <3>1 DEF Inside
  <2>6. CASE WriteNowhere(w) \/ SystemCrash(w)
    BY <1>1, <1>5, <2>6 DEF WriteNowhere, SystemCrash
  <2> QED BY <1>8, <2>1, <2>2, <2>3, <2>4, <2>5, <2>6 DEF Callback
<1>9. CASE UNCHANGED systemVars
  BY <1>4, <1>9 DEF systemVars
<1> QED BY <1>6, <1>7, <1>8, <1>9 DEF SystemNext

\* The log is left locked only by those who die inside (logging.c:109-112, 134-142;
\* protocol.c:489; main.c:375): a flag that is taken while nobody is in a section belongs to
\* a worker that has ended in one since the flag was last freed.
THEOREM LockIsLeftOnlyByDead == SystemSpec => []LockLeftOnlyByDead
<1>1. SystemInit => LockLeftOnlyByDead
  BY DEF SystemInit, LockLeftOnlyByDead
<1>2. TypeOK /\ SystemInv /\ LockLeftOnlyByDead /\ [SystemNext]_systemVars => LockLeftOnlyByDead'
  <2> SUFFICES ASSUME TypeOK, SystemInv, LockLeftOnlyByDead, [SystemNext]_systemVars
               PROVE  LockLeftOnlyByDead'
    OBVIOUS
  <2> QED BY FlagStep DEF LockLeftOnlyByDead
<1> QED BY <1>1, <1>2, SystemInvInit, SystemInvNext, SystemTypes, PTL DEF SystemSpec
=============================================================================
