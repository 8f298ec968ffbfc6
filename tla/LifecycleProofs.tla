--------------------------- MODULE LifecycleProofs ---------------------------
(***************************************************************************)
(* Theorems about Lifecycle, for any finite number of workers and any      *)
(* number of slots.  Each invariant has its Init and Next lemma (one step  *)
(* per action that can disturb it) and a temporal theorem; the typing      *)
(* theorem comes first and is a hypothesis of the others.                  *)
(***************************************************************************)
EXTENDS Lifecycle, FiniteSetTheorems, TLAPS

(* Typing. *)

\* The first states have the types.
LEMMA TypeInit == Init => TypeOK
  BY LifecycleAssumption DEF Init, TypeOK, Slots, Clients, Phases, Handling

\* A scan that skips slots keeps the types.
LEMMA SkipTypes ==
  ASSUME TypeOK, NEW w \in Workers, NEW phase, NEW after \in Phases, Skip(w, phase, after)
  PROVE  scan' \in [Workers -> Slots] /\ pc' \in [Workers -> Phases]
<1> USE LifecycleAssumption
<1>1. 0 \in Slots
  BY DEF Slots
<1>2. CASE scan[w] + 1 \in Slots
  BY <1>2 DEF TypeOK, Skip
<1>3. CASE scan[w] + 1 \notin Slots
  BY <1>1, <1>3 DEF TypeOK, Skip
<1> QED BY <1>2, <1>3

\* Every step keeps the types.
LEMMA TypeNext == TypeOK /\ [Next]_vars => TypeOK'
<1> SUFFICES ASSUME TypeOK, [Next]_vars PROVE TypeOK'
  OBVIOUS
<1> USE LifecycleAssumption
<1>1. CASE AcceptForkFails
  BY <1>1 DEF TypeOK, AcceptForkFails, NextClient, Clients, mainVars, tableVars, loopVars,
              countVars, activeVars
<1>2. CASE MainStep
  <2>1. CASE Shutdown
    BY <2>1 DEF TypeOK, Shutdown, Registered, tableVars, loopVars, countVars, activeVars
  <2>2. CASE KillTest
    BY <2>2 DEF TypeOK, KillTest, Slots, tableVars, loopVars, countVars, activeVars
  <2>3. CASE KillSend
    BY <2>3 DEF TypeOK, KillSend, Slots, Phases, tableVars, countVars, activeVars
  <2>4. CASE OutputStatistics
    <3>1. DOMAIN printed' = 0 .. client_number - 1
          /\ \A c \in DOMAIN printed' : printed'[c] = counters[c]
      BY <2>4 DEF OutputStatistics
    <3>2. 0 .. client_number - 1 \subseteq Clients
      BY DEF TypeOK, Clients
    <3>3. DOMAIN printed' \subseteq Clients /\ \A c \in DOMAIN printed' : printed'[c] \in Nat
      BY <3>1, <3>2 DEF TypeOK
    <3> QED
      BY <2>4, <3>3
         DEF TypeOK, OutputStatistics, tableVars, loopVars, countVars, activeVars
  <2> QED BY <1>2, <2>1, <2>2, <2>3, <2>4 DEF MainStep
<1>3. ASSUME NEW w \in Workers, Accept(w) \/ Register(w) PROVE TypeOK'
  <2>1. CASE Accept(w)
    BY <2>1 DEF TypeOK, Accept, NextClient, Clients, Phases, tableVars, countVars,
                activeVars
  <2>2. CASE FindFree(w)
    BY <2>2 DEF TypeOK, FindFree, Phases, mainVars, tableVars, loopVars, countVars,
                activeVars
  <2>3. CASE SkipTaken(w)
    <3>1. scan' \in [Workers -> Slots] /\ pc' \in [Workers -> Phases]
      BY <2>3, SkipTypes DEF SkipTaken, Phases
    <3> QED
      BY <2>3, <3>1 DEF TypeOK, SkipTaken, mainVars, loopVars, countVars, activeVars
  <2>4. CASE Claim(w)
    BY <2>4 DEF TypeOK, Claim, Slots, Phases, mainVars, loopVars, countVars, activeVars
  <2> QED BY <1>3, <2>1, <2>2, <2>3, <2>4 DEF Register
<1>4. ASSUME NEW w \in Workers, Connect(w) \/ ConnectFails(w) \/ Install(w) PROVE TypeOK'
  <2>1. CASE Connect(w)
    BY <2>1 DEF TypeOK, Connect, Phases, mainVars, tableVars, loopVars, countVars
  <2>2. CASE ConnectFails(w) \/ Install(w)
    BY <2>2 DEF TypeOK, ConnectFails, Install, Phases, Handling, mainVars, tableVars,
                loopVars, countVars, activeVars
  <2> QED BY <1>4, <2>1, <2>2
<1>5. ASSUME NEW w \in Workers, BeginRelay(w) PROVE TypeOK'
  <2>1. PICK n \in Counted(w) : counters' = [counters EXCEPT ![client[w]] = n]
    BY <1>5 DEF BeginRelay
  <2>2. n \in Nat
    BY <2>1 DEF TypeOK, Counted
  <2> QED
    BY <1>5, <2>1, <2>2 DEF TypeOK, BeginRelay, Phases, Handling, mainVars, tableVars,
                            loopVars, activeVars
<1>6. ASSUME NEW w \in Workers,
             EndRelay(w) \/ Crash(w) \/ Finish(w) \/ HandleSigquit(w) \/ LeaveLoop(w)
      PROVE TypeOK'
  BY <1>6 DEF TypeOK, EndRelay, Crash, Finish, HandleSigquit, LeaveLoop, Phases, Handling,
              mainVars, tableVars, loopVars, countVars, activeVars
<1>7. ASSUME NEW w \in Workers, Cleanup(w) PROVE TypeOK'
  <2>1. CASE Uninstall(w)
    BY <2>1 DEF TypeOK, Uninstall, Phases, mainVars, tableVars, countVars, activeVars
  <2>2. CASE ClearFind(w)
    BY <2>2 DEF TypeOK, ClearFind, Phases, mainVars, tableVars, loopVars, countVars,
                activeVars
  <2>3. CASE ClearSkip(w)
    <3>1. scan' \in [Workers -> Slots] /\ pc' \in [Workers -> Phases]
      BY <2>3, SkipTypes DEF ClearSkip, Phases
    <3> QED
      BY <2>3, <3>1 DEF TypeOK, ClearSkip, mainVars, loopVars, countVars, activeVars
  <2>4. CASE Clear(w)
    BY <2>4 DEF TypeOK, Clear, Slots, Phases, mainVars, loopVars, countVars, activeVars
  <2>5. CASE Exit(w)
    BY <2>5 DEF TypeOK, Exit, Phases, mainVars, tableVars, loopVars, countVars
  <2> QED BY <1>7, <2>1, <2>2, <2>3, <2>4, <2>5 DEF Cleanup
<1>8. CASE UNCHANGED vars
  BY <1>8 DEF TypeOK, vars, mainVars, tableVars, loopVars, countVars, activeVars
<1> QED BY <1>1, <1>2, <1>3, <1>4, <1>5, <1>6, <1>7, <1>8 DEF Next

\* Every variable keeps its type (main.c, worker.c): no loop leaves its table and no
\* client number passes the trash counter.
THEOREM TypeCorrect == Spec => []TypeOK
  BY TypeInit, TypeNext, PTL DEF Spec

-----------------------------------------------------------------------------
(* The registry of pids. *)

\* The steps that move a worker without touching the table or a scan index.
LEMMA RegistryMoves ==
  ASSUME TypeOK, RegistryInv, UNCHANGED <<pids, scan>>, NEW w \in Workers,
         NEW p \in Phases,
         pc' = [pc EXCEPT ![w] = p],
         \/ p \in {"crashed", "exited"} /\ (p = "exited" => pc[w] = "decrement")
         \/ /\ pc[w] \in {"connect", "ready", "loop", "relaying", "stopping"}
            /\ p \in {"ready", "loop", "relaying", "stopping", "clearscan"}
  PROVE  RegistryInv'
<1> USE LifecycleAssumption
<1>1. \A v \in Workers : pc'[v] = (IF v = w THEN p ELSE pc[v])
  BY DEF TypeOK
<1>2. RegistrySound'
  BY <1>1 DEF TypeOK, RegistryInv, RegistrySound
<1>3. p = "clearscan" => \A j \in Slots : ~(j < scan[w])
  BY DEF TypeOK, RegistryInv, Slots
<1> QED BY <1>1, <1>2, <1>3 DEF RegistryInv

\* The registry is sound when it is empty.
LEMMA RegistryInit == Init => RegistryInv
  BY LifecycleAssumption DEF Init, RegistryInv, RegistrySound

\* Every step keeps the registry sound.
LEMMA RegistryNext == TypeOK /\ RegistryInv /\ [Next]_vars => RegistryInv'
<1> SUFFICES ASSUME TypeOK, RegistryInv, [Next]_vars PROVE RegistryInv'
  OBVIOUS
<1> USE LifecycleAssumption
<1>1. CASE UNCHANGED <<pids, scan, pc>>
  BY <1>1 DEF RegistryInv, RegistrySound
<1>2. ASSUME NEW w \in Workers, Accept(w) PROVE RegistryInv'
  BY <1>2 DEF TypeOK, RegistryInv, RegistrySound, Accept, tableVars, Slots
<1>3. ASSUME NEW w \in Workers, FindFree(w) PROVE RegistryInv'
  BY <1>3 DEF TypeOK, RegistryInv, RegistrySound, FindFree, tableVars, Slots
<1>4. ASSUME NEW w \in Workers, SkipTaken(w) PROVE RegistryInv'
  <2>1. pc[w] = "scan" /\ pids' = pids
    BY <1>4 DEF SkipTaken, Skip
  <2>2. \A v \in Workers \ {w} : pc'[v] = pc[v] /\ scan'[v] = scan[v]
    BY <1>4 DEF TypeOK, SkipTaken, Skip
  <2>3. pc'[w] = "scan" \/ (pc'[w] = "connect" /\ scan'[w] = 0)
    BY <1>4 DEF TypeOK, SkipTaken, Skip
  <2>4. RegistrySound'
    BY <2>1, <2>2, <2>3 DEF TypeOK, RegistryInv, RegistrySound
  <2> QED BY <2>1, <2>2, <2>3, <2>4 DEF RegistryInv
<1>5. ASSUME NEW w \in Workers, Claim(w) PROVE RegistryInv'
  <2>1. \A i \in Slots : pids[i] # w
    BY <1>5 DEF RegistryInv, RegistrySound, Claim
  <2>2. \A i \in Slots : pids'[i] = (IF i = scan[w] THEN w ELSE pids[i])
    BY <1>5 DEF TypeOK, Claim
  <2>3. \A v \in Workers : /\ pc'[v] = (IF v = w THEN "connect" ELSE pc[v])
                          /\ scan'[v] = (IF v = w THEN 0 ELSE scan[v])
    BY <1>5 DEF TypeOK, Claim
  <2>4. RegistrySound'
    BY <2>1, <2>2, <2>3 DEF TypeOK, RegistryInv, RegistrySound
  <2> QED BY <1>5, <2>1, <2>2, <2>3, <2>4 DEF RegistryInv, Claim
<1>6. ASSUME NEW w \in Workers,
             \/ Connect(w) \/ ConnectFails(w) \/ Install(w) \/ BeginRelay(w)
             \/ EndRelay(w) \/ Finish(w) \/ LeaveLoop(w) \/ Uninstall(w)
             \/ Crash(w) \/ Exit(w)
      PROVE RegistryInv'
  BY <1>6, RegistryMoves
     DEF Connect, ConnectFails, Install, BeginRelay, EndRelay, Finish, LeaveLoop, Uninstall,
         Crash, Exit, tableVars, Phases, Handling
<1>7. ASSUME NEW w \in Workers, ClearFind(w) PROVE RegistryInv'
  BY <1>7 DEF TypeOK, RegistryInv, RegistrySound, ClearFind, tableVars
<1>8. ASSUME NEW w \in Workers, ClearSkip(w) PROVE RegistryInv'
  <2>1. /\ pc[w] = "clearscan"
        /\ \A j \in Slots : j < scan[w] + 1 => pids[j] # w
    BY <1>8 DEF TypeOK, RegistryInv, ClearSkip, Skip, Slots
  <2>2. CASE scan[w] + 1 \in Slots
    BY <1>8, <2>1, <2>2 DEF TypeOK, RegistryInv, RegistrySound, ClearSkip, Skip
  <2>3. CASE scan[w] + 1 \notin Slots
    <3>1. \A j \in Slots : pids[j] # w
      BY <2>1, <2>3 DEF TypeOK, Slots
    <3> QED
      BY <1>8, <2>1, <2>3, <3>1 DEF TypeOK, RegistryInv, RegistrySound, ClearSkip, Skip
  <2> QED BY <2>2, <2>3
<1>9. ASSUME NEW w \in Workers, Clear(w) PROVE RegistryInv'
  <2>1. \A i \in Slots : pids'[i] = (IF i = scan[w] THEN NoPid ELSE pids[i])
    BY <1>9 DEF TypeOK, Clear
  <2>2. \A v \in Workers : /\ pc'[v] = (IF v = w THEN "decrement" ELSE pc[v])
                          /\ scan'[v] = (IF v = w THEN 0 ELSE scan[v])
    BY <1>9 DEF TypeOK, Clear
  <2>3. \A i \in Slots : pids'[i] # w
    BY <1>9, <2>1 DEF RegistryInv, Clear
  <2>4. RegistrySound'
    BY <2>1, <2>2, <2>3 DEF TypeOK, RegistryInv, RegistrySound
  <2> QED BY <2>1, <2>2, <2>4 DEF RegistryInv
<1>10. CASE KillSend
  <2>1. CASE pc[seen] \in Handling \cup Gone
    <3>1. pc' = pc
      BY <1>10, <2>1 DEF TypeOK, KillSend
    <3> QED BY <1>1, <1>10, <3>1 DEF KillSend, tableVars
  <2>2. CASE pc[seen] \notin Handling \cup Gone
    <3>1. pc' = [pc EXCEPT ![seen] = "crashed"] /\ seen \in Workers
      BY <1>10, <2>2 DEF TypeOK, KillSend
    <3> QED BY <1>10, <3>1, RegistryMoves DEF KillSend, tableVars, Phases
  <2> QED BY <2>1, <2>2
<1>11. ASSUME NEW w \in Workers, HandleSigquit(w) PROVE RegistryInv'
  BY <1>1, <1>11 DEF HandleSigquit, tableVars
<1>12. CASE \/ AcceptForkFails \/ Shutdown \/ KillTest \/ OutputStatistics
            \/ UNCHANGED vars
  BY <1>1, <1>12 DEF AcceptForkFails, Shutdown, KillTest, OutputStatistics, vars, tableVars
<1> QED
  BY <1>2, <1>3, <1>4, <1>5, <1>6, <1>7, <1>8, <1>9, <1>10, <1>11, <1>12
     DEF Next, MainStep, Register, Cleanup

\* RegistrySound, and what makes it inductive, hold of every behaviour: whatever the
\* interleaving of the unsynchronised loops over the table (worker.c:77-84, 147-154), no
\* worker is in it twice, before its registration, or after its cleanup.
THEOREM RegistryIsSound == Spec => [](RegistryInv /\ RegistrySound)
<1>1. RegistryInv => RegistrySound
  BY DEF RegistryInv
<1> QED BY <1>1, RegistryInit, RegistryNext, TypeCorrect, PTL DEF Spec

-----------------------------------------------------------------------------
(* Registrations are lost in two ways only. *)

\* No worker is lost when there is none.
LEMMA LostInit == Init => LostOnlyByOverwrite
  BY DEF Init, LostOnlyByOverwrite

\* Only a slot that is written over loses a worker.
LEMMA LostNext == TypeOK /\ LostOnlyByOverwrite /\ [Next]_vars => LostOnlyByOverwrite'
<1> SUFFICES ASSUME TypeOK, LostOnlyByOverwrite, [Next]_vars PROVE LostOnlyByOverwrite'
  OBVIOUS
<1> USE LifecycleAssumption
\* Steps that leave the table alone and start nobody's registered phase.
<1>1. ASSUME UNCHANGED <<pids, lost>>,
             \A v \in Workers : \/ pc'[v] = pc[v]
                               \/ pc[v] \in {"connect", "ready", "loop", "relaying"}
                               \/ pc'[v] \notin {"connect", "ready", "loop", "relaying",
                                                "stopping"}
      PROVE LostOnlyByOverwrite'
  BY <1>1 DEF TypeOK, LostOnlyByOverwrite, Registered
<1>2. ASSUME NEW w \in Workers,
             \/ Accept(w) \/ FindFree(w) \/ Uninstall(w) \/ Crash(w) \/ Exit(w)
             \/ ClearFind(w) \/ HandleSigquit(w)
             \/ Connect(w) \/ ConnectFails(w) \/ Install(w) \/ BeginRelay(w)
             \/ EndRelay(w) \/ Finish(w) \/ LeaveLoop(w)
      PROVE LostOnlyByOverwrite'
  BY <1>1, <1>2
     DEF TypeOK, Accept, FindFree, Connect, ConnectFails, Install, BeginRelay, EndRelay,
         Finish, LeaveLoop, Uninstall, Crash, Exit, ClearFind, HandleSigquit, tableVars
<1>3. ASSUME NEW w \in Workers, ClearSkip(w) PROVE LostOnlyByOverwrite'
  BY <1>1, <1>3 DEF TypeOK, ClearSkip, Skip
<1>4. CASE KillSend
  BY <1>1, <1>4 DEF TypeOK, KillSend, tableVars
<1>5. CASE \/ AcceptForkFails \/ Shutdown \/ KillTest \/ OutputStatistics
           \/ UNCHANGED vars
  BY <1>1, <1>5 DEF AcceptForkFails, Shutdown, KillTest, OutputStatistics, vars, tableVars
<1>6. ASSUME NEW w \in Workers, SkipTaken(w) PROVE LostOnlyByOverwrite'
  <2>1. /\ pids' = pids /\ lost \subseteq lost'
        /\ pc'[w] = "connect" => w \in lost'
        /\ pc'[w] \in {"scan", "connect"}
        /\ \A v \in Workers \ {w} : pc'[v] = pc[v]
    BY <1>6 DEF TypeOK, SkipTaken, Skip
  <2> QED BY <2>1 DEF LostOnlyByOverwrite, Registered
<1>7. ASSUME NEW w \in Workers, NEW new \in {w, NoPid},
             pids' = [pids EXCEPT ![scan[w]] = new],
             {pids[scan[w]]} \cap (Workers \ {w}) \subseteq lost',
             lost \subseteq lost',
             \A v \in Workers \ {w} : pc'[v] = pc[v],
             new = w \/ pc'[w] = "decrement"
      PROVE LostOnlyByOverwrite'
  <2> SUFFICES ASSUME NEW v \in Workers \ lost',
                      pc'[v] \in {"connect", "ready", "loop", "relaying", "stopping"}
               PROVE  \E i \in Slots : pids'[i] = v
    BY DEF LostOnlyByOverwrite, Registered
  <2>1. CASE v = w
    BY <1>7, <2>1 DEF TypeOK
  <2>2. CASE v # w
    <3>1. PICK i \in Slots : pids[i] = v
      BY <1>7, <2>2 DEF LostOnlyByOverwrite, Registered
    <3>2. i # scan[w]
      BY <1>7, <2>2, <3>1
    <3> QED BY <1>7, <3>1, <3>2 DEF TypeOK
  <2> QED BY <2>1, <2>2
<1>8. ASSUME NEW w \in Workers, Claim(w) PROVE LostOnlyByOverwrite'
  <2>1. \A v \in Workers \ {w} : pc'[v] = pc[v]
    BY <1>8 DEF TypeOK, Claim
  <2> QED BY <1>7, <1>8, <2>1 DEF Claim
<1>9. ASSUME NEW w \in Workers, Clear(w) PROVE LostOnlyByOverwrite'
  <2>1. /\ \A v \in Workers \ {w} : pc'[v] = pc[v]
        /\ pc'[w] = "decrement"
    BY <1>9 DEF TypeOK, Clear
  <2> QED BY <1>7, <1>9, <2>1 DEF Clear
<1> QED
  BY <1>2, <1>3, <1>4, <1>5, <1>6, <1>8, <1>9 DEF Next, MainStep, Register, Cleanup

\* A running worker is missing from the table only if it found the table full or another
\* worker's store erased it (worker.c:81, 151).
THEOREM LostOnlyByOverwriteAlways == Spec => []LostOnlyByOverwrite
  BY LostInit, LostNext, TypeCorrect, PTL DEF Spec

-----------------------------------------------------------------------------
(* The count of active connections. *)

\* No worker is counted when there is none.
LEMMA ActiveInit == Init => ActiveInv
<1> SUFFICES ASSUME Init PROVE ActiveInv
  OBVIOUS
<1>1. {w \in Workers : connected[w]} = {}
  BY DEF Init
<1> QED BY <1>1, FS_EmptySet DEF Init, ActiveInv, ActiveConnectionsExact

\* Every step keeps the counter of active workers right.
LEMMA ActiveNext == TypeOK /\ ActiveInv /\ [Next]_vars => ActiveInv'
<1> SUFFICES ASSUME TypeOK, ActiveInv, [Next]_vars PROVE ActiveInv'
  OBVIOUS
<1> DEFINE C == {w \in Workers : connected[w]}
           Out == {"unborn", "scan", "claim", "connect", "exited"}
<1>0. IsFiniteSet(C) /\ Cardinality(C) \in Nat
  BY LifecycleAssumption, FS_Subset, FS_CardinalityType
\* Steps that touch neither the count nor the flags.
<1>1. ASSUME UNCHANGED activeVars, \A v \in Workers : pc'[v] \in Out => pc[v] \in Out
      PROVE ActiveInv'
  BY <1>1 DEF ActiveInv, ActiveConnectionsExact, activeVars
<1>2. ASSUME NEW w \in Workers,
             \/ Accept(w) \/ FindFree(w) \/ Claim(w) \/ ConnectFails(w) \/ Install(w)
             \/ BeginRelay(w) \/ EndRelay(w) \/ Crash(w) \/ Finish(w) \/ HandleSigquit(w)
             \/ LeaveLoop(w) \/ Uninstall(w) \/ ClearFind(w) \/ Clear(w)
      PROVE ActiveInv'
  BY <1>1, <1>2
     DEF TypeOK, Accept, FindFree, Claim, ConnectFails, Install, BeginRelay, EndRelay,
         Crash, Finish, HandleSigquit, LeaveLoop, Uninstall, ClearFind, Clear
<1>3. ASSUME NEW w \in Workers, SkipTaken(w) \/ ClearSkip(w) PROVE ActiveInv'
  BY <1>1, <1>3 DEF TypeOK, SkipTaken, ClearSkip, Skip
<1>4. CASE KillSend
  BY <1>1, <1>4 DEF TypeOK, KillSend
<1>5. CASE \/ AcceptForkFails \/ Shutdown \/ KillTest \/ OutputStatistics
           \/ UNCHANGED vars
  BY <1>1, <1>5 DEF AcceptForkFails, Shutdown, KillTest, OutputStatistics, vars
<1>6. ASSUME NEW w \in Workers, Connect(w) PROVE ActiveInv'
  <2>1. C' = C \cup {w} /\ w \notin C
    BY <1>6 DEF TypeOK, ActiveInv, Connect
  <2>2. Cardinality(C') = Cardinality(C) + 1
    BY <1>0, <2>1, FS_AddElement
  <2>3. ActiveConnectionsExact'
    BY <1>6, <2>2 DEF ActiveInv, ActiveConnectionsExact, Connect
  <2> QED BY <1>6, <2>3 DEF TypeOK, ActiveInv, Connect
<1>7. ASSUME NEW w \in Workers, Exit(w) PROVE ActiveInv'
  <2>1. C' = C \ {w}
    BY <1>7 DEF TypeOK, Exit
  <2>2. Cardinality(C') = IF connected[w] THEN Cardinality(C) - 1 ELSE Cardinality(C)
    BY <1>0, <2>1, FS_RemoveElement
  <2>3. ActiveConnectionsExact'
    BY <1>0, <1>7, <2>2 DEF ActiveInv, ActiveConnectionsExact, Exit
  <2> QED BY <1>7, <2>3 DEF TypeOK, ActiveInv, Exit
<1> QED
  BY <1>2, <1>3, <1>4, <1>5, <1>6, <1>7 DEF Next, MainStep, Register, Cleanup

\* active_connections is the number of workers that have connected and not finished their
\* cleanup (worker.c:99, 158): no cleanup takes it below zero.
THEOREM ActiveConnectionsCounted ==
  Spec => [](ActiveConnectionsExact /\ active_connections \in Nat)
<1>1. ActiveInv => ActiveConnectionsExact /\ active_connections \in Nat
  <2> DEFINE C == {w \in Workers : connected[w]}
  <2>1. Cardinality(C) \in Nat
    BY LifecycleAssumption, FS_Subset, FS_CardinalityType
  <2> QED BY <2>1 DEF ActiveInv, ActiveConnectionsExact
<1> QED BY <1>1, ActiveInit, ActiveNext, TypeCorrect, PTL DEF Spec

-----------------------------------------------------------------------------
(* The kill loop. *)

\* Nothing is shut down in the first states.
LEMMA ShutdownInit == Init => ShutdownInv
  BY DEF Init, ShutdownInv

\* Every step keeps what the shutdown needs.
LEMMA ShutdownNext ==
  TypeOK /\ RegistrySound /\ LostOnlyByOverwrite /\ ShutdownInv /\ [Next]_vars => ShutdownInv'
<1> SUFFICES ASSUME TypeOK, RegistrySound, LostOnlyByOverwrite, ShutdownInv, [Next]_vars
             PROVE  ShutdownInv'
  OBVIOUS
<1> USE LifecycleAssumption
<1> DEFINE Early == {"unborn", "scan", "claim"}
           Quit(w) == pc[w] \in {"loop", "relaying"} => sigquit[w] \/ ~running[w]
           Owed(w) == pc[w] \in {"connect", "ready"} \/ ~Quit(w)
\* Steps of workers that leave the table alone.
<1>1. ASSUME UNCHANGED <<main, kill_i, seen, registered, pids, lost>>,
             NEW w \in Workers,
             \A v \in Workers \ {w} :
                pc'[v] = pc[v] /\ running'[v] = running[v] /\ sigquit'[v] = sigquit[v],
             pc[w] \in Early \/ (pc'[w] \notin Early /\ (Owed(w)' => Owed(w)))
      PROVE ShutdownInv'
  BY <1>1 DEF TypeOK, ShutdownInv
<1>2. ASSUME NEW w \in Workers,
             \/ Accept(w) \/ FindFree(w) \/ ConnectFails(w) \/ Install(w) \/ BeginRelay(w)
             \/ EndRelay(w) \/ Crash(w) \/ Finish(w) \/ HandleSigquit(w) \/ LeaveLoop(w)
             \/ Uninstall(w) \/ ClearFind(w) \/ Connect(w) \/ Exit(w)
      PROVE ShutdownInv'
  <2>1. UNCHANGED <<main, kill_i, seen, registered, pids, lost>>
    BY <1>2 DEF Accept, FindFree, ConnectFails, Install, BeginRelay, EndRelay, Crash, Finish,
                HandleSigquit, LeaveLoop, Uninstall, ClearFind, Connect, Exit, mainVars,
                tableVars
  <2>2. \A v \in Workers \ {w} :
           pc'[v] = pc[v] /\ running'[v] = running[v] /\ sigquit'[v] = sigquit[v]
    BY <1>2 DEF TypeOK, Accept, FindFree, ConnectFails, Install, BeginRelay, EndRelay, Crash,
                Finish, HandleSigquit, LeaveLoop, Uninstall, ClearFind, Connect, Exit,
                loopVars
  <2>3. pc[w] \in Early \/ (pc'[w] \notin Early /\ (Owed(w)' => Owed(w)))
    BY <1>2 DEF TypeOK, Accept, FindFree, ConnectFails, Install, BeginRelay, EndRelay, Crash,
                Finish, HandleSigquit, LeaveLoop, Uninstall, ClearFind, Connect, Exit,
                loopVars
  <2> QED BY <1>1, <2>1, <2>2, <2>3
<1>3. ASSUME NEW w \in Workers, ClearSkip(w) PROVE ShutdownInv'
  BY <1>1, <1>3 DEF TypeOK, ClearSkip, Skip, mainVars, loopVars
\* Steps of a worker that store in the table.
<1>4. ASSUME UNCHANGED <<main, kill_i, seen, registered, running, sigquit>>,
             NEW w \in Workers, NEW i \in Slots, NEW new \in {w, NoPid, pids[i]},
             pids' = [pids EXCEPT ![i] = new],
             pids[i] # new => {pids[i]} \cap (Workers \ {w}) \subseteq lost',
             lost \subseteq lost',
             \A v \in Workers \ {w} : pc'[v] = pc[v],
             pc[w] \in Early \/ (new # w /\ pc'[w] = "decrement")
      PROVE ShutdownInv'
  <2>1. \A v \in registered' \ {w} : pc'[v] = pc[v] /\ v \in registered /\ v \in Workers
    BY <1>4 DEF TypeOK
  <2>2. w \in registered' => pc'[w] = "decrement" /\ new # w
    BY <1>4 DEF ShutdownInv
  <2>3. \A v \in (registered' \ lost') \ {w} : \A j \in Slots : pids[j] = v => pids'[j] = v
    BY <1>4, <2>1 DEF TypeOK
  <2>4. \A v \in registered' \ {w} : \A j \in Slots : pids'[j] = v => pids[j] = v
    BY <1>4, <2>1 DEF TypeOK
  <2>5. \A v \in registered' : pc'[v] \notin Early
    BY <2>1, <2>2 DEF ShutdownInv
  <2>6. ASSUME main' # "loop", NEW v \in registered' \ lost'
        PROVE  LET ahead == \E j \in Slots : j >= kill_i' /\ pids'[j] = v IN
               /\ pc'[v] \in {"connect", "ready"} => ahead
               /\ pc'[v] \in {"loop", "relaying"} => ahead \/ sigquit'[v] \/ ~running'[v]
    <3>1. CASE v = w
      BY <2>2, <3>1
    <3>2. CASE v # w
      BY <1>4, <2>1, <2>3, <2>6, <3>2 DEF ShutdownInv
    <3> QED BY <3>1, <3>2
  <2>7. ASSUME main' = "send", NEW v \in registered', pids'[kill_i'] = v PROVE seen' = v
    <3>1. kill_i \in Slots /\ main = "send"
      BY <1>4, <2>7 DEF TypeOK
    <3>2. pids[kill_i] = v
      <4>1. CASE v = w
        BY <1>4, <2>2, <2>7, <3>1, <4>1 DEF TypeOK
      <4>2. CASE v # w
        BY <1>4, <2>4, <2>7, <3>1, <4>2
      <4> QED BY <4>1, <4>2
    <3> QED BY <1>4, <3>1, <3>2, <2>7 DEF ShutdownInv
  <2>8. /\ main' = "exited" => kill_i' \notin Slots
        /\ main' = "loop" => kill_i' = 0
    BY <1>4 DEF ShutdownInv
  <2> QED BY <1>4, <2>5, <2>6, <2>7, <2>8 DEF ShutdownInv
<1>5. ASSUME NEW w \in Workers, SkipTaken(w) PROVE ShutdownInv'
  <2>1. /\ UNCHANGED <<main, kill_i, seen, registered, running, sigquit>>
        /\ pids' = [pids EXCEPT ![0] = pids[0]] /\ lost \subseteq lost'
        /\ \A v \in Workers \ {w} : pc'[v] = pc[v]
        /\ pc[w] \in Early /\ 0 \in Slots
    BY <1>5 DEF TypeOK, SkipTaken, Skip, mainVars, loopVars, Slots
  <2> QED BY <1>4, <2>1
<1>6. ASSUME NEW w \in Workers, Claim(w) PROVE ShutdownInv'
  <2>1. /\ UNCHANGED <<main, kill_i, seen, registered, running, sigquit>>
        /\ \A v \in Workers \ {w} : pc'[v] = pc[v]
        /\ pc[w] \in Early /\ scan[w] \in Slots
        /\ {pids[scan[w]]} \cap (Workers \ {w}) \subseteq lost' /\ lost \subseteq lost'
        /\ pids' = [pids EXCEPT ![scan[w]] = w]
    BY <1>6 DEF TypeOK, Claim, mainVars, loopVars
  <2> QED BY <1>4, <2>1
<1>7. ASSUME NEW w \in Workers, Clear(w) PROVE ShutdownInv'
  <2>1. /\ UNCHANGED <<main, kill_i, seen, registered, running, sigquit>>
        /\ \A v \in Workers \ {w} : pc'[v] = pc[v]
        /\ pc'[w] = "decrement" /\ scan[w] \in Slots
        /\ {pids[scan[w]]} \cap (Workers \ {w}) \subseteq lost' /\ lost \subseteq lost'
        /\ pids' = [pids EXCEPT ![scan[w]] = NoPid]
    BY <1>7 DEF TypeOK, Clear, mainVars, loopVars
  <2> QED BY <1>4, <2>1
<1>8. CASE Shutdown
  <2>1. \A w \in registered' : pc'[w] \notin Early
    BY <1>8 DEF Shutdown, RegistrySound, Registered
  <2>2. \A w \in registered' : \E i \in Slots : i >= kill_i' /\ pids'[i] = w
    BY <1>8 DEF Shutdown, Registered, ShutdownInv, Slots, tableVars
  <2> QED BY <1>8, <2>1, <2>2 DEF Shutdown, ShutdownInv
<1>9. CASE KillTest
  <2>1. CASE pids[kill_i] = NoPid
    <3>1. \A w \in registered : \A i \in Slots :
             pids[i] = w /\ i >= kill_i => i >= kill_i + 1
      BY <1>9, <2>1 DEF KillTest, TypeOK, Slots
    <3> QED BY <1>9, <2>1, <3>1 DEF KillTest, ShutdownInv, tableVars, loopVars
  <2>2. CASE pids[kill_i] # NoPid
    BY <1>9, <2>2 DEF KillTest, ShutdownInv, tableVars, loopVars
  <2> QED BY <2>1, <2>2
<1>10. CASE KillSend
  <2>1. /\ seen \in Workers /\ kill_i \in Slots
        /\ UNCHANGED <<registered, running, pids, lost>>
        /\ main = "send" /\ main' = "kill" /\ kill_i' = kill_i + 1
    BY <1>10 DEF TypeOK, KillSend, tableVars
  <2>2. \A v \in Workers :
           /\ pc'[v] = pc[v] \/ pc'[v] = "crashed"
           /\ sigquit[v] => sigquit'[v]
    BY <1>10 DEF TypeOK, KillSend
  <2>3. pc'[seen] \in Handling \cup Gone /\ (pc'[seen] \in Handling => sigquit'[seen])
    BY <1>10, <2>1 DEF TypeOK, KillSend, Gone, Handling
  <2>4. \A w \in registered' : pc'[w] \notin Early
    BY <2>1, <2>2 DEF TypeOK, ShutdownInv
  <2>5. ASSUME NEW v \in registered' \ lost'
        PROVE  LET ahead == \E j \in Slots : j >= kill_i' /\ pids'[j] = v IN
               /\ pc'[v] \in {"connect", "ready"} => ahead
               /\ pc'[v] \in {"loop", "relaying"} => ahead \/ sigquit'[v] \/ ~running'[v]
    <3>1. v \in Workers /\ v \in registered \ lost
      BY <2>1 DEF TypeOK
    <3>2. CASE v = seen
      BY <2>3, <3>2 DEF Handling, Gone
    <3>3. CASE v # seen
      <4>1. pids[kill_i] # v
        BY <2>1, <3>1, <3>3 DEF ShutdownInv
      <4>2. \A j \in Slots : j >= kill_i /\ pids[j] = v => j >= kill_i + 1
        BY <2>1, <4>1 DEF Slots
      <4> QED BY <2>1, <2>2, <3>1, <4>2 DEF ShutdownInv
    <3> QED BY <3>2, <3>3
  <2> QED BY <2>1, <2>4, <2>5 DEF ShutdownInv
<1>11. CASE OutputStatistics
  BY <1>11 DEF OutputStatistics, ShutdownInv, tableVars, loopVars
<1>12. CASE AcceptForkFails \/ UNCHANGED vars
  BY <1>12 DEF AcceptForkFails, ShutdownInv, vars, mainVars, tableVars, loopVars
<1> QED
  BY <1>2, <1>3, <1>5, <1>6, <1>7, <1>8, <1>9, <1>10, <1>11, <1>12
     DEF Next, MainStep, Register, Cleanup

\* When the main process exits, every worker that was in the table when its loop ended has
\* been signalled, has stopped, or had its slot overwritten (main.c:371-377), for every
\* number of workers and slots and however they interleave.
THEOREM ShutdownReachesAll == Spec => []ShutdownReachesRegistered
<1>1. TypeOK /\ ShutdownInv => ShutdownReachesRegistered
  BY LifecycleAssumption DEF TypeOK, ShutdownInv, ShutdownReachesRegistered, Slots
<1>2. RegistryInv => RegistrySound
  BY DEF RegistryInv
<1> QED
  BY <1>1, <1>2, ShutdownInit, ShutdownNext, TypeCorrect, RegistryIsSound,
     LostOnlyByOverwriteAlways, PTL DEF Spec

-----------------------------------------------------------------------------
(* The counters and the statistics. *)

\* The counters begin at zero.
LEMMA CounterInit == Init => CounterInv
  BY DEF Init, CounterInv, CounterPerClient, StatisticsComplete

\* Every step keeps the counters right.
LEMMA CounterNext == TypeOK /\ RegistrySound /\ CounterInv /\ [Next]_vars => CounterInv'
<1> SUFFICES ASSUME TypeOK, RegistrySound, CounterInv, [Next]_vars PROVE CounterInv'
  OBVIOUS
<1> USE LifecycleAssumption
\* Steps that neither fork, count nor print.
<1>1. ASSUME UNCHANGED <<counters, relayed, client, printed, client_number>>,
             main' = "exited" => main = "exited",
             \A w \in Workers : pc'[w] = "unborn" <=> pc[w] = "unborn",
             main' = "send" => pc'[seen'] # "unborn"
      PROVE CounterInv'
  BY <1>1 DEF CounterInv, CounterPerClient, StatisticsComplete
<1>2. ASSUME NEW w \in Workers,
             \/ FindFree(w) \/ Claim(w) \/ Connect(w) \/ ConnectFails(w) \/ Install(w)
             \/ EndRelay(w) \/ Crash(w) \/ Finish(w) \/ HandleSigquit(w) \/ LeaveLoop(w)
             \/ Uninstall(w) \/ ClearFind(w) \/ Clear(w) \/ Exit(w)
      PROVE CounterInv'
  <2>1. UNCHANGED <<main, seen, counters, relayed, client, printed, client_number>>
    BY <1>2 DEF FindFree, Claim, Connect, ConnectFails, Install, EndRelay, Crash, Finish,
                HandleSigquit, LeaveLoop, Uninstall, ClearFind, Clear, Exit, mainVars,
                loopVars, countVars
  <2>2. \A v \in Workers : pc'[v] = "unborn" <=> pc[v] = "unborn"
    BY <1>2 DEF TypeOK, FindFree, Claim, Connect, ConnectFails, Install, EndRelay, Crash,
                Finish, HandleSigquit, LeaveLoop, Uninstall, ClearFind, Clear, Exit
  <2> QED BY <1>1, <2>1, <2>2 DEF TypeOK, CounterInv
<1>3. ASSUME NEW w \in Workers, SkipTaken(w) \/ ClearSkip(w) PROVE CounterInv'
  BY <1>1, <1>3
     DEF TypeOK, CounterInv, SkipTaken, ClearSkip, Skip, mainVars, loopVars, countVars
<1>4. CASE Shutdown \/ KillTest \/ UNCHANGED vars
  <2>1. main' = "send" => pc'[seen'] # "unborn"
    BY <1>4 DEF TypeOK, RegistrySound, CounterInv, Shutdown, KillTest, vars, mainVars
  <2> QED BY <1>1, <1>4, <2>1 DEF Shutdown, KillTest, vars, mainVars, loopVars, countVars
<1>9. CASE KillSend
  <2>1. \A v \in Workers : pc'[v] = "unborn" <=> pc[v] = "unborn"
    BY <1>9 DEF TypeOK, CounterInv, KillSend
  <2> QED BY <1>1, <1>9, <2>1 DEF KillSend, loopVars, countVars
<1>5. CASE AcceptForkFails
  <2>1. client_number' >= client_number
    BY <1>5 DEF TypeOK, AcceptForkFails, NextClient, Clients
  <2>2. /\ UNCHANGED <<main, counters, relayed, client, printed, pc>> /\ main = "loop"
        /\ client_number \in Int /\ client_number' \in Int
    BY <1>5 DEF TypeOK, AcceptForkFails, MayAccept, NextClient, Clients, loopVars, countVars
  <2>3. CounterPerClient' /\ StatisticsComplete'
    BY <2>2 DEF CounterInv, CounterPerClient, StatisticsComplete
  <2>4. \A w \in Workers : client[w] \in Int
    BY DEF TypeOK, Clients
  <2> QED BY <2>1, <2>2, <2>3, <2>4 DEF CounterInv, Clients
<1>6. ASSUME NEW w \in Workers, Accept(w) PROVE CounterInv'
  <2>1. /\ main = "loop" /\ main' = "loop" /\ pc[w] = "unborn"
        /\ \A v \in Workers :
              /\ pc'[v] = (IF v = w THEN "scan" ELSE pc[v])
              /\ client'[v] = (IF v = w THEN client_number ELSE client[v])
        /\ UNCHANGED <<counters, relayed>>
    BY <1>6 DEF TypeOK, Accept, MayAccept, countVars
  <2>2. /\ client_number' >= client_number
        /\ client_number # Trash => client_number' = client_number + 1
    BY <1>6 DEF TypeOK, Accept, NextClient, Clients, Trash
  <2>3. \A v \in Workers : pc[v] # "unborn" /\ client[v] # Trash => client[v] < client_number
    BY DEF CounterInv
  <2>4. /\ client_number \in Clients /\ client_number' \in Int
        /\ \A v \in Workers : client[v] \in Clients
    BY <2>2, <1>6 DEF TypeOK, Accept, NextClient, Clients
  <2>5. client_number # Trash => counters[client_number] = relayed[w]
    BY <2>1, <2>4 DEF CounterInv, Clients
  <2>6. CounterPerClient'
    <3> SUFFICES ASSUME NEW u \in Workers, pc'[u] # "unborn", client'[u] # Trash
                 PROVE  /\ counters'[client'[u]] = relayed'[u]
                        /\ \A v \in Workers \ {u} : pc'[v] # "unborn" => client'[v] # client'[u]
      BY DEF CounterPerClient, Trash
    <3>1. CASE u = w
      BY <2>1, <2>3, <2>4, <2>5, <3>1 DEF Clients, Trash
    <3>2. CASE u # w
      BY <2>1, <2>3, <2>4, <3>2 DEF CounterInv, CounterPerClient, Clients, Trash
    <3> QED BY <3>1, <3>2
  <2>7. \A v \in Workers :
           /\ pc'[v] = "unborn" => relayed'[v] = 0
           /\ pc'[v] # "unborn" /\ client'[v] # Trash => client'[v] < client_number'
    BY <2>1, <2>2, <2>3, <2>4 DEF CounterInv, Clients, Trash
  <2>8. \A c \in Clients \ {Trash} : c >= client_number' => counters'[c] = 0
    BY <2>1, <2>2, <2>4 DEF CounterInv, Clients
  <2> QED
    BY <2>1, <2>6, <2>7, <2>8 DEF CounterInv, StatisticsComplete, Clients, Trash
<1>7. ASSUME NEW w \in Workers, BeginRelay(w) PROVE CounterInv'
  <2>1. PICK n \in Counted(w) : counters' = [counters EXCEPT ![client[w]] = n]
    BY <1>7 DEF BeginRelay
  <2>2. /\ UNCHANGED <<main, seen, client_number, printed, client>> /\ pc[w] = "loop"
        /\ \A v \in Workers : /\ pc'[v] = "unborn" <=> pc[v] = "unborn"
                              /\ relayed'[v] = relayed[v] + (IF v = w THEN 1 ELSE 0)
        /\ \A v \in Workers : relayed[v] \in Nat
    BY <1>7 DEF TypeOK, BeginRelay, mainVars, loopVars
  <2>3. client[w] # Trash => n = relayed[w] + 1
    BY <2>1, <2>2 DEF CounterInv, CounterPerClient, Counted
  <2>4. \A c \in Clients : counters'[c] = (IF c = client[w] THEN n ELSE counters[c])
    BY <2>1 DEF TypeOK
  <2>5. CounterPerClient'
    <3> SUFFICES ASSUME NEW u \in Workers, pc[u] # "unborn", client[u] # Trash
                 PROVE  /\ counters'[client[u]] = relayed'[u]
                        /\ \A v \in Workers \ {u} : pc[v] # "unborn" => client[v] # client[u]
      BY <2>2 DEF CounterPerClient, Trash
    <3>1. client[u] \in Clients /\ (u # w => client[u] # client[w])
      BY <2>2 DEF TypeOK, CounterInv, CounterPerClient
    <3> QED BY <2>2, <2>3, <2>4, <3>1 DEF CounterInv, CounterPerClient
  <2>6. StatisticsComplete'
    <3> SUFFICES ASSUME main = "exited"
                 PROVE  /\ Trash \notin DOMAIN printed
                        /\ \A v \in Workers : pc[v] # "unborn" /\ client[v] # Trash =>
                              client[v] \in DOMAIN printed /\ printed[client[v]] <= relayed'[v]
      BY <2>2 DEF StatisticsComplete, Trash
    <3> QED
      BY <2>2 DEF TypeOK, CounterInv, StatisticsComplete
  <2>7. \A c \in Clients \ {Trash} : c >= client_number => counters'[c] = 0
    <3>1. client[w] # Trash => client[w] < client_number
      BY <2>2 DEF CounterInv
    <3>2. \A c \in Clients : c = client[w] /\ c # Trash => ~(c >= client_number)
      BY <3>1 DEF TypeOK, Clients
    <3> QED BY <2>2, <2>4, <3>2 DEF CounterInv
  <2>8. main' = "send" => pc'[seen'] # "unborn"
    BY <2>2 DEF TypeOK, CounterInv
  <2> QED BY <2>2, <2>5, <2>6, <2>7, <2>8 DEF CounterInv, Clients, Trash
<1>8. CASE OutputStatistics
  <2>1. /\ UNCHANGED <<pc, client, counters, relayed, client_number>> /\ main' = "exited"
        /\ printed' = [c \in 0 .. client_number - 1 |-> counters[c]]
    BY <1>8 DEF OutputStatistics, loopVars, countVars
  <2>2. StatisticsComplete'
    <3>1. Trash \notin DOMAIN printed'
      BY <2>1 DEF TypeOK, Clients, Trash
    <3>2. ASSUME NEW w \in Workers, pc[w] # "unborn", client[w] # Trash
          PROVE  client[w] \in DOMAIN printed' /\ printed'[client[w]] <= relayed[w]
      <4>1. client[w] \in 0 .. client_number - 1
        BY <3>2 DEF TypeOK, CounterInv, Clients
      <4>2. counters[client[w]] = relayed[w] /\ relayed[w] \in Nat
        BY <3>2 DEF TypeOK, CounterInv, CounterPerClient
      <4> QED BY <2>1, <4>1, <4>2
    <3> QED BY <2>1, <3>1, <3>2 DEF StatisticsComplete, Trash
  <2> QED BY <2>1, <2>2 DEF CounterInv, CounterPerClient, Clients, Trash
<1> QED
  BY <1>2, <1>3, <1>4, <1>5, <1>6, <1>7, <1>8, <1>9 DEF Next, MainStep, Register, Cleanup

\* Every client below the limit has a counter of its own, which is exact, and a line in
\* the statistics (main.c:434-443, counter.c:62-74).
THEOREM CountersAreExact == Spec => [](CounterPerClient /\ StatisticsComplete)
<1>1. CounterInv => CounterPerClient /\ StatisticsComplete
  BY DEF CounterInv
<1>2. RegistryInv => RegistrySound
  BY DEF RegistryInv
<1> QED BY <1>1, <1>2, CounterInit, CounterNext, TypeCorrect, RegistryIsSound, PTL DEF Spec

\* The statistics the main process prints (counter.c:62-74) are complete, whatever the
\* workers still do.
THEOREM StatisticsAreComplete == Spec => []StatisticsComplete
  BY CountersAreExact, PTL
=============================================================================
