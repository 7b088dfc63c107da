------------------------------ MODULE NpcProofs -----------------------------
(***************************************************************************)
(* Theorems about CNpc.                                                    *)
(*                                                                         *)
(* A monster's life (NpcLife), for any number of players and IOCP threads, *)
(* whatever the uninitialised m_state holds: the three safety properties   *)
(* are inductive together with the types.                                  *)
(*                                                                         *)
(* Its search for a way (PathFinding), for any mazes and any size of the   *)
(* window: the step that AStar finds is the first of a shortest way unless *)
(* the search looked past its window, which it does only on detours.       *)
(***************************************************************************)
EXTENDS NpcLife, PathFinding, TLAPS, FiniteSetTheorems, WellFoundedInduction
-----------------------------------------------------------------------------
(* A monster's life.                                                       *)

JobPlaces == {"idle", "enter"} \cup WakePlaces \cup HitPlaces
ThreadPlaces == {"wait"} \cup UpdatePlaces \cup RespawnPlaces

\* What Goto and Jump do to the places.
LEMMA GotoPlaces ==
  ASSUME ppc \in [Players -> JobPlaces], NEW p \in Players,
         NEW place \in JobPlaces, Goto(p, place)
  PROVE  /\ ppc' \in [Players -> JobPlaces]
         /\ ppc'[p] = place
         /\ \A q \in Players : q # p => ppc'[q] = ppc[q]
BY DEF Goto

LEMMA JumpPlaces ==
  ASSUME ipc \in [IocpThreads -> ThreadPlaces], NEW t \in IocpThreads,
         NEW place \in ThreadPlaces, Jump(t, place)
  PROVE  /\ ipc' \in [IocpThreads -> ThreadPlaces]
         /\ ipc'[t] = place
         /\ \A u \in IocpThreads : u # t => ipc'[u] = ipc[u]
BY DEF Jump

\* The parts of TypeOK.
NpcOK ==
  /\ active \in BOOLEAN /\ die \in BOOLEAN /\ hp \in 0..MaxHp
  /\ mode \in NpcStates /\ target \in Players
RangeOK == range \in [Players -> Adjacent..Far]
TimerOK == moves \in Nat /\ respawns \in Nat
ThreadsOK == ipc \in [IocpThreads -> ThreadPlaces]
JobsOK ==
  /\ state \in [Players -> {"alloc", "ingame", "left"}]
  /\ ppc \in [Players -> JobPlaces]
  /\ \A p \in Players : ppc[p] # "idle" => state[p] = "ingame"
RestOK == listed \subseteq Players /\ blows \subseteq Players /\ ops \in 0..MaxOps

LEMMA TypeParts == TypeOK <=> NpcOK /\ RangeOK /\ TimerOK /\ ThreadsOK /\ JobsOK /\ RestOK
BY DEF TypeOK, NpcOK, RangeOK, TimerOK, ThreadsOK, JobsOK, RestOK, JobPlaces,
   ThreadPlaces

LEMMA TypePartsNext ==
  TypeOK' <=> NpcOK' /\ RangeOK' /\ TimerOK' /\ ThreadsOK' /\ JobsOK' /\ RestOK'
BY DEF TypeOK, NpcOK, RangeOK, TimerOK, ThreadsOK, JobsOK, RestOK, JobPlaces,
   ThreadPlaces

\* A job in progress that goes from one place to another.
LEMMA JobGoesOn ==
  ASSUME JobsOK, NEW p \in Players, NEW place \in JobPlaces,
         ppc[p] # "idle" \/ state[p] = "ingame", Goto(p, place), UNCHANGED state
  PROVE  JobsOK'
<1>1. /\ ppc' \in [Players -> JobPlaces] /\ ppc'[p] = place
      /\ \A q \in Players : q # p => ppc'[q] = ppc[q]
  BY GotoPlaces DEF JobsOK
<1>2. QED
  BY <1>1 DEF JobsOK

LEMMA PlacesDiffer ==
  /\ \A x \in WakePlaces \cup HitPlaces \cup {"enter"} : x \in JobPlaces /\ x # "idle"
  /\ "idle" \in JobPlaces
  /\ \A x \in {"wait"} \cup UpdatePlaces \cup RespawnPlaces : x \in ThreadPlaces
BY DEF WakePlaces, HitPlaces, JobPlaces, UpdatePlaces, RespawnPlaces,
   ThreadPlaces

LEMMA EndWakeUpGoes ==
  ASSUME NEW p, EndWakeUp(p)
  PROVE  \E place \in JobPlaces : place \in {"idle", "enter"} /\ Goto(p, place)
BY PlacesDiffer DEF EndWakeUp

LEMMA WakeIfSeenGoes ==
  ASSUME NEW p, NEW seen, WakeIfSeen(p, seen)
  PROVE  \E place \in JobPlaces : place \in {"idle", "wakeActive"} /\ Goto(p, place)
BY PlacesDiffer DEF WakeIfSeen, WakePlaces
LEMMA TypeStep ==
  ASSUME TypeOK, [Next]_vars
  PROVE  TypeOK'
<1>1. NpcOK /\ RangeOK /\ TimerOK /\ ThreadsOK /\ JobsOK /\ RestOK
  BY TypeParts
<1>2. ASSUME NEW p \in Players, Login(p)
      PROVE  TypeOK'
  <2>1. NpcOK' /\ RangeOK' /\ TimerOK' /\ ThreadsOK' /\ RestOK'
    BY <1>1, <1>2, BoundAssumption
       DEF Login, npc, timer, players, NpcOK, RangeOK, TimerOK, ThreadsOK,
           RestOK, Adjacent, Near, InView, Far, StepFrom, PlayerSteps
  <2>2. JobsOK'
    <3>1. PICK place \in JobPlaces : Goto(p, place)
      BY <1>2, PlacesDiffer DEF Login, WakePlaces
    <3>2. state' = [state EXCEPT ![p] = "ingame"]
      BY <1>2 DEF Login
    <3>3. /\ ppc' \in [Players -> JobPlaces] /\ ppc'[p] = place
          /\ \A q \in Players : q # p => ppc'[q] = ppc[q]
      BY <1>1, <3>1, GotoPlaces DEF JobsOK
    <3>4. QED
      BY <1>1, <3>2, <3>3 DEF JobsOK
  <2>3. QED
    BY <2>1, <2>2, TypePartsNext
<1>3. ASSUME NEW p \in Players, Move(p)
      PROVE  TypeOK'
  <2>1. NpcOK' /\ RangeOK' /\ TimerOK' /\ ThreadsOK' /\ RestOK'
    BY <1>1, <1>3, BoundAssumption
       DEF Move, npc, timer, players, NpcOK, RangeOK, TimerOK, ThreadsOK,
           RestOK, Adjacent, Near, InView, Far, StepFrom, PlayerSteps, May
  <2>2. JobsOK'
    BY <1>1, <1>3, WakeIfSeenGoes, JobGoesOn DEF Move, May
  <2>3. QED
    BY <2>1, <2>2, TypePartsNext
<1>4. ASSUME NEW p \in Players, TakeBlow(p)
      PROVE  TypeOK'
  <2>1. NpcOK' /\ RangeOK' /\ TimerOK' /\ ThreadsOK' /\ RestOK'
    BY <1>1, <1>4, BoundAssumption
       DEF TakeBlow, npc, timer, players, NpcOK, RangeOK, TimerOK, ThreadsOK,
           RestOK, Adjacent, Near, InView, Far, StepFrom, PlayerSteps, May
  <2>2. JobsOK'
    <3>1. CASE UNCHANGED ppc
      BY <1>1, <1>4, <3>1 DEF TakeBlow, JobsOK
    <3>2. CASE WakeIfSeen(p, range'[p] <= InView)
      BY <1>1, <1>4, <3>2, WakeIfSeenGoes, JobGoesOn DEF TakeBlow
    <3>3. QED
      BY <1>4, <3>1, <3>2 DEF TakeBlow
  <2>3. QED
    BY <2>1, <2>2, TypePartsNext
<1>5. ASSUME NEW p \in Players, Logout(p)
      PROVE  TypeOK'
  <2>1. NpcOK' /\ RangeOK' /\ TimerOK' /\ ThreadsOK' /\ RestOK'
    BY <1>1, <1>5, BoundAssumption
       DEF Logout, npc, timer, players, NpcOK, RangeOK, TimerOK, ThreadsOK,
           RestOK, May
  <2>2. JobsOK'
    <3>1. /\ state' = [state EXCEPT ![p] = "left"] /\ ppc' = ppc
          /\ ppc[p] = "idle"
      BY <1>5 DEF Logout, May, At
    <3>2. QED
      BY <1>1, <3>1 DEF JobsOK
  <2>3. QED
    BY <2>1, <2>2, TypePartsNext
<1>6. ASSUME NEW p \in Players, Hit(p)
      PROVE  TypeOK'
  <2>1. NpcOK' /\ RangeOK' /\ TimerOK' /\ ThreadsOK' /\ RestOK'
    BY <1>1, <1>6, BoundAssumption
       DEF Hit, npc, timer, players, NpcOK, RangeOK, TimerOK, ThreadsOK,
           RestOK, May
  <2>2. JobsOK'
    BY <1>1, <1>6, JobGoesOn, PlacesDiffer DEF Hit, May, HitPlaces
  <2>3. QED
    BY <2>1, <2>2, TypePartsNext
<1>7. ASSUME NEW p \in Players, Enter(p)
      PROVE  TypeOK'
  <2>1. NpcOK' /\ RangeOK' /\ TimerOK' /\ ThreadsOK' /\ RestOK'
    BY <1>1, <1>7
       DEF Enter, npc, timer, players, NpcOK, RangeOK, TimerOK, ThreadsOK,
           RestOK
  <2>2. JobsOK'
    BY <1>1, <1>7, JobGoesOn, PlacesDiffer
       DEF Enter, At, WakePlaces, HitPlaces, players
  <2>3. QED
    BY <2>1, <2>2, TypePartsNext
<1>8. ASSUME NEW p \in Players, WakeTestActive(p)
      PROVE  TypeOK'
  <2>1. NpcOK' /\ RangeOK' /\ TimerOK' /\ ThreadsOK' /\ RestOK'
    BY <1>1, <1>8
       DEF WakeTestActive, npc, timer, players, NpcOK, RangeOK, TimerOK,
           ThreadsOK, RestOK
  <2>2. JobsOK'
    BY <1>1, <1>8, JobGoesOn, PlacesDiffer
       DEF WakeTestActive, At, WakePlaces, HitPlaces, players, EndWakeUp
  <2>3. QED
    BY <2>1, <2>2, TypePartsNext
<1>9. ASSUME NEW p \in Players, WakeTestDie(p)
      PROVE  TypeOK'
  <2>1. NpcOK' /\ RangeOK' /\ TimerOK' /\ ThreadsOK' /\ RestOK'
    BY <1>1, <1>9
       DEF WakeTestDie, npc, timer, players, NpcOK, RangeOK, TimerOK,
           ThreadsOK, RestOK
  <2>2. JobsOK'
    BY <1>1, <1>9, JobGoesOn, PlacesDiffer
       DEF WakeTestDie, At, WakePlaces, HitPlaces, players, EndWakeUp
  <2>3. QED
    BY <2>1, <2>2, TypePartsNext
<1>10. ASSUME NEW p \in Players, WakeSet(p)
      PROVE  TypeOK'
  <2>1. NpcOK' /\ RangeOK' /\ TimerOK' /\ ThreadsOK' /\ RestOK'
    BY <1>1, <1>10
       DEF WakeSet, npc, timer, players, NpcOK, RangeOK, TimerOK, ThreadsOK,
           RestOK
  <2>2. JobsOK'
    BY <1>1, <1>10, JobGoesOn, PlacesDiffer
       DEF WakeSet, At, WakePlaces, HitPlaces, players
  <2>3. QED
    BY <2>1, <2>2, TypePartsNext
<1>11. ASSUME NEW p \in Players, WakePush(p)
      PROVE  TypeOK'
  <2>1. NpcOK' /\ RangeOK' /\ TimerOK' /\ ThreadsOK' /\ RestOK'
    BY <1>1, <1>11
       DEF WakePush, npc, timer, players, NpcOK, RangeOK, TimerOK, ThreadsOK,
           RestOK
  <2>2. JobsOK'
    BY <1>1, <1>11, JobGoesOn, PlacesDiffer
       DEF WakePush, At, WakePlaces, HitPlaces, players, EndWakeUp
  <2>3. QED
    BY <2>1, <2>2, TypePartsNext
<1>12. ASSUME NEW p \in Players, HitTestActive(p)
      PROVE  TypeOK'
  <2>1. NpcOK' /\ RangeOK' /\ TimerOK' /\ ThreadsOK' /\ RestOK'
    BY <1>1, <1>12
       DEF HitTestActive, npc, timer, players, NpcOK, RangeOK, TimerOK,
           ThreadsOK, RestOK
  <2>2. JobsOK'
    BY <1>1, <1>12, JobGoesOn, PlacesDiffer
       DEF HitTestActive, At, WakePlaces, HitPlaces, players
  <2>3. QED
    BY <2>1, <2>2, TypePartsNext
<1>13. ASSUME NEW p \in Players, HitTestDie(p)
      PROVE  TypeOK'
  <2>1. NpcOK' /\ RangeOK' /\ TimerOK' /\ ThreadsOK' /\ RestOK'
    BY <1>1, <1>13
       DEF HitTestDie, npc, timer, players, NpcOK, RangeOK, TimerOK, ThreadsOK,
           RestOK
  <2>2. JobsOK'
    BY <1>1, <1>13, JobGoesOn, PlacesDiffer
       DEF HitTestDie, At, WakePlaces, HitPlaces, players
  <2>3. QED
    BY <2>1, <2>2, TypePartsNext
<1>14. ASSUME NEW p \in Players, NEW power \in Powers, HitHp(p, power)
      PROVE  TypeOK'
  <2>1. NpcOK' /\ RangeOK' /\ TimerOK' /\ ThreadsOK' /\ RestOK'
    BY <1>1, <1>14, HealthAssumption
       DEF HitHp, npc, timer, players, NpcOK, RangeOK, TimerOK, ThreadsOK,
           RestOK
  <2>2. JobsOK'
    BY <1>1, <1>14, JobGoesOn, PlacesDiffer
       DEF HitHp, At, WakePlaces, HitPlaces, players
  <2>3. QED
    BY <2>1, <2>2, TypePartsNext
<1>15. ASSUME NEW p \in Players, KillDie(p)
      PROVE  TypeOK'
  <2>1. NpcOK' /\ RangeOK' /\ TimerOK' /\ ThreadsOK' /\ RestOK'
    BY <1>1, <1>15
       DEF KillDie, npc, timer, players, NpcOK, RangeOK, TimerOK, ThreadsOK,
           RestOK
  <2>2. JobsOK'
    BY <1>1, <1>15, JobGoesOn, PlacesDiffer
       DEF KillDie, At, WakePlaces, HitPlaces, players
  <2>3. QED
    BY <2>1, <2>2, TypePartsNext
<1>16. ASSUME NEW p \in Players, KillEvent(p)
      PROVE  TypeOK'
  <2>1. NpcOK' /\ RangeOK' /\ TimerOK' /\ ThreadsOK' /\ RestOK'
    BY <1>1, <1>16
       DEF KillEvent, npc, timer, players, NpcOK, RangeOK, TimerOK, ThreadsOK,
           RestOK
  <2>2. JobsOK'
    BY <1>1, <1>16, JobGoesOn, PlacesDiffer
       DEF KillEvent, At, WakePlaces, HitPlaces, players
  <2>3. QED
    BY <2>1, <2>2, TypePartsNext
<1>17. ASSUME NEW t \in IocpThreads, TakeMove(t)
      PROVE  TypeOK'
  <2>1. NpcOK' /\ RangeOK' /\ TimerOK' /\ JobsOK' /\ RestOK'
    BY <1>1, <1>17
       DEF TakeMove, npc, timer, players, On, NpcOK, RangeOK, TimerOK, JobsOK,
           RestOK
  <2>2. ThreadsOK'
    BY <1>1, <1>17, JumpPlaces, PlacesDiffer
       DEF TakeMove, ThreadsOK, UpdatePlaces, RespawnPlaces
  <2>3. QED
    BY <2>1, <2>2, TypePartsNext
<1>18. ASSUME NEW t \in IocpThreads, TakeRespawn(t)
      PROVE  TypeOK'
  <2>1. NpcOK' /\ RangeOK' /\ TimerOK' /\ JobsOK' /\ RestOK'
    BY <1>1, <1>18
       DEF TakeRespawn, npc, timer, players, On, NpcOK, RangeOK, TimerOK,
           JobsOK, RestOK
  <2>2. ThreadsOK'
    BY <1>1, <1>18, JumpPlaces, PlacesDiffer
       DEF TakeRespawn, ThreadsOK, UpdatePlaces, RespawnPlaces
  <2>3. QED
    BY <2>1, <2>2, TypePartsNext
<1>19. ASSUME NEW t \in IocpThreads, UpdateTestDie(t)
      PROVE  TypeOK'
  <2>1. NpcOK' /\ RangeOK' /\ TimerOK' /\ JobsOK' /\ RestOK'
    BY <1>1, <1>19
       DEF UpdateTestDie, npc, timer, players, On, NpcOK, RangeOK, TimerOK,
           JobsOK, RestOK
  <2>2. ThreadsOK'
    BY <1>1, <1>19, JumpPlaces, PlacesDiffer
       DEF UpdateTestDie, ThreadsOK, UpdatePlaces, RespawnPlaces
  <2>3. QED
    BY <2>1, <2>2, TypePartsNext
<1>20. ASSUME NEW t \in IocpThreads, UpdateTestActive(t)
      PROVE  TypeOK'
  <2>1. NpcOK' /\ RangeOK' /\ TimerOK' /\ JobsOK' /\ RestOK'
    BY <1>1, <1>20
       DEF UpdateTestActive, npc, timer, players, On, NpcOK, RangeOK, TimerOK,
           JobsOK, RestOK
  <2>2. ThreadsOK'
    BY <1>1, <1>20, JumpPlaces, PlacesDiffer
       DEF UpdateTestActive, ThreadsOK, UpdatePlaces, RespawnPlaces
  <2>3. QED
    BY <2>1, <2>2, TypePartsNext
<1>21. ASSUME NEW t \in IocpThreads, Attack(t)
      PROVE  TypeOK'
  <2>1. NpcOK' /\ RangeOK' /\ TimerOK' /\ JobsOK' /\ RestOK'
    BY <1>1, <1>21
       DEF Attack, npc, timer, players, On, NpcOK, RangeOK, TimerOK, JobsOK,
           RestOK, NpcStates
  <2>2. ThreadsOK'
    BY <1>1, <1>21, JumpPlaces, PlacesDiffer
       DEF Attack, ThreadsOK, UpdatePlaces, RespawnPlaces
  <2>3. QED
    BY <2>1, <2>2, TypePartsNext
<1>22. ASSUME NEW t \in IocpThreads, GiveUp(t)
      PROVE  TypeOK'
  <2>1. NpcOK' /\ RangeOK' /\ TimerOK' /\ JobsOK' /\ RestOK'
    BY <1>1, <1>22
       DEF GiveUp, npc, timer, players, On, NpcOK, RangeOK, TimerOK, JobsOK,
           RestOK, NpcStates
  <2>2. ThreadsOK'
    BY <1>1, <1>22, JumpPlaces, PlacesDiffer
       DEF GiveUp, ThreadsOK, UpdatePlaces, RespawnPlaces
  <2>3. QED
    BY <2>1, <2>2, TypePartsNext
<1>23. ASSUME NEW t \in IocpThreads, Chase(t)
      PROVE  TypeOK'
  <2>1. NpcOK' /\ RangeOK' /\ TimerOK' /\ JobsOK' /\ RestOK'
    BY <1>1, <1>23
       DEF Chase, npc, timer, players, On, NpcOK, RangeOK, TimerOK, JobsOK,
           RestOK, MonsterSteps, NpcStates
  <2>2. ThreadsOK'
    BY <1>1, <1>23, JumpPlaces, PlacesDiffer
       DEF Chase, ThreadsOK, UpdatePlaces, RespawnPlaces
  <2>3. QED
    BY <2>1, <2>2, TypePartsNext
<1>24. ASSUME NEW t \in IocpThreads, Blocked(t)
      PROVE  TypeOK'
  <2>1. NpcOK' /\ RangeOK' /\ TimerOK' /\ JobsOK' /\ RestOK'
    BY <1>1, <1>24
       DEF Blocked, npc, timer, players, On, NpcOK, RangeOK, TimerOK, JobsOK,
           RestOK
  <2>2. ThreadsOK'
    BY <1>1, <1>24, JumpPlaces, PlacesDiffer
       DEF Blocked, ThreadsOK, UpdatePlaces, RespawnPlaces
  <2>3. QED
    BY <2>1, <2>2, TypePartsNext
<1>25. ASSUME NEW t \in IocpThreads, RandomMove(t)
      PROVE  TypeOK'
  <2>1. NpcOK' /\ RangeOK' /\ TimerOK' /\ JobsOK' /\ RestOK'
    BY <1>1, <1>25
       DEF RandomMove, npc, timer, players, On, NpcOK, RangeOK, TimerOK,
           JobsOK, RestOK, MonsterSteps
  <2>2. ThreadsOK'
    BY <1>1, <1>25, JumpPlaces, PlacesDiffer
       DEF RandomMove, ThreadsOK, UpdatePlaces, RespawnPlaces
  <2>3. QED
    BY <2>1, <2>2, TypePartsNext
<1>26. ASSUME NEW t \in IocpThreads, NoMode(t)
      PROVE  TypeOK'
  <2>1. NpcOK' /\ RangeOK' /\ TimerOK' /\ JobsOK' /\ RestOK'
    BY <1>1, <1>26
       DEF NoMode, npc, timer, players, On, NpcOK, RangeOK, TimerOK, JobsOK,
           RestOK
  <2>2. ThreadsOK'
    BY <1>1, <1>26, JumpPlaces, PlacesDiffer
       DEF NoMode, ThreadsOK, UpdatePlaces, RespawnPlaces
  <2>3. QED
    BY <2>1, <2>2, TypePartsNext
<1>27. ASSUME NEW t \in IocpThreads, Look(t)
      PROVE  TypeOK'
  <2>1. NpcOK' /\ RangeOK' /\ TimerOK' /\ JobsOK' /\ RestOK'
    BY <1>1, <1>27
       DEF Look, npc, timer, players, On, NpcOK, RangeOK, TimerOK, JobsOK,
           RestOK
  <2>2. ThreadsOK'
    BY <1>1, <1>27, JumpPlaces, PlacesDiffer
       DEF Look, ThreadsOK, UpdatePlaces, RespawnPlaces
  <2>3. QED
    BY <2>1, <2>2, TypePartsNext
<1>28. ASSUME NEW t \in IocpThreads, Search(t)
      PROVE  TypeOK'
  <2>1. NpcOK' /\ RangeOK' /\ TimerOK' /\ JobsOK' /\ RestOK'
    BY <1>1, <1>28
       DEF Search, npc, timer, players, On, NpcOK, RangeOK, TimerOK, JobsOK,
           RestOK, CheckSection, NpcStates
  <2>2. ThreadsOK'
    BY <1>1, <1>28, JumpPlaces, PlacesDiffer
       DEF Search, ThreadsOK, UpdatePlaces, RespawnPlaces
  <2>3. QED
    BY <2>1, <2>2, TypePartsNext
<1>29. ASSUME NEW t \in IocpThreads, Sleep(t)
      PROVE  TypeOK'
  <2>1. NpcOK' /\ RangeOK' /\ TimerOK' /\ JobsOK' /\ RestOK'
    BY <1>1, <1>29
       DEF Sleep, npc, timer, players, On, NpcOK, RangeOK, TimerOK, JobsOK,
           RestOK
  <2>2. ThreadsOK'
    BY <1>1, <1>29, JumpPlaces, PlacesDiffer
       DEF Sleep, ThreadsOK, UpdatePlaces, RespawnPlaces
  <2>3. QED
    BY <2>1, <2>2, TypePartsNext
<1>30. ASSUME NEW t \in IocpThreads, UpdateTestAgain(t)
      PROVE  TypeOK'
  <2>1. NpcOK' /\ RangeOK' /\ TimerOK' /\ JobsOK' /\ RestOK'
    BY <1>1, <1>30
       DEF UpdateTestAgain, npc, timer, players, On, NpcOK, RangeOK, TimerOK,
           JobsOK, RestOK
  <2>2. ThreadsOK'
    BY <1>1, <1>30, JumpPlaces, PlacesDiffer
       DEF UpdateTestAgain, ThreadsOK, UpdatePlaces, RespawnPlaces
  <2>3. QED
    BY <2>1, <2>2, TypePartsNext
<1>31. ASSUME NEW t \in IocpThreads, UpdatePush(t)
      PROVE  TypeOK'
  <2>1. NpcOK' /\ RangeOK' /\ TimerOK' /\ JobsOK' /\ RestOK'
    BY <1>1, <1>31
       DEF UpdatePush, npc, timer, players, On, NpcOK, RangeOK, TimerOK,
           JobsOK, RestOK
  <2>2. ThreadsOK'
    BY <1>1, <1>31, JumpPlaces, PlacesDiffer
       DEF UpdatePush, ThreadsOK, UpdatePlaces, RespawnPlaces
  <2>3. QED
    BY <2>1, <2>2, TypePartsNext
<1>32. ASSUME NEW t \in IocpThreads, RespawnDie(t)
      PROVE  TypeOK'
  <2>1. NpcOK' /\ RangeOK' /\ TimerOK' /\ JobsOK' /\ RestOK'
    BY <1>1, <1>32
       DEF RespawnDie, npc, timer, players, On, NpcOK, RangeOK, TimerOK,
           JobsOK, RestOK
  <2>2. ThreadsOK'
    BY <1>1, <1>32, JumpPlaces, PlacesDiffer
       DEF RespawnDie, ThreadsOK, UpdatePlaces, RespawnPlaces
  <2>3. QED
    BY <2>1, <2>2, TypePartsNext
<1>33. ASSUME NEW t \in IocpThreads, RespawnHp(t)
      PROVE  TypeOK'
  <2>1. NpcOK' /\ RangeOK' /\ TimerOK' /\ JobsOK' /\ RestOK'
    BY <1>1, <1>33, HealthAssumption
       DEF RespawnHp, npc, timer, players, On, NpcOK, RangeOK, TimerOK, JobsOK,
           RestOK
  <2>2. ThreadsOK'
    BY <1>1, <1>33, JumpPlaces, PlacesDiffer
       DEF RespawnHp, ThreadsOK, UpdatePlaces, RespawnPlaces
  <2>3. QED
    BY <2>1, <2>2, TypePartsNext
<1>34. ASSUME NEW t \in IocpThreads, RespawnPos(t)
      PROVE  TypeOK'
  <2>1. NpcOK' /\ RangeOK' /\ TimerOK' /\ JobsOK' /\ RestOK'
    BY <1>1, <1>34
       DEF RespawnPos, npc, timer, players, On, NpcOK, RangeOK, TimerOK,
           JobsOK, RestOK
  <2>2. ThreadsOK'
    BY <1>1, <1>34, JumpPlaces, PlacesDiffer
       DEF RespawnPos, ThreadsOK, UpdatePlaces, RespawnPlaces
  <2>3. QED
    BY <2>1, <2>2, TypePartsNext
<1>35. ASSUME NEW t \in IocpThreads, RespawnPush(t)
      PROVE  TypeOK'
  <2>1. NpcOK' /\ RangeOK' /\ TimerOK' /\ JobsOK' /\ RestOK'
    BY <1>1, <1>35
       DEF RespawnPush, npc, timer, players, On, NpcOK, RangeOK, TimerOK,
           JobsOK, RestOK
  <2>2. ThreadsOK'
    BY <1>1, <1>35, JumpPlaces, PlacesDiffer
       DEF RespawnPush, ThreadsOK, UpdatePlaces, RespawnPlaces
  <2>3. QED
    BY <2>1, <2>2, TypePartsNext
<1>36. ASSUME UNCHANGED vars
      PROVE  TypeOK'
  BY <1>1, <1>36, TypePartsNext
     DEF vars, npc, timer, players, NpcOK, RangeOK, TimerOK, ThreadsOK, RestOK, JobsOK
<1>37. QED
  BY <1>2, <1>3, <1>4, <1>5, <1>6, <1>7, <1>8, <1>9, <1>10, <1>11, <1>12,
     <1>13, <1>14, <1>15, <1>16, <1>17, <1>18, <1>19, <1>20, <1>21, <1>22,
     <1>23, <1>24, <1>25, <1>26, <1>27, <1>28, <1>29, <1>30, <1>31, <1>32,
     <1>33, <1>34, <1>35, <1>36
     DEF Next, Begin, Continue, WakeUp, Damaged, Update, Act, MonsterRespawn

-----------------------------------------------------------------------------
(* NeverStuck.                                                             *)

Carrying == UpdatePlaces \cup (RespawnPlaces \ {"rsDie"})

\* A thread in the middle of an update or of a respawn is enough, ...
LEMMA CarriedOn ==
  ASSUME ThreadsOK, NEW t \in IocpThreads, NEW place \in Carrying, Jump(t, place)
  PROVE  NeverStuck'
<1>1. ipc'[t] = place
  BY JumpPlaces DEF ThreadsOK, Carrying, ThreadPlaces
<1>2. QED
  BY <1>1 DEF NeverStuck, Carrying

\* ... and so is an event.
LEMMA EventPending ==
  ASSUME moves \in Nat, moves' = moves + 1
  PROVE  NeverStuck'
<1>1. \A m \in Nat : m + 1 > 0
  OBVIOUS
<1>2. QED
  BY <1>1 DEF NeverStuck

\* A thread that carries nothing on may leave, when it does not wake the monster.
LEMMA OthersCarry ==
  ASSUME NeverStuck, ThreadsOK, NEW t \in IocpThreads, ipc[t] \notin Carrying,
         Jump(t, "rsDie"), UNCHANGED <<active, die, moves, ppc>>
  PROVE  NeverStuck'
<1>1. \A u \in IocpThreads : u # t => ipc'[u] = ipc[u]
  BY JumpPlaces DEF ThreadsOK, ThreadPlaces, RespawnPlaces
<1>2. QED
  BY <1>1 DEF NeverStuck, Carrying

\* A job of a player that is not about to register the first event, and that
\* neither wakes the monster nor brings it back.
LEMMA JobCarriesNothing ==
  ASSUME NeverStuck, UNCHANGED <<ipc, moves>>,
         active' => active, ~die' => ~die,
         \A q \in Players : ppc[q] = "wakePush" => ppc'[q] = "wakePush"
  PROVE  NeverStuck'
BY DEF NeverStuck

\* Only the job that makes the step goes to another place.
LEMMA OneJobMoves ==
  ASSUME JobsOK, NEW p \in Players, ppc[p] # "wakePush",
         \/ UNCHANGED ppc
         \/ \E place \in JobPlaces : Goto(p, place)
  PROVE  \A q \in Players : ppc[q] = "wakePush" => ppc'[q] = "wakePush"
BY GotoPlaces DEF JobsOK

LEMMA StepsNotPushing ==
  ASSUME NEW p \in Players,
         \/ Begin(p) \/ Enter(p) \/ WakeTestActive(p) \/ WakeTestDie(p) \/ Damaged(p)
  PROVE  /\ UNCHANGED <<ipc, moves, active>> /\ (~die' => ~die)
         /\ state[p] = "alloc" \/ ppc[p] # "wakePush"
         /\ UNCHANGED ppc \/ \E place \in JobPlaces : Goto(p, place)
<1>1. CASE Login(p)
  BY <1>1, PlacesDiffer DEF Login, npc, timer, WakePlaces
<1>2. CASE Move(p)
  BY <1>2, WakeIfSeenGoes DEF Move, May, At, npc, timer
<1>3. CASE TakeBlow(p)
  BY <1>3, WakeIfSeenGoes DEF TakeBlow, At, npc, timer
<1>4. CASE Logout(p)
  BY <1>4 DEF Logout, May, At, npc, timer
<1>5. CASE Hit(p)
  BY <1>5, PlacesDiffer DEF Hit, May, At, npc, timer, HitPlaces
<1>6. CASE Enter(p) \/ WakeTestActive(p) \/ WakeTestDie(p)
  BY <1>6, PlacesDiffer
     DEF Enter, WakeTestActive, WakeTestDie, EndWakeUp, At, npc, timer, WakePlaces
<1>7. CASE Damaged(p)
  BY <1>7, PlacesDiffer
     DEF Damaged, HitTestActive, HitTestDie, HitHp, KillDie, KillEvent, At, npc, timer,
         HitPlaces
<1>8. QED
  BY <1>1, <1>2, <1>3, <1>4, <1>5, <1>6, <1>7 DEF Begin

LEMMA NeverStuckStep ==
  ASSUME TypeOK, NeverStuck, [Next]_vars
  PROVE  NeverStuck'
<1>1. ThreadsOK /\ TimerOK /\ JobsOK
  BY TypeParts
<1>2. ASSUME NEW p \in Players,
             \/ Begin(p) \/ Enter(p) \/ WakeTestActive(p) \/ WakeTestDie(p)
             \/ Damaged(p)
      PROVE  NeverStuck'
  <2>1. ppc[p] # "wakePush"
    <3>1. state[p] = "alloc" => ppc[p] # "wakePush"
      BY <1>1 DEF JobsOK
    <3>2. QED
      BY <1>2, <3>1, StepsNotPushing
  <2>2. QED
    BY <1>1, <1>2, <2>1, StepsNotPushing, OneJobMoves, JobCarriesNothing
<1>3. ASSUME NEW p \in Players, WakeSet(p)
      PROVE  NeverStuck'
  <2>1. ppc'[p] = "wakePush"
    BY <1>1, <1>3, GotoPlaces, PlacesDiffer DEF WakeSet, JobsOK, WakePlaces
  <2>2. QED
    BY <2>1 DEF NeverStuck
<1>4. ASSUME NEW p \in Players, WakePush(p)
      PROVE  NeverStuck'
  BY <1>1, <1>4, EventPending DEF WakePush, TimerOK
<1>5. ASSUME NEW t \in IocpThreads, TakeMove(t)
      PROVE  NeverStuck'
  BY <1>1, <1>5, CarriedOn DEF TakeMove, Carrying, UpdatePlaces
<1>6. ASSUME NEW t \in IocpThreads, UpdateTestDie(t)
      PROVE  NeverStuck'
  <2>1. CASE die
    BY <1>6, <2>1 DEF UpdateTestDie, npc, NeverStuck
  <2>2. CASE ~die
    BY <1>1, <1>6, <2>2, CarriedOn DEF UpdateTestDie, Carrying, UpdatePlaces
  <2>3. QED
    BY <2>1, <2>2
<1>7. ASSUME NEW t \in IocpThreads, UpdateTestActive(t) \/ UpdateTestAgain(t)
      PROVE  NeverStuck'
  <2>1. CASE active
    BY <1>1, <1>7, <2>1, CarriedOn
       DEF UpdateTestActive, UpdateTestAgain, Carrying, UpdatePlaces
  <2>2. CASE ~active
    BY <1>7, <2>2 DEF UpdateTestActive, UpdateTestAgain, npc, NeverStuck
  <2>3. QED
    BY <2>1, <2>2
<1>8. ASSUME NEW t \in IocpThreads, Act(t) \/ Look(t) \/ Search(t) \/ Sleep(t)
      PROVE  NeverStuck'
  <2>1. \E place \in Carrying : Jump(t, place)
    BY <1>8 DEF Act, Attack, GiveUp, Chase, Blocked, RandomMove, NoMode, Look, Search,
                Sleep, Carrying, UpdatePlaces
  <2>2. QED
    BY <1>1, <2>1, CarriedOn
<1>9. ASSUME NEW t \in IocpThreads, UpdatePush(t) \/ RespawnPush(t)
      PROVE  NeverStuck'
  BY <1>1, <1>9, EventPending DEF UpdatePush, RespawnPush, TimerOK
<1>10. ASSUME NEW t \in IocpThreads, TakeRespawn(t)
       PROVE  NeverStuck'
  <2>1. ipc[t] \notin Carrying
    BY <1>10 DEF TakeRespawn, On, Carrying, UpdatePlaces, RespawnPlaces
  <2>2. QED
    BY <1>1, <1>10, <2>1, OthersCarry DEF TakeRespawn, npc
<1>11. ASSUME NEW t \in IocpThreads, RespawnDie(t) \/ RespawnHp(t) \/ RespawnPos(t)
       PROVE  NeverStuck'
  <2>1. \E place \in Carrying : Jump(t, place)
    BY <1>11 DEF RespawnDie, RespawnHp, RespawnPos, Carrying, RespawnPlaces
  <2>2. QED
    BY <1>1, <2>1, CarriedOn
<1>12. CASE UNCHANGED vars
  BY <1>12 DEF vars, npc, timer, NeverStuck
<1>13. QED
  BY <1>2, <1>3, <1>4, <1>5, <1>6, <1>7, <1>8, <1>9, <1>10, <1>11, <1>12
     DEF Next, Continue, WakeUp, Update, MonsterRespawn

-----------------------------------------------------------------------------
(* DeadRespawns and NoWalkingDead.                                         *)

\* Death and health change in five actions only, and only two other actions touch
\* what brings a monster back.
LEMMA QuietSteps ==
  ASSUME TypeOK, [Next]_vars,
         ~ \E p \in Players :
             \/ \E power \in Powers : HitHp(p, power)
             \/ KillDie(p) \/ KillEvent(p),
         ~ \E t \in IocpThreads : TakeRespawn(t) \/ RespawnDie(t) \/ RespawnHp(t)
  PROVE  /\ UNCHANGED <<die, hp>> /\ respawns' = respawns
         /\ \A q \in Players :
              ppc[q] \in {"killDie", "killEvent"} => ppc'[q] = ppc[q]
         /\ \A u \in IocpThreads : ipc[u] \in {"rsDie", "rsHp"} => ipc'[u] = ipc[u]
<1> DEFINE Quiet ==
      /\ UNCHANGED <<die, hp>> /\ respawns' = respawns
      /\ \A q \in Players :
           ppc[q] \in {"killDie", "killEvent"} => ppc'[q] = ppc[q]
      /\ \A u \in IocpThreads : ipc[u] \in {"rsDie", "rsHp"} => ipc'[u] = ipc[u]
<1>1. ThreadsOK /\ JobsOK
  BY TypeParts
<1>2. ASSUME NEW p \in Players,
             \/ Begin(p) \/ Enter(p) \/ WakeUp(p)
             \/ HitTestActive(p) \/ HitTestDie(p)
      PROVE  Quiet
  <2>1. /\ UNCHANGED <<die, hp, respawns, ipc>>
        /\ UNCHANGED ppc \/ \E place \in JobPlaces : Goto(p, place)
        /\ state[p] = "alloc" \/ ppc[p] \notin {"killDie", "killEvent"}
    <3>1. CASE Begin(p)
      BY <3>1, PlacesDiffer, WakeIfSeenGoes
         DEF Begin, Login, Move, TakeBlow, Logout, Hit, May, At, npc, timer, WakePlaces,
             HitPlaces
    <3>2. CASE Enter(p) \/ WakeUp(p)
      BY <3>2, PlacesDiffer, EndWakeUpGoes
         DEF Enter, WakeUp, WakeTestActive, WakeTestDie, WakeSet, WakePush, At, npc,
             timer, WakePlaces
    <3>3. CASE HitTestActive(p) \/ HitTestDie(p)
      BY <3>3, PlacesDiffer DEF HitTestActive, HitTestDie, At, npc, timer, HitPlaces
    <3>4. QED
      BY <1>2, <3>1, <3>2, <3>3
  <2>2. ppc[p] \notin {"killDie", "killEvent"}
    BY <1>1, <2>1 DEF JobsOK
  <2>3. QED
    BY <1>1, <2>1, <2>2, GotoPlaces DEF JobsOK
<1>3. ASSUME NEW t \in IocpThreads,
             TakeMove(t) \/ Update(t) \/ RespawnPos(t) \/ RespawnPush(t)
      PROVE  Quiet
  <2>1. /\ UNCHANGED <<die, hp, respawns, ppc>>
        /\ \E place \in ThreadPlaces : Jump(t, place)
        /\ ipc[t] \notin {"rsDie", "rsHp"}
    <3>1. CASE TakeMove(t) \/ UpdateTestDie(t) \/ UpdateTestActive(t)
      BY <3>1, PlacesDiffer
         DEF TakeMove, UpdateTestDie, UpdateTestActive, On, npc, timer, UpdatePlaces
    <3>2. CASE Act(t)
      BY <3>2, PlacesDiffer
         DEF Act, Attack, GiveUp, Chase, Blocked, RandomMove, NoMode, On, npc, timer,
             UpdatePlaces
    <3>3. CASE Look(t) \/ Search(t) \/ Sleep(t)
      BY <3>3, PlacesDiffer DEF Look, Search, Sleep, On, npc, timer, UpdatePlaces
    <3>4. CASE UpdateTestAgain(t) \/ UpdatePush(t) \/ RespawnPos(t) \/ RespawnPush(t)
      BY <3>4, PlacesDiffer
         DEF UpdateTestAgain, UpdatePush, RespawnPos, RespawnPush, On, npc, timer,
             UpdatePlaces, RespawnPlaces
    <3>5. QED
      BY <1>3, <3>1, <3>2, <3>3, <3>4 DEF Update
  <2>2. QED
    BY <1>1, <2>1, JumpPlaces DEF ThreadsOK
<1>4. CASE UNCHANGED vars
  BY <1>4 DEF vars, npc, timer
<1>5. QED
  BY <1>2, <1>3, <1>4 DEF Next, Continue, Damaged, MonsterRespawn

LEMMA DeadRespawnsStep ==
  ASSUME TypeOK, DeadRespawns, [Next]_vars
  PROVE  DeadRespawns'
<1>1. ThreadsOK /\ TimerOK /\ JobsOK
  BY TypeParts
<1>2. ASSUME NEW p \in Players, NEW power \in Powers, HitHp(p, power)
      PROVE  DeadRespawns'
  <2>1. \A q \in Players : ppc[q] = "killEvent" => ppc'[q] = "killEvent"
    BY <1>1, <1>2, GotoPlaces, PlacesDiffer DEF HitHp, At, JobsOK, HitPlaces
  <2>2. QED
    BY <1>2, <2>1 DEF HitHp, timer, DeadRespawns
<1>3. ASSUME NEW p \in Players, KillDie(p)
      PROVE  DeadRespawns'
  <2>1. ppc'[p] = "killEvent"
    BY <1>1, <1>3, GotoPlaces, PlacesDiffer DEF KillDie, JobsOK, HitPlaces
  <2>2. QED
    BY <2>1 DEF DeadRespawns
<1>4. ASSUME NEW p \in Players, KillEvent(p)
      PROVE  DeadRespawns'
  <2>1. \A r \in Nat : r + 1 > 0
    OBVIOUS
  <2>2. respawns' > 0
    BY <1>1, <1>4, <2>1 DEF KillEvent, TimerOK
  <2>3. QED
    BY <2>2 DEF DeadRespawns
<1>5. ASSUME NEW t \in IocpThreads, TakeRespawn(t)
      PROVE  DeadRespawns'
  <2>1. ipc'[t] = "rsDie"
    BY <1>1, <1>5, JumpPlaces, PlacesDiffer DEF TakeRespawn, ThreadsOK, RespawnPlaces
  <2>2. QED
    BY <2>1 DEF DeadRespawns
<1>6. ASSUME NEW t \in IocpThreads, RespawnDie(t)
      PROVE  DeadRespawns'
  BY <1>6 DEF RespawnDie, DeadRespawns
<1>7. ASSUME NEW t \in IocpThreads, RespawnHp(t)
      PROVE  DeadRespawns'
  <2>1. \A u \in IocpThreads : ipc[u] = "rsDie" => ipc'[u] = "rsDie"
    BY <1>1, <1>7, JumpPlaces, PlacesDiffer DEF RespawnHp, On, ThreadsOK, RespawnPlaces
  <2>2. QED
    BY <1>7, <2>1 DEF RespawnHp, timer, DeadRespawns
<1>8. CASE /\ ~ \E p \in Players :
                  \/ \E power \in Powers : HitHp(p, power)
                  \/ KillDie(p) \/ KillEvent(p)
           /\ ~ \E t \in IocpThreads : TakeRespawn(t) \/ RespawnDie(t) \/ RespawnHp(t)
  BY <1>8, QuietSteps DEF DeadRespawns
<1>9. QED
  BY <1>2, <1>3, <1>4, <1>5, <1>6, <1>7, <1>8

LEMMA NoWalkingDeadStep ==
  ASSUME TypeOK, NoWalkingDead, [Next]_vars
  PROVE  NoWalkingDead'
<1>1. NpcOK /\ ThreadsOK /\ JobsOK
  BY TypeParts
<1>2. ASSUME NEW p \in Players, NEW power \in Powers, HitHp(p, power)
      PROVE  NoWalkingDead'
  <2>1. CASE hp - power <= 0
    <3>1. ppc'[p] = "killDie"
      BY <1>1, <1>2, <2>1, GotoPlaces, PlacesDiffer DEF HitHp, JobsOK, HitPlaces
    <3>2. QED
      BY <3>1 DEF NoWalkingDead
  <2>2. CASE ~(hp - power <= 0)
    <3>1. hp' > 0
      BY <1>1, <1>2, <2>2, HealthAssumption DEF HitHp, NpcOK
    <3>2. QED
      BY <3>1 DEF NoWalkingDead
  <2>3. QED
    BY <2>1, <2>2
<1>3. ASSUME NEW p \in Players, KillDie(p)
      PROVE  NoWalkingDead'
  BY <1>3 DEF KillDie, NoWalkingDead
<1>4. ASSUME NEW p \in Players, KillEvent(p)
      PROVE  NoWalkingDead'
  <2>1. \A q \in Players : ppc[q] = "killDie" => ppc'[q] = "killDie"
    BY <1>1, <1>4, GotoPlaces, PlacesDiffer DEF KillEvent, At, JobsOK
  <2>2. QED
    BY <1>4, <2>1 DEF KillEvent, npc, NoWalkingDead
<1>5. ASSUME NEW t \in IocpThreads, TakeRespawn(t)
      PROVE  NoWalkingDead'
  <2>1. \A u \in IocpThreads : ipc[u] = "rsHp" => ipc'[u] = "rsHp"
    BY <1>1, <1>5, JumpPlaces, PlacesDiffer DEF TakeRespawn, On, ThreadsOK, RespawnPlaces
  <2>2. QED
    BY <1>5, <2>1 DEF TakeRespawn, npc, NoWalkingDead
<1>6. ASSUME NEW t \in IocpThreads, RespawnDie(t)
      PROVE  NoWalkingDead'
  <2>1. ipc'[t] = "rsHp"
    BY <1>1, <1>6, JumpPlaces, PlacesDiffer DEF RespawnDie, ThreadsOK, RespawnPlaces
  <2>2. QED
    BY <2>1 DEF NoWalkingDead
<1>7. ASSUME NEW t \in IocpThreads, RespawnHp(t)
      PROVE  NoWalkingDead'
  BY <1>7, HealthAssumption DEF RespawnHp, NoWalkingDead
<1>8. CASE /\ ~ \E p \in Players :
                  \/ \E power \in Powers : HitHp(p, power)
                  \/ KillDie(p) \/ KillEvent(p)
           /\ ~ \E t \in IocpThreads : TakeRespawn(t) \/ RespawnDie(t) \/ RespawnHp(t)
  BY <1>8, QuietSteps DEF NoWalkingDead
<1>9. QED
  BY <1>2, <1>3, <1>4, <1>5, <1>6, <1>7, <1>8

-----------------------------------------------------------------------------
(* The theorems.                                                           *)

LEMMA InitHolds ==
  ASSUME Init
  PROVE  TypeOK /\ NeverStuck /\ DeadRespawns /\ NoWalkingDead
<1>1. NpcOK
  <2>1. hp \in 0..MaxHp
    BY HealthAssumption DEF Init
  <2>2. mode \in NpcStates /\ target \in Players
    BY TypeAssumption DEF Init
  <2>3. active \in BOOLEAN /\ die \in BOOLEAN
    BY DEF Init
  <2>4. QED
    BY <2>1, <2>2, <2>3 DEF NpcOK
<1>2. RangeOK
  BY DEF Init, RangeOK, Adjacent, Far
<1>3. TimerOK /\ ThreadsOK /\ JobsOK
  BY PlacesDiffer DEF Init, TimerOK, ThreadsOK, JobsOK
<1>4. RestOK
  BY BoundAssumption DEF Init, RestOK
<1>5. TypeOK
  BY <1>1, <1>2, <1>3, <1>4, TypeParts
<1>6. NeverStuck /\ DeadRespawns /\ NoWalkingDead
  BY HealthAssumption DEF Init, NeverStuck, DeadRespawns, NoWalkingDead
<1>7. QED
  BY <1>5, <1>6

\* Every variable of the monster's life has its type, and only players in game
\* have a job in progress.
THEOREM TypeInvariant == Spec => []TypeOK
<1>1. Init => TypeOK
  BY InitHolds
<1>2. TypeOK /\ [Next]_vars => TypeOK'
  BY TypeStep
<1>3. QED
  BY <1>1, <1>2, PTL DEF Spec

\* However many players wake and kill a monster at once, and whatever IOCP threads
\* move it and bring it back meanwhile, it never stands still awake.
THEOREM StuckInvariant == Spec => []NeverStuck
<1>1. Init => NeverStuck
  BY InitHolds
<1>2. TypeOK /\ NeverStuck /\ [Next]_vars => NeverStuck'
  BY NeverStuckStep
<1>3. QED
  BY <1>1, <1>2, TypeInvariant, PTL DEF Spec

\* A dead monster has its respawn registered, or is about to, whoever killed it.
THEOREM RespawnInvariant == Spec => []DeadRespawns
<1>1. Init => DeadRespawns
  BY InitHolds
<1>2. TypeOK /\ DeadRespawns /\ [Next]_vars => DeadRespawns'
  BY DeadRespawnsStep
<1>3. QED
  BY <1>1, <1>2, TypeInvariant, PTL DEF Spec

\* A monster that is not dead has health left, save inside a kill or a respawn.
THEOREM HealthInvariant == Spec => []NoWalkingDead
<1>1. Init => NoWalkingDead
  BY InitHolds
<1>2. TypeOK /\ NoWalkingDead /\ [Next]_vars => NoWalkingDead'
  BY NoWalkingDeadStep
<1>3. QED
  BY <1>1, <1>2, TypeInvariant, PTL DEF Spec
-----------------------------------------------------------------------------
(* The search for a way.  While nothing is known of where it has looked,   *)
(* every node that was written hangs on a chain of closed nodes that leads *)
(* down to the monster's (ArraysOK), so the walk back ends, next to him.   *)
(* While it has looked at nothing past its window, a node is its cell's    *)
(* and the search is A* with a consistent heuristic (Guided): closed nodes *)
(* have their final weight, and what is left to do from a closed cell is   *)
(* at least the least weight in the queue (Potential).                     *)

\* The window.
LEMMA Sides == Side \in Nat /\ Side >= 3 /\ Start \in Window /\ View \in 1..(Side - 2)
BY ViewAssumption DEF Side, Start, Window

\* A row further is a whole row of cells further.
LEMMA Times ==
  ASSUME NEW a \in Nat, NEW b \in Nat, a < b, NEW s \in Nat
  PROVE  a * s + s <= b * s
<1>1. PICK d \in Nat : b = a + 1 + d
  <2>1. b - a - 1 \in Nat /\ b = a + 1 + (b - a - 1)
    OBVIOUS
  <2> QED BY <2>1
<1>2. b * s = a * s + s + d * s
  BY <1>1
<1>3. d * s \in Nat /\ a * s \in Nat
  OBVIOUS
<1> QED BY <1>2, <1>3

LEMMA IndexInt ==
  ASSUME NEW c \in Int \X Int
  PROVE  Index(c) \in Int
BY Sides DEF Index

\* Every cell of the window has a node of its own.
LEMMA IndexWindow ==
  ASSUME NEW c \in Window
  PROVE  Index(c) \in Memory
<1>1. c[1] \in 0..(Side - 1) /\ c[2] \in 0..(Side - 1)
  BY DEF Window
<1>2. c[2] * Side + Side <= Side * Side
  BY <1>1, Sides, Times
<1>3. c[2] * Side \in Nat /\ Side * Side \in Nat
  BY <1>1, Sides
<1> HIDE DEF Side
<1> QED BY <1>1, <1>2, <1>3, Sides DEF Index, Memory

LEMMA IndexInjective ==
  ASSUME NEW c \in Window, NEW d \in Window, Index(c) = Index(d)
  PROVE  c = d
<1>1. /\ c[1] \in 0..(Side - 1) /\ c[2] \in 0..(Side - 1) /\ c = <<c[1], c[2]>>
      /\ d[1] \in 0..(Side - 1) /\ d[2] \in 0..(Side - 1) /\ d = <<d[1], d[2]>>
  BY DEF Window
<1>2. c[2] * Side + c[1] = d[2] * Side + d[1]
  BY DEF Index
<1>3. c[2] * Side \in Int /\ d[2] * Side \in Int
  BY <1>1, Sides
<1>4. ~(c[2] < d[2])
  <2>1. SUFFICES ASSUME c[2] < d[2] PROVE FALSE
    OBVIOUS
  <2>2. c[2] * Side + Side <= d[2] * Side
    BY <1>1, <2>1, Sides, Times
  <2> QED BY <1>1, <1>2, <1>3, <2>2, Sides
<1>5. ~(d[2] < c[2])
  <2>1. SUFFICES ASSUME d[2] < c[2] PROVE FALSE
    OBVIOUS
  <2>2. d[2] * Side + Side <= c[2] * Side
    BY <1>1, <2>1, Sides, Times
  <2> QED BY <1>1, <1>2, <1>3, <2>2, Sides
<1>6. c[2] = d[2]
  BY <1>1, <1>4, <1>5
<1>7. c[1] = d[1]
  BY <1>1, <1>2, <1>3, <1>6
<1> QED BY <1>1, <1>6, <1>7

\* The arrays are finite.
LEMMA Memories ==
  /\ IsFiniteSet(Memory) /\ Cardinality(Memory) = Side * Side
  /\ Side * Side \in Nat /\ Memory \subseteq Nat
<1>1. Side * Side \in Nat /\ Side * Side >= 1
  <2>1. 0 * Side + Side <= Side * Side
    BY Sides, Times
  <2>2. Side * Side \in Nat
    BY Sides
  <2> QED BY <2>1, <2>2, Sides
<1>2. IsFiniteSet(0..(Side * Side - 1)) /\ Cardinality(0..(Side * Side - 1)) = Side * Side - 1 - 0 + 1
  BY <1>1, FS_Interval
<1> QED BY <1>1, <1>2 DEF Memory
-----------------------------------------------------------------------------
\* What holds of 0 and is carried on holds of every number.
LEMMA Induction ==
  ASSUME NEW S, 0 \in S, \A n \in Nat : n \in S => n + 1 \in S
  PROVE  Nat \subseteq S
<1>1. SUFFICES ASSUME Nat \ S # {} PROVE FALSE
  OBVIOUS
<1>2. PICK n \in Nat \ S : \A m \in Nat \ S : ~(<<m, n>> \in OpToRel(<, Nat))
  BY <1>1, NatLessThanWellFounded, WFMin
<1>3. \A m \in Nat \ S : ~(m < n)
  <2>1. \A m \in Nat \ S : <<m, n>> \in Nat \X Nat
    OBVIOUS
  <2> QED BY <1>2, <2>1 DEF OpToRel
<1>4. n # 0 /\ n - 1 \in Nat
  OBVIOUS
<1>5. n - 1 \in S
  <2>1. n - 1 < n
    OBVIOUS
  <2> QED BY <1>3, <1>4, <2>1
<1>6. (n - 1) + 1 = n
  OBVIOUS
<1> QED BY <1>4, <1>5, <1>6

\* Iterate begins with x and goes on with f.
LEMMA Iterates ==
  ASSUME NEW f, NEW x
  PROVE  /\ Iterate(f, x)[0] = x
         /\ \A n \in Nat : Iterate(f, x)[n + 1] = f[Iterate(f, x)[n]]
<1> DEFINE Upto(k, h) == h = [i \in 0..k |-> IF i = 0 THEN x ELSE f[h[i - 1]]]
           S == {k \in Nat : \E h : Upto(k, h)}
<1>1. \A k \in Nat : \E h : Upto(k, h)
  <2>1. Upto(0, [i \in 0..0 |-> x])
    OBVIOUS
  <2>2. 0 \in S
    BY <2>1
  <2>3. ASSUME NEW n \in Nat, n \in S PROVE n + 1 \in S
    <3>1. PICK h : Upto(n, h)
      BY <2>3
    <3> DEFINE g == [i \in 0..(n + 1) |-> IF i = n + 1 THEN f[h[n]] ELSE h[i]]
    <3>2. \A i \in 0..n : h[i] = IF i = 0 THEN x ELSE f[h[i - 1]]
      BY <3>1
    <3>3. \A i \in 0..(n + 1) : g[i] = IF i = 0 THEN x ELSE f[g[i - 1]]
      BY <3>2
    <3>4. g = [i \in 0..(n + 1) |-> g[i]]
      OBVIOUS
    <3> HIDE DEF g
    <3>5. g = [i \in 0..(n + 1) |-> IF i = 0 THEN x ELSE f[g[i - 1]]]
      BY <3>3, <3>4
    <3> QED BY <3>5
  <2> HIDE DEF S
  <2>4. Nat \subseteq S
    BY <2>2, <2>3, Induction
  <2> QED BY <2>4 DEF S
<1> DEFINE H(k) == CHOOSE h : Upto(k, h)
<1>2. \A k \in Nat : Upto(k, H(k))
  BY <1>1
<1>3. \A k \in Nat : \A i \in 0..k : H(k)[i] = IF i = 0 THEN x ELSE f[H(k)[i - 1]]
  <2>1. TAKE k \in Nat
  <2>2. Upto(k, H(k))
    BY <1>2
  <2> HIDE DEF H
  <2> QED BY <2>2
<1> HIDE DEF H, Upto
<1>4. \A n \in Nat : \A k \in Nat : n <= k => H(k)[n] = H(n)[n]
  <2> DEFINE T == {n \in Nat : \A k \in Nat : n <= k => H(k)[n] = H(n)[n]}
  <2>1. 0 \in T
    BY <1>3
  <2>2. ASSUME NEW n \in Nat, n \in T PROVE n + 1 \in T
    <3>1. ASSUME NEW k \in Nat, n + 1 <= k PROVE H(k)[n + 1] = H(n + 1)[n + 1]
      <4>1. H(k)[n + 1] = f[H(k)[n]] /\ H(n + 1)[n + 1] = f[H(n + 1)[n]]
        BY <1>3, <3>1
      <4>2. H(k)[n] = H(n)[n] /\ H(n + 1)[n] = H(n)[n]
        BY <2>2, <3>1
      <4> QED BY <4>1, <4>2
    <3> QED BY <3>1
  <2> HIDE DEF T
  <2>3. Nat \subseteq T
    BY <2>1, <2>2, Induction
  <2> QED BY <2>3 DEF T
<1> DEFINE w == [n \in Nat |-> H(n)[n]]
<1>5. w = [n \in Nat |-> IF n = 0 THEN x ELSE f[w[n - 1]]]
  <2>1. ASSUME NEW n \in Nat PROVE w[n] = IF n = 0 THEN x ELSE f[w[n - 1]]
    <3>1. CASE n = 0
      BY <1>3, <3>1
    <3>2. CASE n # 0
      <4>1. n - 1 \in Nat
        BY <3>2
      <4>2. H(n)[n] = f[H(n)[n - 1]]
        BY <1>3, <3>2
      <4>3. H(n)[n - 1] = H(n - 1)[n - 1]
        BY <1>4, <4>1
      <4> QED BY <3>2, <4>1, <4>2, <4>3
    <3> QED BY <3>1, <3>2
  <2>2. w = [n \in Nat |-> w[n]]
    OBVIOUS
  <2> HIDE DEF w
  <2> QED BY <2>1, <2>2
<1> HIDE DEF w
<1> DEFINE it == Iterate(f, x)
<1>6. it = [n \in Nat |-> IF n = 0 THEN x ELSE f[it[n - 1]]]
  BY <1>5 DEF Iterate
<1> HIDE DEF it
<1>7. it[0] = x /\ \A n \in Nat : it[n + 1] = f[it[n]]
  BY <1>6
<1> QED BY <1>7 DEF it

-----------------------------------------------------------------------------
\* One step changes one coordinate by one, and every distance by one at most.
LEMMA Beside ==
  ASSUME NEW c \in Int \X Int, NEW n \in Neighbours(c)
  PROVE  /\ n \in Int \X Int /\ n # c
         /\ c \in Neighbours(n)
         /\ \A i \in {1, 2} : n[i] - c[i] \in -1..1
         /\ \A d \in Int \X Int : /\ Distance(c, d) <= Distance(n, d) + 1
                                  /\ Distance(d, n) <= Distance(d, c) + 1
<1>1. c = <<c[1], c[2]>> /\ c[1] \in Int /\ c[2] \in Int
  OBVIOUS
<1>2. n \in {<<c[1], c[2] - 1>>, <<c[1], c[2] + 1>>, <<c[1] + 1, c[2]>>, <<c[1] - 1, c[2]>>}
  BY DEF Neighbours, Around
<1>3. PICK x \in Int, y \in Int : c = <<x, y>>
  BY <1>1
<1>4. n \in {<<x, y - 1>>, <<x, y + 1>>, <<x + 1, y>>, <<x - 1, y>>}
  BY <1>2, <1>3
<1>5. n \in Int \X Int /\ n # c
  BY <1>3, <1>4
<1>6. c \in Neighbours(n)
  <2>1. Neighbours(n) = {<<n[1], n[2] - 1>>, <<n[1], n[2] + 1>>, <<n[1] + 1, n[2]>>, <<n[1] - 1, n[2]>>}
    BY DEF Neighbours, Around
  <2>2. CASE n = <<x, y - 1>>
    BY <1>3, <2>1, <2>2
  <2>3. CASE n = <<x, y + 1>>
    BY <1>3, <2>1, <2>3
  <2>4. CASE n = <<x + 1, y>>
    BY <1>3, <2>1, <2>4
  <2>5. CASE n = <<x - 1, y>>
    BY <1>3, <2>1, <2>5
  <2> QED BY <1>4, <2>2, <2>3, <2>4, <2>5
<1>7. \A i \in {1, 2} : n[i] - c[i] \in -1..1
  BY <1>3, <1>4
<1>8. ASSUME NEW d \in Int \X Int
      PROVE  /\ Distance(c, d) <= Distance(n, d) + 1
             /\ Distance(d, n) <= Distance(d, c) + 1
  <2>1. PICK u \in Int, v \in Int : d = <<u, v>>
    OBVIOUS
  <2> QED BY <1>3, <1>4, <2>1 DEF Distance
<1> QED BY <1>5, <1>6, <1>7, <1>8

LEMMA DistanceNat ==
  ASSUME NEW c \in Int \X Int, NEW d \in Int \X Int
  PROVE  Distance(c, d) \in Nat /\ Distance(c, c) = 0 /\ (Distance(c, d) = 0 => c = d)
<1>1. PICK u \in Int, v \in Int : c = <<u, v>>
  OBVIOUS
<1>2. PICK x \in Int, y \in Int : d = <<x, y>>
  OBVIOUS
<1> QED BY <1>1, <1>2 DEF Distance

LEMMA AroundBeside ==
  ASSUME NEW c, NEW i \in 1..4
  PROVE  Around(c)[i] \in Neighbours(c)
<1>1. i = 1 \/ i = 2 \/ i = 3 \/ i = 4
  OBVIOUS
<1> QED BY <1>1 DEF Neighbours, Around
-----------------------------------------------------------------------------
\* The mazes, and where monster and player are in them.
Placed ==
  /\ walkable \in Mazes /\ Start \in walkable
  /\ dest \in walkable \ {Start}

\* What Allowed is made of, and who is in it.
LEMMA AllowedCells ==
  ASSUME Placed
  PROVE  /\ Allowed \subseteq walkable /\ Allowed \subseteq Nat \X Nat
         /\ Allowed \subseteq Arena /\ walkable \subseteq Arena /\ Arena \subseteq Int \X Int
         /\ Start \in Allowed
         /\ IsFiniteSet(Allowed)
         /\ dest \in Arena /\ dest \in Int \X Int /\ dest # Start
<1>1. walkable \subseteq Arena /\ Arena \subseteq Int \X Int /\ IsFiniteSet(Arena)
  BY MazeAssumption DEF Placed
<1>2. Allowed \subseteq walkable
  BY DEF Allowed
<1>3. Allowed \subseteq Nat \X Nat
  <2>1. ASSUME NEW c \in Allowed PROVE c \in Nat \X Nat
    <3>1. c \in Int \X Int /\ c[1] >= 0 /\ c[2] >= 0
      BY <1>1 DEF Allowed
    <3> QED BY <3>1
  <2> QED BY <2>1
<1>4. Start \in Allowed
  BY Sides DEF Placed, Allowed, Window, Start
<1>5. IsFiniteSet(Allowed)
  BY <1>1, <1>2, FS_Subset
<1> QED BY <1>1, <1>2, <1>3, <1>4, <1>5 DEF Placed
-----------------------------------------------------------------------------
(* What holds of the arrays and the queue, wherever the search has looked. *)

\* nodes is node, shut is closedList.
NodesOK(nodes, shut) ==
  /\ nodes \in [Memory -> [f : Nat, g : Nat, parent : Allowed] \cup {Unset}]
  /\ nodes[Index(Start)] = [f |-> 0, g |-> 0, parent |-> Start]
  /\ shut \subseteq Written(nodes)
  /\ \A m \in shut : \E c \in Allowed : Index(c) = m

\* A cell that is queued or expanded: no cell shares a node with the monster's, and
\* a node that was reached from the monster is of a cell next to him, whatever cell
\* it was written for.
Held(nodes, c) ==
  /\ c \in Allowed /\ Index(c) \in Written(nodes)
  /\ Index(c) = Index(Start) => c = Start
  /\ nodes[Index(c)].parent = Start => c \in Neighbours(Start) \cup {Start}

\* Parents are closed, and a step nearer to the monster.
Tree(nodes, shut) ==
  \A m \in Written(nodes) \ {Index(Start)} :
    LET p == nodes[m].parent
    IN  /\ Held(nodes, p) /\ Index(p) \in shut
        /\ nodes[m].g = nodes[Index(p)].g + 1

\* There is a closed node for every step.
Bounded(nodes, shut) ==
  \A m \in Written(nodes) : /\ nodes[m].g <= Cardinality(shut)
                            /\ m \in shut => nodes[m].g < Cardinality(shut)

\* openList.
QueueOK(nodes, queue) ==
  \A e \in queue : e \in [f : Nat, at : Allowed] /\ Held(nodes, e.at)

ArraysOK(nodes, shut, queue) ==
  /\ NodesOK(nodes, shut)
  /\ Tree(nodes, shut)
  /\ Bounded(nodes, shut)
  /\ QueueOK(nodes, queue)

\* Only the monster's cell is expanded when nothing is closed.
Begun ==
  \/ closed = {} /\ Written(node) = {Index(Start)} /\ open = {[f |-> 0, at |-> Start]}
  \/ Index(Start) \in closed /\ \A e \in open : e.at # Start

\* The search s while it looks at the cells next to c.
Looking(s, c) ==
  LET shut == closed \cup {Index(c)}
  IN  /\ s = [node |-> s.node, open |-> s.open, spilled |-> s.spilled, end |-> s.end]
      /\ s.spilled \in BOOLEAN /\ s.end \in {"no", "wild", "dest"}
      /\ ArraysOK(s.node, shut, s.open)
      /\ Held(s.node, c)
      /\ Index(Start) \in shut
      /\ \A e \in s.open : e.at # Start /\ (c = Start => e.at \in Neighbours(Start))
      /\ \A m \in shut : s.node[m] = node[m]
      /\ s.end = "dest" =>
           /\ dest \in Neighbours(c) /\ dest \in Allowed
           /\ Index(dest) \in Memory \ shut
           /\ s.node[Index(dest)].parent = c
           /\ s.node[Index(dest)] # Unset

\* Writing a node that is not closed keeps all this, whatever cell it was for.
LEMMA WriteOK ==
  ASSUME Placed, NEW s, NEW c, Looking(s, c), s.end = "no",
         NEW n \in Neighbours(c), n \in Allowed,
         Index(n) \in Memory, Index(n) \notin closed \cup {Index(c)},
         NEW f \in Nat, NEW nodes,
         nodes = Reach(s, c, n, f)
  PROVE  /\ ArraysOK(nodes, closed \cup {Index(c)}, s.open)
         /\ Held(nodes, c) /\ Held(nodes, n)
         /\ \A m \in closed \cup {Index(c)} : nodes[m] = node[m]
         /\ nodes[Index(n)] = [f |-> f, g |-> s.node[Index(c)].g + 1, parent |-> c]
         /\ nodes[Index(n)] # Unset
<1> DEFINE shut == closed \cup {Index(c)}
           old == s.node
           rec == [f |-> f, g |-> old[Index(c)].g + 1, parent |-> c]
<1>1. /\ NodesOK(old, shut) /\ Tree(old, shut) /\ Bounded(old, shut) /\ QueueOK(old, s.open)
      /\ Held(old, c) /\ Index(Start) \in shut /\ Index(c) \in shut
      /\ \A m \in shut : old[m] = node[m]
      /\ \A e \in s.open : e.at # Start /\ (c = Start => e.at \in Neighbours(Start))
  BY DEF Looking, ArraysOK
<1>2. old[Index(c)].g \in Nat /\ c \in Allowed /\ Index(c) \in Memory
  BY <1>1 DEF NodesOK, Held, Written, Unset
<1>3. rec \in [f : Nat, g : Nat, parent : Allowed] /\ rec # Unset
  BY <1>2 DEF Unset
<1>a. nodes = [old EXCEPT ![Index(n)] = rec]
  BY DEF Reach
<1>4. nodes[Index(n)] = rec /\ \A m \in Memory : m # Index(n) => nodes[m] = old[m]
  BY <1>1, <1>a DEF NodesOK
<1>5. nodes \in [Memory -> [f : Nat, g : Nat, parent : Allowed] \cup {Unset}]
  BY <1>1, <1>3, <1>a DEF NodesOK
<1>6. Written(nodes) = Written(old) \cup {Index(n)}
  BY <1>3, <1>4 DEF Written
<1>7. Index(n) \notin shut /\ shut \subseteq Memory /\ \A m \in shut : nodes[m] = old[m]
  BY <1>1, <1>4 DEF NodesOK, Written
<1> HIDE DEF shut, old, rec
<1>8. NodesOK(nodes, shut)
  BY <1>1, <1>5, <1>6, <1>7 DEF NodesOK
<1>9. Held(nodes, c)
  BY <1>1, <1>6, <1>7 DEF Held
<1>10. Held(nodes, n)
  <2>1. Index(n) # Index(Start)
    BY <1>1, <1>7
  <2>2. nodes[Index(n)].parent = c
    BY <1>4 DEF rec
  <2> QED BY <1>6, <2>1, <2>2 DEF Held
<1>11. ASSUME NEW p, Held(old, p), Index(p) \in shut PROVE Held(nodes, p)
  BY <1>6, <1>7, <1>11 DEF Held
<1>12. Tree(nodes, shut)
  <2>1. ASSUME NEW m \in Written(nodes) \ {Index(Start)}
        PROVE  /\ Held(nodes, nodes[m].parent) /\ Index(nodes[m].parent) \in shut
               /\ nodes[m].g = nodes[Index(nodes[m].parent)].g + 1
    <3>1. CASE m = Index(n)
      <4>1. nodes[m].parent = c /\ nodes[m].g = old[Index(c)].g + 1
        BY <1>4, <3>1 DEF rec
      <4> QED BY <1>1, <1>7, <1>9, <4>1
    <3>2. CASE m # Index(n)
      <4>1. m \in Written(old) \ {Index(Start)} /\ nodes[m] = old[m]
        BY <1>4, <1>6, <3>2 DEF Written
      <4>2. /\ Held(old, old[m].parent) /\ Index(old[m].parent) \in shut
            /\ old[m].g = old[Index(old[m].parent)].g + 1
        BY <1>1, <4>1 DEF Tree
      <4> QED BY <1>7, <1>11, <4>1, <4>2
    <3> QED BY <3>1, <3>2
  <2> QED BY <2>1 DEF Tree
<1>13. Bounded(nodes, shut)
  <2>1. IsFiniteSet(shut)
    BY <1>7, Memories, FS_Subset
  <2>2. Cardinality(shut) \in Nat
    BY <2>1, FS_CardinalityType
  <2>3. old[Index(c)].g < Cardinality(shut)
    BY <1>1 DEF Bounded, Held
  <2>4. ASSUME NEW m \in Written(nodes)
        PROVE  /\ nodes[m].g <= Cardinality(shut)
               /\ m \in shut => nodes[m].g < Cardinality(shut)
    <3>1. CASE m = Index(n)
      <4>1. nodes[m].g = old[Index(c)].g + 1
        BY <1>4, <3>1 DEF rec
      <4>2. old[Index(c)].g \in Nat
        BY <1>2 DEF old
      <4> QED BY <1>7, <2>2, <2>3, <3>1, <4>1, <4>2
    <3>2. CASE m # Index(n)
      <4>1. m \in Written(old) /\ nodes[m] = old[m]
        BY <1>4, <1>6, <3>2 DEF Written
      <4> QED BY <1>1, <4>1 DEF Bounded
    <3> QED BY <3>1, <3>2
  <2> QED BY <2>4 DEF Bounded
<1>14. QueueOK(nodes, s.open)
  <2>1. ASSUME NEW e \in s.open
        PROVE  e \in [f : Nat, at : Allowed] /\ Held(nodes, e.at)
    <3>1. e \in [f : Nat, at : Allowed] /\ Held(old, e.at)
      BY <1>1 DEF QueueOK
    <3>2. CASE Index(e.at) = Index(n)
      <4>1. Index(e.at) # Index(Start)
        BY <1>1, <1>7, <3>2
      <4>2. nodes[Index(e.at)].parent = c
        BY <1>4, <3>2 DEF rec
      <4> QED BY <1>1, <1>6, <3>1, <4>1, <4>2 DEF Held
    <3>3. CASE Index(e.at) # Index(n)
      <4>1. nodes[Index(e.at)] = old[Index(e.at)]
        BY <1>4, <3>1, <3>3 DEF Held, Written
      <4> QED BY <1>6, <3>1, <4>1 DEF Held
    <3> QED BY <3>2, <3>3
  <2> QED BY <2>1 DEF QueueOK
<1> QED
  BY <1>1, <1>3, <1>4, <1>7, <1>8, <1>9, <1>10, <1>12, <1>13, <1>14 DEF ArraysOK, shut, rec, old

-----------------------------------------------------------------------------
\* What looking at one cell does to the search.
VisitWrites(s, c, n, t, f) ==
  /\ n \in Allowed /\ Index(n) \in Memory /\ Index(n) \notin closed \cup {Index(c)}
  /\ t.node = Reach(s, c, n, f)
  /\ \/ /\ n = dest /\ t.end = "dest" /\ t.open = s.open
        /\ f = s.node[Index(c)].g + 1
     \/ /\ n # dest /\ t.end = "no"
        /\ t.open = s.open \cup {[f |-> f, at |-> n]}
        /\ f = s.node[Index(c)].g + 1 + CalH(n)
        /\ Index(n) \in Written(s.node) => ~(s.node[Index(n)].f <= f)

VisitKeeps(s, c, n, t) ==
  /\ t.node = s.node /\ t.open = s.open
  /\ \/ t.end = "no"
        /\ \/ n \notin Allowed
           \/ Index(n) \in closed \cup {Index(c)}
           \/ Index(n) \notin Memory
           \/ /\ Index(n) \in Written(s.node) /\ n # dest
              /\ s.node[Index(n)].f <= s.node[Index(c)].g + 1 + CalH(n)
     \/ t.end = "wild" /\ n \in Allowed /\ Index(n) \notin Memory

\* Visit does one or the other, and notes a cell past the window.
LEMMA VisitDoes ==
  ASSUME Placed, NEW s, NEW c, Looking(s, c), NEW n \in Neighbours(c), NEW luck \in BOOLEAN,
         NEW t, t = Visit(s, c, n, luck)
  PROVE  /\ s.end # "no" => t = s
         /\ s.end = "no" =>
              /\ t = [node |-> t.node, open |-> t.open, spilled |-> t.spilled, end |-> t.end]
              /\ (\E f \in Nat : VisitWrites(s, c, n, t, f)) \/ VisitKeeps(s, c, n, t)
              /\ t.spilled \in BOOLEAN
              /\ t.spilled = (s.spilled \/ (n[1] >= 0 /\ n[2] >= 0 /\ n \in walkable \ Window))
<1> DEFINE g == s.node[Index(c)].g + 1
           f == g + CalH(n)
           past == Past(s, n)
<1>1. /\ s = [node |-> s.node, open |-> s.open, spilled |-> s.spilled, end |-> s.end]
      /\ NodesOK(s.node, closed \cup {Index(c)}) /\ Held(s.node, c) /\ s.spilled \in BOOLEAN
  BY DEF Looking, ArraysOK
<1>2. g \in Nat /\ c \in Int \X Int
  BY <1>1, AllowedCells DEF NodesOK, Held, Written, Unset
<1>3. n \in Int \X Int
  BY <1>2, Beside
<1>4. n \in Allowed <=> n \in walkable /\ n[1] >= 0 /\ n[2] >= 0
  BY DEF Allowed
<1>5. /\ past.node = s.node /\ past.open = s.open /\ past.end = s.end
      /\ past.spilled = (s.spilled \/ n \in walkable \ Window)
      /\ past = [node |-> past.node, open |-> past.open, spilled |-> past.spilled, end |-> past.end]
  BY <1>1 DEF Past
<1>6. t = IF s.end # "no" \/ n[1] < 0 \/ n[2] < 0 THEN s
      ELSE IF Index(n) \in closed \cup {Index(c)} \/ n \notin walkable THEN past
      ELSE IF Index(n) \notin Memory THEN IF luck THEN past ELSE [past EXCEPT !.end = "wild"]
      ELSE IF n = dest THEN [past EXCEPT !.node = Reach(s, c, n, g), !.end = "dest"]
      ELSE IF Index(n) \in Written(s.node) /\ s.node[Index(n)].f <= f THEN past
      ELSE [past EXCEPT !.node = Reach(s, c, n, f),
                        !.open = @ \cup {[f |-> f, at |-> n]}]
  BY DEF Visit
<1> HIDE DEF past
<1>7. CASE s.end # "no"
  BY <1>6, <1>7
<1>8. CASE s.end = "no" /\ (n[1] < 0 \/ n[2] < 0)
  <2>1. t = s /\ ~(n[1] >= 0 /\ n[2] >= 0)
    BY <1>3, <1>6, <1>8
  <2> QED BY <1>1, <1>4, <1>8, <2>1 DEF VisitKeeps
<1> DEFINE In == s.end = "no" /\ ~(n[1] < 0 \/ n[2] < 0)
<1>a. In => n[1] >= 0 /\ n[2] >= 0
  BY <1>3
<1> SUFFICES ASSUME In
             PROVE  /\ t = [node |-> t.node, open |-> t.open, spilled |-> t.spilled, end |-> t.end]
                    /\ (\E k \in Nat : VisitWrites(s, c, n, t, k)) \/ VisitKeeps(s, c, n, t)
                    /\ t.spilled = (s.spilled \/ n \in walkable \ Window)
  BY <1>1, <1>7, <1>8, <1>a
<1>9. CASE Index(n) \in closed \cup {Index(c)} \/ n \notin walkable
  BY <1>4, <1>5, <1>6, <1>9 DEF VisitKeeps
<1>10. CASE ~(Index(n) \in closed \cup {Index(c)} \/ n \notin walkable) /\ Index(n) \notin Memory
  <2>1. n \in Allowed
    BY <1>4, <1>10, <1>a
  <2>2. CASE luck
    <3>1. t = past
      BY <1>6, <1>10, <2>2
    <3> QED BY <1>5, <1>10, <3>1 DEF VisitKeeps
  <2>3. CASE ~luck
    <3>1. t = [past EXCEPT !.end = "wild"]
      BY <1>6, <1>10, <2>3
    <3>2. /\ t.node = past.node /\ t.open = past.open /\ t.spilled = past.spilled /\ t.end = "wild"
          /\ t = [node |-> t.node, open |-> t.open, spilled |-> t.spilled, end |-> t.end]
      BY <1>5, <3>1
    <3> QED BY <1>5, <1>10, <2>1, <3>2 DEF VisitKeeps
  <2> QED BY <2>2, <2>3
<1> DEFINE Inside == /\ Index(n) \notin closed \cup {Index(c)} /\ n \in walkable
                     /\ Index(n) \in Memory
<1>11. CASE Inside /\ n = dest
  <2>1. t = [past EXCEPT !.node = Reach(s, c, n, g), !.end = "dest"]
    BY <1>6, <1>11
  <2>2. /\ t.node = Reach(s, c, n, g) /\ t.open = past.open /\ t.spilled = past.spilled /\ t.end = "dest"
        /\ t = [node |-> t.node, open |-> t.open, spilled |-> t.spilled, end |-> t.end]
    BY <1>5, <2>1
  <2>3. n \in Allowed
    BY <1>4, <1>11, <1>a
  <2>4. VisitWrites(s, c, n, t, g)
    BY <1>5, <1>11, <2>2, <2>3 DEF VisitWrites
  <2> QED BY <1>2, <1>5, <2>2, <2>4
<1>12. CASE Inside /\ n # dest /\ Index(n) \in Written(s.node) /\ s.node[Index(n)].f <= f
  <2>1. t = past
    BY <1>6, <1>12
  <2> QED BY <1>5, <1>12, <2>1 DEF VisitKeeps
<1>13. CASE Inside /\ n # dest /\ ~(Index(n) \in Written(s.node) /\ s.node[Index(n)].f <= f)
  <2>1. t = [past EXCEPT !.node = Reach(s, c, n, f), !.open = @ \cup {[f |-> f, at |-> n]}]
    BY <1>6, <1>13
  <2>2. /\ t.node = Reach(s, c, n, f) /\ t.open = s.open \cup {[f |-> f, at |-> n]}
        /\ t.spilled = past.spilled /\ t.end = "no"
        /\ t = [node |-> t.node, open |-> t.open, spilled |-> t.spilled, end |-> t.end]
    BY <1>5, <2>1
  <2>3. n \in Allowed
    BY <1>4, <1>13, <1>a
  <2>4. VisitWrites(s, c, n, t, f)
    BY <1>13, <2>2, <2>3 DEF VisitWrites
  <2>5. f \in Nat
    BY <1>2, <1>3, AllowedCells, DistanceNat DEF CalH
  <2> QED BY <1>5, <2>2, <2>4, <2>5
<1> QED BY <1>9, <1>10, <1>11, <1>12, <1>13

\* Looking at one cell keeps the arrays sound.
LEMMA VisitLooking ==
  ASSUME Placed, NEW s, NEW c, Looking(s, c), NEW n \in Neighbours(c), NEW luck \in BOOLEAN
  PROVE  Looking(Visit(s, c, n, luck), c)
<1>1. PICK t : t = Visit(s, c, n, luck)
  OBVIOUS
<1> DEFINE shut == closed \cup {Index(c)}
<1>2. CASE s.end # "no"
  BY <1>1, <1>2, VisitDoes
<1>3. CASE s.end = "no" /\ VisitKeeps(s, c, n, t)
  <2>1. /\ t = [node |-> t.node, open |-> t.open, spilled |-> t.spilled, end |-> t.end]
        /\ t.spilled \in BOOLEAN /\ t.node = s.node /\ t.open = s.open /\ t.end \in {"no", "wild"}
    BY <1>1, <1>3, VisitDoes DEF VisitKeeps
  <2> QED BY <1>1, <2>1 DEF Looking
<1>4. CASE s.end = "no" /\ \E f \in Nat : VisitWrites(s, c, n, t, f)
  <2>1. /\ t = [node |-> t.node, open |-> t.open, spilled |-> t.spilled, end |-> t.end]
        /\ t.spilled \in BOOLEAN
    BY <1>1, <1>4, VisitDoes
  <2>a. PICK f \in Nat : VisitWrites(s, c, n, t, f)
    BY <1>4
  <2>2. n \in Allowed /\ Index(n) \in Memory /\ Index(n) \notin shut
    BY <2>a DEF VisitWrites
  <2>3. t.node = Reach(s, c, n, f)
    BY <2>a DEF VisitWrites
  <2>5. /\ ArraysOK(t.node, shut, s.open)
        /\ Held(t.node, c) /\ Held(t.node, n)
        /\ \A m \in shut : t.node[m] = node[m]
        /\ t.node[Index(n)].parent = c
        /\ t.node[Index(n)] # Unset
    <3>1. PICK nodes : nodes = t.node
      OBVIOUS
    <3>2. nodes = Reach(s, c, n, f) /\ s.end = "no"
      BY <1>4, <2>3, <3>1
    <3>3. /\ ArraysOK(nodes, shut, s.open)
          /\ Held(nodes, c) /\ Held(nodes, n)
          /\ \A m \in shut : nodes[m] = node[m]
          /\ nodes[Index(n)] = [f |-> f, g |-> s.node[Index(c)].g + 1, parent |-> c]
          /\ nodes[Index(n)] # Unset
      <4>1. f \in Nat
        BY <2>a
      <4>2. /\ Index(n) \in Memory /\ Index(n) \notin closed \cup {Index(c)}
            /\ n \in Allowed /\ s.end = "no" /\ nodes = Reach(s, c, n, f)
        BY <2>2, <3>2
      <4> HIDE DEF shut
      <4>3. /\ ArraysOK(nodes, closed \cup {Index(c)}, s.open)
            /\ Held(nodes, c) /\ Held(nodes, n)
            /\ \A m \in closed \cup {Index(c)} : nodes[m] = node[m]
            /\ nodes[Index(n)] = [f |-> f, g |-> s.node[Index(c)].g + 1, parent |-> c]
            /\ nodes[Index(n)] # Unset
        BY <4>1, <4>2, WriteOK
      <4> QED BY <4>3 DEF shut
    <3> QED BY <3>1, <3>3
  <2>6. Index(Start) \in shut /\ \A e \in s.open : e.at # Start /\ (c = Start => e.at \in Neighbours(Start))
    BY DEF Looking
  <2>7. CASE t.end = "dest"
    <3>1. n = dest /\ t.open = s.open
      BY <2>7, <2>a DEF VisitWrites
    <3> QED BY <1>1, <2>1, <2>2, <2>5, <2>6, <2>7, <3>1 DEF Looking
  <2>8. CASE t.end = "no"
    <3>1. t.open = s.open \cup {[f |-> f, at |-> n]}
      BY <2>8, <2>a DEF VisitWrites
    <3>2. QueueOK(t.node, t.open)
      BY <2>2, <2>5, <3>1 DEF QueueOK, ArraysOK
    <3>3. n # Start
      BY <2>2, <2>6
    <3>4. \A e \in t.open : e.at # Start /\ (c = Start => e.at \in Neighbours(Start))
      BY <2>6, <3>1, <3>3
    <3>5. ArraysOK(t.node, shut, t.open)
      BY <2>5, <3>2 DEF ArraysOK
    <3> QED BY <1>1, <2>1, <2>5, <2>6, <2>8, <3>4, <3>5 DEF Looking
  <2> QED BY <2>7, <2>8, <2>a DEF VisitWrites
<1> QED BY <1>1, <1>2, <1>3, <1>4, VisitDoes

-----------------------------------------------------------------------------
\* The walk back from the destination goes down one step at a time to the monster.
Steps(s, c) == s.node[Index(c)].g + 1

Walked(s, c, trail, g) ==
  /\ g \in Nat /\ g >= 1 /\ g <= Cardinality(closed \cup {Index(c)}) /\ g \in Memory
  /\ trail[0] = dest /\ trail[g] = Start /\ trail[g + 1] = Start
  /\ \A n \in 1..g : /\ Held(s.node, trail[n]) /\ Index(trail[n]) \in closed \cup {Index(c)}
                     /\ s.node[Index(trail[n])].g = g - n
  /\ \A n \in 0..g : /\ Index(trail[n]) \in Written(s.node)
                     /\ trail[n + 1] = s.node[Index(trail[n])].parent
  /\ \A n \in 0..(g - 1) : trail[n + 1] # trail[n]

\* From every cell the parent leads to a closed cell one step nearer to the monster.
LEMMA WalkBack ==
  ASSUME Placed, NEW s, NEW c, Looking(s, c), s.end = "dest"
  PROVE  Walked(s, c, Trail(s.node), Steps(s, c))
<1> SUFFICES ASSUME NEW trail, trail = Trail(s.node), NEW g, g = Steps(s, c)
             PROVE  Walked(s, c, trail, g)
  OBVIOUS
<1> DEFINE shut == closed \cup {Index(c)}
           nodes == s.node
<1>1. /\ NodesOK(nodes, shut) /\ Tree(nodes, shut) /\ Bounded(nodes, shut)
      /\ Held(nodes, c) /\ Index(Start) \in shut /\ Index(c) \in shut
      /\ dest \in Allowed /\ Index(dest) \in Memory /\ Index(dest) \notin shut
      /\ Index(dest) \in Written(nodes) /\ nodes[Index(dest)].parent = c
  BY DEF Looking, ArraysOK, Written
<1>2. shut \subseteq Memory
  BY <1>1 DEF NodesOK, Written
<1> HIDE DEF shut, nodes
<1>3. /\ IsFiniteSet(shut) /\ Cardinality(shut) \in Nat
      /\ Cardinality(shut) + 1 <= Side * Side
  <2>1. IsFiniteSet(shut) /\ Cardinality(shut) \in Nat
    BY <1>2, Memories, FS_Subset, FS_CardinalityType
  <2>2. Cardinality(shut \cup {Index(dest)}) = Cardinality(shut) + 1
    BY <1>1, <2>1, FS_AddElement
  <2>3. shut \cup {Index(dest)} \subseteq Memory
    BY <1>1, <1>2
  <2>4. Cardinality(shut \cup {Index(dest)}) <= Side * Side
    BY <2>3, Memories, FS_Subset
  <2> QED BY <2>1, <2>2, <2>4
<1>4. \A m \in Written(nodes) : nodes[m].g \in Nat
  BY <1>1 DEF NodesOK, Written
<1>5. g = nodes[Index(c)].g + 1
  BY DEF nodes, Steps
<1>6. g \in Nat /\ g >= 1 /\ g <= Cardinality(shut)
  <2>1. nodes[Index(c)].g \in Nat /\ nodes[Index(c)].g < Cardinality(shut)
    BY <1>1, <1>4 DEF Held, Bounded
  <2> QED BY <1>3, <1>5, <2>1
<1>7. g \in Memory
  BY <1>3, <1>6, Memories DEF Memory
<1>8. trail[0] = dest /\ \A n \in Nat : trail[n + 1] = Parent(nodes)[trail[n]]
  BY Iterates DEF Trail, nodes
<1>9. \A p : p \in Allowed /\ Index(p) \in Written(nodes) => Parent(nodes)[p] = nodes[Index(p)].parent
  BY AllowedCells DEF Parent, Written
<1>10. trail[1] = c
  <2>1. trail[0 + 1] = Parent(nodes)[trail[0]]
    BY <1>8
  <2> QED BY <1>1, <1>8, <1>9, <2>1
<1> DEFINE Good(n) == /\ Held(nodes, trail[n]) /\ Index(trail[n]) \in shut
                      /\ nodes[Index(trail[n])].g = g - n
<1>11. ASSUME NEW n \in 1..g, n # g, Good(n) PROVE Good(n + 1)
  <2>1. Index(trail[n]) \in Written(nodes) /\ trail[n] \in Allowed
    BY <1>11 DEF Held
  <2>2. trail[n + 1] = nodes[Index(trail[n])].parent
    BY <1>8, <1>9, <2>1
  <2>3. Index(trail[n]) # Index(Start)
    <3>1. nodes[Index(Start)].g = 0
      BY <1>1 DEF NodesOK
    <3>2. g - n # 0
      BY <1>6, <1>11
    <3> QED BY <1>11, <3>1, <3>2
  <2>4. /\ Held(nodes, trail[n + 1]) /\ Index(trail[n + 1]) \in shut
        /\ nodes[Index(trail[n])].g = nodes[Index(trail[n + 1])].g + 1
    BY <1>1, <2>1, <2>2, <2>3 DEF Tree
  <2>5. nodes[Index(trail[n + 1])].g \in Nat
    BY <1>4, <2>4 DEF Held
  <2> QED BY <1>6, <1>11, <2>4, <2>5
<1>12. Good(1)
  <2>1. nodes[Index(c)].g \in Nat
    BY <1>1, <1>4 DEF Held
  <2> QED BY <1>1, <1>5, <1>10, <2>1
<1>13. \A n \in 1..g : Good(n)
  <2> DEFINE S == {n \in Nat : n + 1 <= g => Good(n + 1)}
  <2>1. 0 \in S
    BY <1>12
  <2>2. ASSUME NEW n \in Nat, n \in S PROVE n + 1 \in S
    <3>1. CASE n + 2 <= g
      <4>1. n + 1 \in 1..g /\ n + 1 # g /\ Good(n + 1)
        BY <1>6, <2>2, <3>1
      <4>2. Good((n + 1) + 1)
        BY <1>11, <4>1
      <4> QED BY <4>2
    <3>2. CASE ~(n + 2 <= g)
      BY <1>6, <3>2
    <3> QED BY <3>1, <3>2
  <2> HIDE DEF S, Good
  <2>3. Nat \subseteq S
    BY <2>1, <2>2, Induction
  <2>4. ASSUME NEW n \in 1..g PROVE Good(n)
    <3>1. n - 1 \in S /\ (n - 1) + 1 = n /\ n <= g
      BY <1>6, <2>3
    <3> QED BY <3>1 DEF S
  <2> QED BY <2>4
<1>14. \A n \in 0..g : /\ Index(trail[n]) \in Written(nodes)
                       /\ trail[n + 1] = nodes[Index(trail[n])].parent
  <2>1. ASSUME NEW n \in 0..g
        PROVE  /\ Index(trail[n]) \in Written(nodes) /\ trail[n] \in Allowed
    <3>1. CASE n = 0
      BY <1>1, <1>8, <3>1
    <3>2. CASE n # 0
      <4>1. n \in 1..g
        BY <1>6, <3>2
      <4> QED BY <1>13, <4>1 DEF Held
    <3> QED BY <3>1, <3>2
  <2> QED BY <1>8, <1>9, <2>1
<1>15. trail[g] = Start
  <2>1. Good(g)
    BY <1>6, <1>13
  <2>2. nodes[Index(trail[g])].g = 0
    BY <1>6, <2>1
  <2>3. CASE Index(trail[g]) # Index(Start)
    <3>1. /\ Held(nodes, nodes[Index(trail[g])].parent)
          /\ nodes[Index(trail[g])].g = nodes[Index(nodes[Index(trail[g])].parent)].g + 1
      BY <1>1, <2>1, <2>3 DEF Tree, Held
    <3>2. PICK x \in Nat : x = nodes[Index(nodes[Index(trail[g])].parent)].g
      BY <1>4, <3>1 DEF Held
    <3>3. x + 1 = 0
      BY <2>2, <3>1, <3>2
    <3> QED BY <3>3
  <2> QED BY <2>1, <2>3 DEF Held
<1>16. trail[g + 1] = Start
  BY <1>1, <1>6, <1>14, <1>15 DEF NodesOK
<1>17. \A n \in 0..(g - 1) : trail[n + 1] # trail[n]
  <2>1. ASSUME NEW n \in 0..(g - 1) PROVE trail[n + 1] # trail[n]
    <3>1. n + 1 \in 1..g
      BY <1>6
    <3>2. Good(n + 1)
      BY <1>13, <3>1
    <3>3. CASE n = 0
      BY <1>1, <1>8, <3>2, <3>3
    <3>4. CASE n # 0
      <4>1. n \in 1..g
        BY <1>6, <3>4
      <4>2. Good(n)
        BY <1>13, <4>1
      <4> QED BY <1>6, <3>2, <4>1, <4>2
    <3> QED BY <3>3, <3>4
  <2> QED BY <2>1
<1> QED BY <1>6, <1>7, <1>8, <1>13, <1>14, <1>15, <1>16, <1>17 DEF Walked, shut, nodes

\* FindNextStep finds the last cell before the monster's.
LEMMA StepFound ==
  ASSUME Placed, NEW s, NEW c, Looking(s, c), s.end = "dest", FindNextStep(s.node)
  PROVE  outcome' = "found" /\ step' = Trail(s.node)[Steps(s, c) - 1]
<1>a. PICK g : g = Steps(s, c)
  OBVIOUS
<1>1. PICK trail : trail = Trail(s.node)
  OBVIOUS
<1>2. /\ g \in Nat /\ g \in Memory /\ trail[g + 1] = trail[g]
      /\ \A n \in 0..(g - 1) : trail[n + 1] # trail[n]
  BY <1>1, <1>a, WalkBack DEF Walked
<1> DEFINE Ends(n) == trail[n + 1] = trail[n]
           P(n) == Ends(n) /\ \A k \in 0..(n - 1) : ~Ends(k)
           length == CHOOSE n \in Memory : P(n)
<1>3. P(g)
  BY <1>2
<1>4. length \in Memory /\ P(length)
  BY <1>2, <1>3
<1>5. ASSUME NEW n \in Memory, P(n) PROVE n = g
  <2>1. n \in Nat
    BY Memories
  <2>2. ~(n < g)
    BY <1>2, <1>5, <2>1
  <2>3. ~(g < n)
    BY <1>2, <1>5, <2>1
  <2> QED BY <1>2, <2>1, <2>2, <2>3
<1>6. length = g
  BY <1>4, <1>5
<1>7. outcome' = "found" /\ step' = trail[length - 1]
  BY <1>1, <1>2 DEF FindNextStep
<1> QED BY <1>1, <1>a, <1>6, <1>7

\* It is a cell next to the monster.
LEMMA StepBeside ==
  ASSUME Placed, NEW s, NEW c, Looking(s, c), s.end = "dest", FindNextStep(s.node)
  PROVE  outcome' = "found" /\ step' \in Neighbours(Start) \cap walkable
<1>1. PICK g : g = Steps(s, c)
  OBVIOUS
<1>2. PICK trail : trail = Trail(s.node)
  OBVIOUS
<1>3. outcome' = "found" /\ step' = trail[g - 1]
  BY <1>1, <1>2, StepFound
<1>4. /\ g \in Nat /\ g >= 1 /\ trail[0] = dest /\ trail[g] = Start
      /\ \A n \in 1..g : Held(s.node, trail[n]) /\ s.node[Index(trail[n])].g = g - n
      /\ \A n \in 0..g : trail[n + 1] = s.node[Index(trail[n])].parent
  <2>1. Walked(s, c, trail, g)
    BY <1>1, <1>2, WalkBack
  <2> QED BY <2>1 DEF Walked
<1>5. s.node[Index(Start)].g = 0
  BY DEF Looking, ArraysOK, NodesOK
<1>6. CASE g = 1
  <2>1. trail[0 + 1] = s.node[Index(trail[0])].parent
    BY <1>4
  <2>2. s.node[Index(dest)].parent = Start
    BY <1>4, <1>6, <2>1
  <2> QED BY <1>3, <1>4, <1>6, <2>2 DEF Looking, Placed
<1>7. CASE g # 1
  <2>1. g - 1 \in 1..g /\ (g - 1) + 1 = g
    BY <1>4, <1>7
  <2>2. Held(s.node, trail[g - 1]) /\ s.node[Index(trail[g - 1])].g = g - (g - 1)
    BY <1>4, <2>1
  <2>3. s.node[Index(trail[g - 1])].parent = Start
    BY <1>4, <2>1
  <2>4. trail[g - 1] # Start
    BY <1>4, <1>5, <2>2
  <2> QED BY <1>3, <2>2, <2>3, <2>4, AllowedCells DEF Held
<1> QED BY <1>6, <1>7
-----------------------------------------------------------------------------
\* The search before it looks at the first of the four cells.
LEMMA Opened ==
  ASSUME Placed, ArraysOK(node, closed, open), Begun, NEW e \in open,
         NEW spill \in BOOLEAN
  PROVE  /\ Looking([node |-> node, open |-> open \ {e}, spilled |-> spill, end |-> "no"], e.at)
         /\ Held(node, e.at)
<1> DEFINE c == e.at
           shut == closed \cup {Index(c)}
<1>1. NodesOK(node, closed) /\ Tree(node, closed) /\ Bounded(node, closed) /\ QueueOK(node, open)
  BY DEF ArraysOK
<1>2. Held(node, c) /\ c \in Allowed /\ Index(c) \in Written(node)
  BY <1>1 DEF QueueOK, Held
<1>3. NodesOK(node, shut)
  BY <1>1, <1>2 DEF NodesOK
<1>4. Tree(node, shut)
  BY <1>1 DEF Tree
<1>5. Bounded(node, shut)
  <2>1. closed \subseteq Memory
    BY <1>1 DEF NodesOK, Written
  <2>2. IsFiniteSet(closed) /\ Cardinality(closed) \in Nat
    BY <2>1, Memories, FS_Subset, FS_CardinalityType
  <2>3. Cardinality(shut) = IF Index(c) \in closed THEN Cardinality(closed) ELSE Cardinality(closed) + 1
    BY <2>2, FS_AddElement
  <2>4. \A m \in Written(node) : node[m].g \in Nat
    BY <1>1 DEF NodesOK, Written
  <2>5. ASSUME NEW m \in Written(node)
        PROVE  node[m].g <= Cardinality(shut) /\ (m \in shut => node[m].g < Cardinality(shut))
    <3>1. node[m].g <= Cardinality(closed) /\ (m \in closed => node[m].g < Cardinality(closed))
      BY <1>1 DEF Bounded
    <3>2. CASE Index(c) \in closed
      BY <2>3, <3>1, <3>2
    <3>3. CASE Index(c) \notin closed
      <4>1. Cardinality(shut) = Cardinality(closed) + 1
        BY <2>3, <3>3
      <4> QED BY <2>2, <2>4, <3>1, <4>1
    <3> QED BY <3>2, <3>3
  <2> QED BY <2>5 DEF Bounded
<1>6. QueueOK(node, open \ {e})
  BY <1>1 DEF QueueOK
<1>7. Index(Start) \in shut
  BY DEF Begun
<1>8. \A d \in open \ {e} : d.at # Start /\ (c = Start => d.at \in Neighbours(Start))
  BY DEF Begun
<1> QED BY <1>2, <1>3, <1>4, <1>5, <1>6, <1>7, <1>8 DEF Looking, ArraysOK

\* The search after each of the four cells.
Looks(e, luck, i) ==
  LET See(s, j) == Visit(s, e.at, Around(e.at)[j], luck)
      before == [node |-> node, open |-> open \ {e}, spilled |-> spilled, end |-> "no"]
  IN  CASE i = 0 -> before
        [] i = 1 -> See(before, 1)
        [] i = 2 -> See(See(before, 1), 2)
        [] i = 3 -> See(See(See(before, 1), 2), 3)
        [] i = 4 -> See(See(See(See(before, 1), 2), 3), 4)

LEMMA LooksAre ==
  ASSUME NEW e, NEW luck
  PROVE  /\ Looks(e, luck, 0) = [node |-> node, open |-> open \ {e}, spilled |-> spilled, end |-> "no"]
         /\ \A i \in 0..3 : Looks(e, luck, i + 1) = Visit(Looks(e, luck, i), e.at, Around(e.at)[i + 1], luck)
         /\ Expanded(e, luck) = Looks(e, luck, 4)
<1>1. Looks(e, luck, 0) = [node |-> node, open |-> open \ {e}, spilled |-> spilled, end |-> "no"]
  BY DEF Looks
<1>2. Looks(e, luck, 0 + 1) = Visit(Looks(e, luck, 0), e.at, Around(e.at)[0 + 1], luck)
  BY DEF Looks
<1>3. Looks(e, luck, 1 + 1) = Visit(Looks(e, luck, 1), e.at, Around(e.at)[1 + 1], luck)
  BY DEF Looks
<1>4. Looks(e, luck, 2 + 1) = Visit(Looks(e, luck, 2), e.at, Around(e.at)[2 + 1], luck)
  BY DEF Looks
<1>5. Looks(e, luck, 3 + 1) = Visit(Looks(e, luck, 3), e.at, Around(e.at)[3 + 1], luck)
  BY DEF Looks
<1>6. Expanded(e, luck) = Looks(e, luck, 4)
  BY DEF Looks, Expanded
<1>7. \A i \in 0..3 : i = 0 \/ i = 1 \/ i = 2 \/ i = 3
  OBVIOUS
<1> QED BY <1>1, <1>2, <1>3, <1>4, <1>5, <1>6, <1>7

\* The arrays stay sound while the four cells are looked at.
LEMMA LooksLooking ==
  ASSUME Placed, ArraysOK(node, closed, open), Begun, spilled \in BOOLEAN,
         NEW e \in open, NEW luck \in BOOLEAN
  PROVE  \A i \in 0..4 : Looking(Looks(e, luck, i), e.at)
<1>1. Looking(Looks(e, luck, 0), e.at)
  BY Opened, LooksAre
<1>2. ASSUME NEW i \in 0..3, Looking(Looks(e, luck, i), e.at)
      PROVE  Looking(Looks(e, luck, i + 1), e.at)
  <2>1. Around(e.at)[i + 1] \in Neighbours(e.at)
    <3>1. i + 1 \in 1..4
      OBVIOUS
    <3> QED BY <3>1, AroundBeside
  <2>2. Looks(e, luck, i + 1) = Visit(Looks(e, luck, i), e.at, Around(e.at)[i + 1], luck)
    BY LooksAre
  <2> QED BY <1>2, <2>1, <2>2, VisitLooking
<1>3. Looking(Looks(e, luck, 0 + 1), e.at)
  BY <1>1, <1>2
<1>4. Looking(Looks(e, luck, 1 + 1), e.at)
  BY <1>2, <1>3
<1>5. Looking(Looks(e, luck, 2 + 1), e.at)
  BY <1>2, <1>4
<1>6. Looking(Looks(e, luck, 3 + 1), e.at)
  BY <1>2, <1>5
<1>7. \A i \in 0..4 : i = 0 \/ i = 1 \/ i = 2 \/ i = 3 \/ i = 4
  OBVIOUS
<1> QED BY <1>1, <1>3, <1>4, <1>5, <1>6, <1>7

-----------------------------------------------------------------------------
(* What holds besides while the search has looked at nothing past its      *)
(* window, where every cell has a node of its own.                         *)

\* g is no less than the distance walked, and f is g and CalH.
Weighed(nodes) ==
  \A c \in Window : Index(c) \in Written(nodes) =>
    /\ Distance(Start, c) <= nodes[Index(c)].g
    /\ c # Start /\ c # dest => nodes[Index(c)].f = nodes[Index(c)].g + CalH(c)

\* A node that was made lighter is queued again, and its older entries stay.
Entered(nodes, queue) ==
  \A e \in queue : e.at \in Window /\ nodes[Index(e.at)].f <= e.f

\* What was written and is not closed is queued with its weight.
Queued(nodes, shut, queue) ==
  \A c \in Window : Index(c) \in Written(nodes) \ shut /\ c # dest =>
    [f |-> nodes[Index(c)].f, at |-> c] \in queue

\* n was reached from c, or in as few steps.
Reached(nodes, c, n) ==
  n \in Allowed => /\ n \in Window /\ Index(n) \in Written(nodes)
                   /\ nodes[Index(n)].g <= nodes[Index(c)].g + 1

\* What is next to a closed cell was reached from it, or better.
Relaxed(nodes, shut) ==
  \A c \in Window : Index(c) \in shut => \A n \in Neighbours(c) : Reached(nodes, c, n)

\* Nodes are closed in the order of their weights.
Ordered(nodes, shut, queue) ==
  \A m \in shut, e \in queue : nodes[m].f <= e.f

\* A parent is next to its cell.
Linked(nodes) ==
  \A c \in Window : Index(c) \in Written(nodes) \ {Index(Start)} =>
    /\ c \in Allowed /\ nodes[Index(c)].parent \in Window
    /\ c \in Neighbours(nodes[Index(c)].parent)

\* The search ends when it writes the destination.
Unfound(nodes) == dest \in Window => Index(dest) \notin Written(nodes)

Guided(nodes, shut, queue) ==
  /\ Weighed(nodes)
  /\ Entered(nodes, queue)
  /\ Queued(nodes, shut, queue)
  /\ Relaxed(nodes, shut)
  /\ Ordered(nodes, shut, queue)
  /\ Linked(nodes)
  /\ Unfound(nodes)

\* The same while the search looks at the cells next to c, which was not closed.
GuidedLooking(s, c) ==
  LET shut == closed \cup {Index(c)}
  IN  /\ Weighed(s.node)
      /\ Entered(s.node, s.open)
      /\ Queued(s.node, shut, s.open)
      /\ Relaxed(s.node, closed)
      /\ Ordered(s.node, shut, s.open)
      /\ Linked(s.node)
      /\ s.end = "no" => Unfound(s.node)
      /\ s.end = "dest" => dest \in Window
      /\ s.end # "wild"

\* What is known of an entry taken from the queue whose cell was not closed.
Taken(e) ==
  /\ e.at \in Window /\ Index(e.at) \notin closed
  /\ node[Index(e.at)].f = e.f
  /\ \A m \in closed : node[m].f <= e.f
  /\ e.at = Start => closed = {}

LEMMA NodeTypes ==
  ASSUME NEW nodes, NEW shut, NodesOK(nodes, shut)
  PROVE  \A m \in Written(nodes) : m \in Memory /\ nodes[m].g \in Nat /\ nodes[m].f \in Nat
BY DEF NodesOK, Written

\* A cell that could be walked to and was looked up is in the window, if nothing spilled.
LEMMA InWindow ==
  ASSUME Placed, NEW s, NEW c, Looking(s, c), s.end = "no", NEW n \in Neighbours(c),
         NEW luck \in BOOLEAN, ~Visit(s, c, n, luck).spilled, n \in Allowed
  PROVE  n \in Window /\ Index(n) \in Memory
<1>1. PICK t : t = Visit(s, c, n, luck)
  OBVIOUS
<1>2. n[1] >= 0 /\ n[2] >= 0 /\ n \in walkable
  BY DEF Allowed
<1>3. n \in Window
  BY <1>1, <1>2, VisitDoes
<1> QED BY <1>3, IndexWindow

\* A cell that is reached is weighed, queued, linked to c and lighter than before.
LEMMA GuidedWrite ==
  ASSUME Placed, NEW s, NEW e \in open, Looking(s, e.at), Taken(e), GuidedLooking(s, e.at),
         s.end = "no", NEW n \in Neighbours(e.at), n \in Window,
         NEW t, NEW f \in Nat, VisitWrites(s, e.at, n, t, f)
  PROVE  /\ GuidedLooking(t, e.at)
         /\ Reached(t.node, e.at, n)
         /\ \A m \in Neighbours(e.at) : Reached(s.node, e.at, m) => Reached(t.node, e.at, m)
<1> DEFINE c == e.at
           shut == closed \cup {Index(c)}
           old == s.node
           new == t.node
           rec == [f |-> f, g |-> old[Index(c)].g + 1, parent |-> c]
<1>1. /\ NodesOK(old, shut) /\ Held(old, c) /\ Index(Start) \in shut /\ QueueOK(old, s.open)
      /\ \A m \in shut : old[m] = node[m]
  BY DEF Looking, ArraysOK
<1>2. /\ n \in Allowed /\ Index(n) \in Memory /\ Index(n) \notin shut
      /\ new = [old EXCEPT ![Index(n)] = rec]
  BY DEF VisitWrites, Reach
<1>3. c \in Window /\ node[Index(c)].f = e.f /\ (\A m \in closed : node[m].f <= e.f)
  BY DEF Taken
<1>4. new[Index(n)] = rec /\ \A m \in Memory : m # Index(n) => new[m] = old[m]
  BY <1>1, <1>2 DEF NodesOK
<1>5. rec # Unset
  <2>1. rec.parent = c /\ c \in Nat \X Nat
    BY <1>1, AllowedCells DEF Held
  <2> QED BY <2>1 DEF Unset
<1>6. Written(new) = Written(old) \cup {Index(n)}
  BY <1>2, <1>4, <1>5 DEF Written
<1>7. \A d \in Window : Index(d) \in Memory /\ (Index(d) = Index(n) => d = n)
  BY IndexWindow, IndexInjective
<1>8. \A m \in Written(old) : m \in Memory /\ old[m].g \in Nat /\ old[m].f \in Nat
  BY <1>1, NodeTypes
<1>9. /\ Weighed(old) /\ Entered(old, s.open) /\ Queued(old, shut, s.open) /\ Relaxed(old, closed)
      /\ Ordered(old, shut, s.open) /\ Linked(old) /\ Unfound(old)
  BY DEF GuidedLooking
<1>10. PICK g \in Nat : g = old[Index(c)].g
  BY <1>1, <1>8 DEF Held
<1>11. n # Start /\ n # c
  BY <1>1, <1>2
<1>12. c \in Int \X Int /\ n \in Int \X Int /\ dest \in Int \X Int /\ Start \in Int \X Int
  BY <1>1, <1>2, AllowedCells DEF Held
<1>13. CalH(c) \in Nat /\ CalH(n) \in Nat /\ CalH(c) <= CalH(n) + 1
  BY <1>12, Beside, DistanceNat DEF CalH
<1>14. /\ rec.f = f /\ rec.g = g + 1 /\ rec.parent = c
       /\ n # dest => f = g + 1 + CalH(n)
       /\ n # dest => t.end = "no" /\ t.open = s.open \cup {[f |-> f, at |-> n]}
       /\ n = dest => t.end = "dest" /\ t.open = s.open
       /\ n # dest /\ Index(n) \in Written(old) => ~(old[Index(n)].f <= f)
  BY <1>10 DEF VisitWrites
<1> HIDE DEF c, shut, old, new, rec
<1>15. n # dest /\ Index(n) \in Written(old) => old[Index(n)].g > g + 1
  <2>1. n # dest /\ Index(n) \in Written(old) => old[Index(n)].f = old[Index(n)].g + CalH(n)
    BY <1>9, <1>11 DEF Weighed
  <2> QED BY <1>8, <1>10, <1>13, <1>14, <2>1
<1>16. n = dest => Index(n) \notin Written(old)
  BY <1>9 DEF Unfound
<1>17. \A d, m : Index(d) \in shut /\ Reached(old, d, m) => Reached(new, d, m)
  <2>1. SUFFICES ASSUME NEW d, NEW m, Index(d) \in shut, Reached(old, d, m), m \in Allowed
                 PROVE  /\ m \in Window /\ Index(m) \in Written(new)
                        /\ new[Index(m)].g <= new[Index(d)].g + 1
    BY DEF Reached
  <2>2. m \in Window /\ Index(m) \in Written(old) /\ old[Index(m)].g <= old[Index(d)].g + 1
    BY <2>1 DEF Reached
  <2>3. Index(d) \in Memory /\ new[Index(d)] = old[Index(d)] /\ old[Index(d)].g \in Nat
    BY <1>1, <1>2, <1>4, <1>8, <2>1 DEF NodesOK
  <2>4. CASE Index(m) = Index(n)
    <3>1. m = n
      BY <1>7, <2>2, <2>4
    <3>2. n # dest
      BY <1>16, <2>2, <2>4
    <3>3. new[Index(m)].g = g + 1 /\ old[Index(n)].g > g + 1
      BY <1>4, <1>14, <1>15, <2>2, <2>4, <3>2
    <3> QED BY <1>6, <1>8, <2>2, <2>3, <2>4, <3>3
  <2>5. CASE Index(m) # Index(n)
    <3>1. new[Index(m)] = old[Index(m)]
      BY <1>4, <1>8, <2>2, <2>5
    <3> QED BY <1>6, <2>2, <2>3, <3>1
  <2> QED BY <2>4, <2>5
<1>18. Weighed(new)
  <2>1. SUFFICES ASSUME NEW d \in Window, Index(d) \in Written(new)
                 PROVE  /\ Distance(Start, d) <= new[Index(d)].g
                        /\ d # Start /\ d # dest => new[Index(d)].f = new[Index(d)].g + CalH(d)
    BY DEF Weighed
  <2>2. CASE Index(d) = Index(n)
    <3>1. d = n
      BY <1>7, <2>2
    <3>2. new[Index(d)] = rec
      BY <1>4, <2>2
    <3>3. Distance(Start, n) <= g + 1
      <4>1. Distance(Start, c) <= g
        BY <1>1, <1>3, <1>9, <1>10 DEF Weighed, Held, c
      <4>2. Distance(Start, n) <= Distance(Start, c) + 1
        BY <1>12, Beside DEF c
      <4>3. Distance(Start, n) \in Nat /\ Distance(Start, c) \in Nat
        BY <1>12, DistanceNat
      <4> QED BY <4>1, <4>2, <4>3
    <3> QED BY <1>14, <3>1, <3>2, <3>3
  <2>3. CASE Index(d) # Index(n)
    <3>1. Index(d) \in Written(old) /\ new[Index(d)] = old[Index(d)]
      BY <1>4, <1>6, <1>7, <2>1, <2>3
    <3> QED BY <1>9, <3>1 DEF Weighed
  <2> QED BY <2>2, <2>3
<1>19. Entered(new, t.open)
  <2>1. SUFFICES ASSUME NEW d \in t.open
                 PROVE  d.at \in Window /\ new[Index(d.at)].f <= d.f
    BY DEF Entered
  <2>2. CASE d \in s.open
    <3>1. d.at \in Window /\ old[Index(d.at)].f <= d.f /\ Index(d.at) \in Written(old) /\ d.f \in Nat
      BY <1>1, <1>9, <2>2 DEF Entered, QueueOK, Held
    <3>2. CASE Index(d.at) = Index(n)
      <4>1. n # dest
        BY <1>16, <3>1, <3>2
      <4>2. new[Index(d.at)].f = f /\ ~(old[Index(n)].f <= f) /\ old[Index(n)].f \in Nat
        BY <1>4, <1>8, <1>14, <3>1, <3>2, <4>1
      <4> QED BY <3>1, <3>2, <4>2
    <3>3. CASE Index(d.at) # Index(n)
      <4>1. new[Index(d.at)] = old[Index(d.at)]
        BY <1>4, <1>7, <3>1, <3>3
      <4> QED BY <3>1, <4>1
    <3> QED BY <3>2, <3>3
  <2>3. CASE d \notin s.open
    <3>1. d = [f |-> f, at |-> n]
      BY <1>14, <2>1, <2>3
    <3>2. new[Index(n)].f = f
      BY <1>4, <1>14
    <3> QED BY <3>1, <3>2
  <2> QED BY <2>2, <2>3
<1>20. Queued(new, shut, t.open)
  <2>1. SUFFICES ASSUME NEW d \in Window, Index(d) \in Written(new) \ shut, d # dest
                 PROVE  [f |-> new[Index(d)].f, at |-> d] \in t.open
    BY DEF Queued
  <2>2. CASE Index(d) = Index(n)
    <3>1. d = n /\ new[Index(d)].f = f
      BY <1>4, <1>7, <1>14, <2>2
    <3> QED BY <1>14, <2>1, <3>1
  <2>3. CASE Index(d) # Index(n)
    <3>1. Index(d) \in Written(old) \ shut /\ new[Index(d)] = old[Index(d)]
      BY <1>4, <1>6, <1>7, <2>1, <2>3
    <3>2. [f |-> old[Index(d)].f, at |-> d] \in s.open
      BY <1>9, <2>1, <3>1 DEF Queued
    <3> QED BY <1>14, <3>1, <3>2
  <2> QED BY <2>2, <2>3
<1>21. Relaxed(new, closed)
  <2>1. closed \subseteq shut
    BY DEF shut
  <2> QED BY <1>9, <1>17, <2>1 DEF Relaxed
<1>22. Ordered(new, shut, t.open)
  <2>1. SUFFICES ASSUME NEW m \in shut, NEW d \in t.open
                 PROVE  new[m].f <= d.f
    BY DEF Ordered
  <2>2. new[m] = old[m] /\ old[m] = node[m] /\ m \in Written(old)
    BY <1>1, <1>2, <1>4, <1>8 DEF NodesOK
  <2>3. CASE d \in s.open
    BY <1>9, <2>2, <2>3 DEF Ordered
  <2>4. CASE d \notin s.open
    <3>1. d = [f |-> f, at |-> n] /\ n # dest
      BY <1>14, <2>1, <2>4
    <3>2. m = Index(c) \/ m \in closed
      BY DEF shut
    <3>3. node[m].f <= e.f
      <4>1. node[Index(c)].f = e.f /\ e.f \in Nat
        BY <1>1, <1>3, <1>8 DEF Held, shut
      <4> QED BY <1>3, <3>2, <4>1
    <3>4. e.f <= f /\ e.f \in Nat
      <4>1. Index(c) \in shut /\ Index(c) \in Written(old)
        BY <1>1 DEF Held, shut
      <4>2. e.f = old[Index(c)].f /\ e.f \in Nat
        BY <1>1, <1>3, <1>8, <4>1
      <4>3. CASE c = Start
        <5>1. e.f = 0
          BY <1>1, <4>2, <4>3 DEF NodesOK
        <5> QED BY <5>1
      <4>4. CASE c # Start
        <5>1. c # dest
          BY <1>3, <1>9, <4>1 DEF Unfound
        <5>2. old[Index(c)].f = g + CalH(c)
          BY <1>3, <1>9, <1>10, <4>1, <4>4, <5>1 DEF Weighed
        <5> QED BY <1>10, <1>13, <1>14, <3>1, <4>2, <5>2
      <4> QED BY <4>3, <4>4
    <3>5. node[m].f \in Nat
      BY <1>8, <2>2
    <3> QED BY <2>2, <3>1, <3>3, <3>4, <3>5
  <2> QED BY <2>3, <2>4
<1>23. Linked(new)
  <2>1. SUFFICES ASSUME NEW d \in Window, Index(d) \in Written(new) \ {Index(Start)}
                 PROVE  /\ d \in Allowed /\ new[Index(d)].parent \in Window
                        /\ d \in Neighbours(new[Index(d)].parent)
    BY DEF Linked
  <2>2. CASE Index(d) = Index(n)
    <3>1. d = n /\ new[Index(d)].parent = c
      BY <1>4, <1>7, <1>14, <2>2
    <3>2. n \in Neighbours(c)
      BY DEF c
    <3> QED BY <1>2, <1>3, <3>1, <3>2
  <2>3. CASE Index(d) # Index(n)
    <3>1. Index(d) \in Written(old) \ {Index(Start)} /\ new[Index(d)] = old[Index(d)]
      BY <1>4, <1>6, <1>7, <2>1, <2>3
    <3> QED BY <1>9, <3>1 DEF Linked
  <2> QED BY <2>2, <2>3
<1>24. t.end = "no" => Unfound(new)
  BY <1>6, <1>7, <1>9, <1>14 DEF Unfound
<1>25. t.end = "dest" => dest \in Window
  BY <1>14
<1>26. t.end # "wild"
  BY <1>14
<1>27. GuidedLooking(t, c)
  BY <1>18, <1>19, <1>20, <1>21, <1>22, <1>23, <1>24, <1>25, <1>26 DEF GuidedLooking, new, shut
<1>28. Reached(new, c, n)
  <2>1. new[Index(n)].g = g + 1
    BY <1>4, <1>14
  <2>2. new[Index(c)] = old[Index(c)]
    BY <1>1, <1>2, <1>4, <1>8 DEF shut, Held
  <2> QED BY <1>6, <1>10, <2>1, <2>2 DEF Reached
<1>29. \A m : Reached(old, c, m) => Reached(new, c, m)
  BY <1>17 DEF shut
<1> QED BY <1>27, <1>28, <1>29 DEF c, new, old

-----------------------------------------------------------------------------
\* A cell that is passed over had been reached in as few steps.
LEMMA GuidedKeep ==
  ASSUME Placed, NEW s, NEW e \in open, Looking(s, e.at), Taken(e), GuidedLooking(s, e.at),
         s.end = "no", NEW n \in Neighbours(e.at), n \in Allowed => n \in Window,
         NEW t, VisitKeeps(s, e.at, n, t)
  PROVE  GuidedLooking(t, e.at) /\ Reached(s.node, e.at, n)
<1> DEFINE c == e.at
           shut == closed \cup {Index(c)}
           old == s.node
<1>1. /\ NodesOK(old, shut) /\ Held(old, c) /\ Index(Start) \in shut /\ Index(c) \in shut
      /\ \A m \in shut : old[m] = node[m]
  BY DEF Looking, ArraysOK
<1>2. /\ c \in Window /\ node[Index(c)].f = e.f /\ \A m \in closed : node[m].f <= e.f
      /\ (c = Start => closed = {})
  BY DEF Taken
<1>3. Weighed(old) /\ Unfound(old)
  BY DEF GuidedLooking
<1>4. \A m \in Written(old) : m \in Memory /\ old[m].g \in Nat /\ old[m].f \in Nat
  BY <1>1, NodeTypes
<1>5. \A d \in Window : Index(d) \in Memory /\ \A b \in Window : Index(d) = Index(b) => d = b
  BY IndexWindow, IndexInjective
<1>6. c \in Int \X Int /\ n \in Int \X Int /\ dest \in Int \X Int /\ n # c
  BY <1>1, AllowedCells, Beside DEF Held
<1>7. CalH(c) \in Nat /\ CalH(n) \in Nat /\ CalH(c) <= CalH(n) + 1
  BY <1>6, Beside, DistanceNat DEF CalH
<1>8. PICK g \in Nat : g = old[Index(c)].g
  BY <1>1, <1>4 DEF Held
<1>9. /\ t.node = s.node /\ t.open = s.open
      /\ t.end = "no" \/ (t.end = "wild" /\ n \in Allowed /\ Index(n) \notin Memory)
  BY DEF VisitKeeps
<1>10. t.end = "no"
  BY <1>5, <1>9
<1>11. GuidedLooking(t, e.at)
  BY <1>9, <1>10 DEF GuidedLooking
<1>12. ASSUME n \in Allowed PROVE Reached(old, c, n)
  <2>1. n \in Window /\ Index(n) \in Memory
    BY <1>5, <1>12
  <2>2. \/ Index(n) \in closed \cup {Index(c)}
        \/ /\ Index(n) \in Written(old) /\ n # dest
           /\ old[Index(n)].f <= old[Index(c)].g + 1 + CalH(n)
    BY <1>10, <1>12, <2>1 DEF VisitKeeps
  <2>3. Index(n) # Index(c)
    BY <1>2, <1>5, <1>6, <2>1
  <2> HIDE DEF c, shut, old
  <2>4. CASE n = Start
    <3>1. old[Index(n)].g = 0 /\ Index(n) \in Written(old)
      BY <1>1, <2>4 DEF NodesOK
    <3> QED BY <1>8, <2>1, <3>1 DEF Reached
  <2>5. CASE Index(n) \in closed /\ n # Start
    <3>1. Index(n) \in shut /\ Index(n) \in Written(old)
      BY <1>1, <2>5 DEF NodesOK, shut
    <3>2. n # dest
      BY <1>3, <2>1, <3>1 DEF Unfound
    <3>3. old[Index(n)].f = old[Index(n)].g + CalH(n)
      BY <1>3, <2>1, <2>5, <3>1, <3>2 DEF Weighed
    <3>4. old[Index(n)].f <= e.f
      BY <1>1, <1>2, <2>5, <3>1
    <3>5. Index(c) \in shut /\ Index(c) \in Written(old) /\ c # dest /\ c # Start
      BY <1>1, <1>2, <1>3, <2>5 DEF Unfound, Held
    <3>6. e.f = g + CalH(c)
      BY <1>1, <1>2, <1>3, <1>8, <3>5 DEF Weighed
    <3>7. old[Index(n)].g \in Nat
      BY <1>4, <3>1
    <3>8. old[Index(n)].g <= g + 1
      BY <1>7, <3>3, <3>4, <3>6, <3>7
    <3> QED BY <1>8, <2>1, <3>1, <3>8 DEF Reached
  <2>6. CASE Index(n) \notin closed /\ n # Start
    <3>1. /\ Index(n) \in Written(old) /\ n # dest
          /\ old[Index(n)].f <= g + 1 + CalH(n)
      BY <1>8, <2>2, <2>3, <2>6
    <3>2. old[Index(n)].f = old[Index(n)].g + CalH(n)
      BY <1>3, <2>1, <2>6, <3>1 DEF Weighed
    <3>3. old[Index(n)].g \in Nat
      BY <1>4, <3>1
    <3>4. old[Index(n)].g <= g + 1
      BY <1>7, <3>1, <3>2, <3>3
    <3> QED BY <1>8, <2>1, <3>1, <3>4 DEF Reached
  <2> QED BY <2>4, <2>5, <2>6
<1>13. Reached(old, c, n)
  BY <1>12 DEF Reached
<1> QED BY <1>11, <1>13

\* Looking at one cell keeps what is known while nothing spills.
LEMMA GuidedVisit ==
  ASSUME Placed, NEW s, NEW e \in open, Looking(s, e.at), Taken(e), GuidedLooking(s, e.at),
         NEW n \in Neighbours(e.at), NEW luck \in BOOLEAN,
         NEW t, t = Visit(s, e.at, n, luck), ~t.spilled
  PROVE  /\ GuidedLooking(t, e.at)
         /\ t.end = "no" =>
              /\ s.end = "no" /\ Reached(t.node, e.at, n)
              /\ \A m \in Neighbours(e.at) : Reached(s.node, e.at, m) => Reached(t.node, e.at, m)
<1>1. CASE s.end # "no"
  <2>1. t = s
    BY <1>1, VisitDoes
  <2> QED BY <1>1, <2>1
<1>2. CASE s.end = "no"
  <2>1. (\E f \in Nat : VisitWrites(s, e.at, n, t, f)) \/ VisitKeeps(s, e.at, n, t)
    BY <1>2, VisitDoes
  <2>2. n \in Allowed => n \in Window
    BY <1>2, InWindow
  <2>3. CASE VisitKeeps(s, e.at, n, t)
    <3>1. t.node = s.node
      BY <2>3 DEF VisitKeeps
    <3>2. GuidedLooking(t, e.at) /\ Reached(s.node, e.at, n)
      BY <1>2, <2>2, <2>3, GuidedKeep
    <3> QED BY <1>2, <3>1, <3>2
  <2>4. CASE \E f \in Nat : VisitWrites(s, e.at, n, t, f)
    <3>1. PICK f \in Nat : VisitWrites(s, e.at, n, t, f)
      BY <2>4
    <3>2. n \in Window
      BY <2>2, <3>1 DEF VisitWrites
    <3>3. f \in Nat
      BY <3>1
    <3>4. /\ GuidedLooking(t, e.at)
          /\ Reached(t.node, e.at, n)
          /\ \A m \in Neighbours(e.at) : Reached(s.node, e.at, m) => Reached(t.node, e.at, m)
      BY <1>2, <3>1, <3>2, <3>3, GuidedWrite
    <3> QED BY <1>2, <3>4
  <2> QED BY <2>1, <2>3, <2>4
<1> QED BY <1>1, <1>2

-----------------------------------------------------------------------------
\* What is known when the first of the four cells is looked at.
LEMMA TakenFirst ==
  ASSUME Placed, ArraysOK(node, closed, open), Begun, Guided(node, closed, open),
         NEW e \in open, Lightest(e), Index(e.at) \notin closed,
         NEW s, s = [node |-> node, open |-> open \ {e}, spilled |-> spilled, end |-> "no"]
  PROVE  Taken(e) /\ GuidedLooking(s, e.at)
<1> DEFINE c == e.at
           shut == closed \cup {Index(c)}
<1>1. NodesOK(node, closed) /\ Held(node, c) /\ e.f \in Nat
  BY DEF ArraysOK, QueueOK
<1>2. /\ Weighed(node) /\ Entered(node, open) /\ Queued(node, closed, open)
      /\ Relaxed(node, closed) /\ Ordered(node, closed, open) /\ Linked(node) /\ Unfound(node)
  BY DEF Guided
<1>3. c \in Window /\ node[Index(c)].f <= e.f
  BY <1>2 DEF Entered
<1>4. Index(c) \in Written(node) \ closed
  BY <1>1 DEF Held
<1>5. c # dest
  BY <1>2, <1>3, <1>4 DEF Unfound
<1>6. [f |-> node[Index(c)].f, at |-> c] \in open
  BY <1>2, <1>3, <1>4, <1>5 DEF Queued
<1>7. e.f <= node[Index(c)].f
  BY <1>6 DEF Lightest
<1>8. node[Index(c)].f \in Nat
  BY <1>1, <1>4, NodeTypes
<1>9. node[Index(c)].f = e.f
  BY <1>1, <1>3, <1>7, <1>8
<1>10. c = Start => closed = {}
  BY <1>4 DEF Begun
<1>11. Taken(e)
  BY <1>2, <1>3, <1>4, <1>9, <1>10 DEF Taken, Ordered
<1>12. s.node = node /\ s.open = open \ {e} /\ s.end = "no"
  OBVIOUS
<1>13. Entered(node, s.open)
  BY <1>2, <1>12 DEF Entered
<1>14. Queued(node, shut, s.open)
  <2>1. ASSUME NEW d \in Window, Index(d) \in Written(node) \ shut, d # dest
        PROVE  [f |-> node[Index(d)].f, at |-> d] \in s.open
    <3>1. [f |-> node[Index(d)].f, at |-> d] \in open
      BY <1>2, <2>1 DEF Queued
    <3>2. d # c
      BY <2>1
    <3> QED BY <1>12, <3>1, <3>2
  <2> QED BY <2>1 DEF Queued
<1>15. Ordered(node, shut, s.open)
  <2>1. ASSUME NEW m \in shut, NEW d \in s.open
        PROVE  node[m].f <= d.f
    <3>1. CASE m = Index(c)
      BY <1>9, <1>12, <2>1, <3>1 DEF Lightest
    <3>2. CASE m # Index(c)
      BY <1>2, <1>12, <2>1, <3>2 DEF Ordered
    <3> QED BY <3>1, <3>2
  <2> QED BY <2>1 DEF Ordered
<1>16. GuidedLooking(s, c)
  BY <1>2, <1>12, <1>13, <1>14, <1>15 DEF GuidedLooking
<1> QED BY <1>11, <1>16

\* Once something was looked up past the window, it stays so.
LEMMA SpilledStays ==
  ASSUME Placed, NEW s, NEW c, Looking(s, c), NEW n \in Neighbours(c), NEW luck \in BOOLEAN,
         NEW t, t = Visit(s, c, n, luck), ~t.spilled
  PROVE  ~s.spilled
<1>1. s.spilled \in BOOLEAN
  BY DEF Looking
<1>2. CASE s.end # "no"
  <2>1. t = s
    BY <1>2, VisitDoes
  <2> QED BY <2>1
<1>3. CASE s.end = "no"
  <2>1. t.spilled = (s.spilled \/ (n[1] >= 0 /\ n[2] >= 0 /\ n \in walkable \ Window))
    BY <1>3, VisitDoes
  <2> QED BY <1>1, <2>1
<1> QED BY <1>2, <1>3

\* So far, for the first i of the four cells next to that of e.
Seeing(s, e, i) ==
  ~s.spilled => /\ GuidedLooking(s, e.at)
                /\ s.end = "no" => \A j \in 1..i : Reached(s.node, e.at, Around(e.at)[j])

LEMMA LooksSeeing ==
  ASSUME Placed, ArraysOK(node, closed, open), Begun, spilled \in BOOLEAN,
         ~spilled => Guided(node, closed, open),
         NEW e \in open, Lightest(e), Index(e.at) \notin closed, NEW luck \in BOOLEAN
  PROVE  \A i \in 0..4 : Seeing(Looks(e, luck, i), e, i) /\ (~Looks(e, luck, i).spilled => Taken(e) /\ ~spilled)
<1> DEFINE Good(i) == Seeing(Looks(e, luck, i), e, i) /\ (~Looks(e, luck, i).spilled => Taken(e) /\ ~spilled)
<1>1. Good(0)
  <2>1. PICK s : s = Looks(e, luck, 0)
    OBVIOUS
  <2>2. s = [node |-> node, open |-> open \ {e}, spilled |-> spilled, end |-> "no"]
    BY <2>1, LooksAre
  <2>3. ~s.spilled => Taken(e) /\ ~spilled /\ GuidedLooking(s, e.at)
    <3>1. s.spilled = spilled
      BY <2>2
    <3> QED BY <2>2, <3>1, TakenFirst
  <2>4. Seeing(s, e, 0)
    BY <2>3 DEF Seeing
  <2> QED BY <2>1, <2>3, <2>4
<1>2. ASSUME NEW i \in 0..3, Good(i)
      PROVE  Good(i + 1)
  <2>1. PICK s : s = Looks(e, luck, i)
    OBVIOUS
  <2>2. PICK n : n = Around(e.at)[i + 1]
    OBVIOUS
  <2>3. PICK t : t = Visit(s, e.at, n, luck)
    OBVIOUS
  <2>4. t = Looks(e, luck, i + 1)
    BY <2>1, <2>2, <2>3, LooksAre
  <2>5. Looking(s, e.at)
    <3>1. i \in 0..4
      OBVIOUS
    <3> QED BY <2>1, <3>1, LooksLooking
  <2>6. n \in Neighbours(e.at)
    <3>1. i + 1 \in 1..4
      OBVIOUS
    <3> QED BY <2>2, <3>1, AroundBeside
  <2>7. Seeing(s, e, i) /\ (~s.spilled => Taken(e) /\ ~spilled)
    BY <1>2, <2>1
  <2>8. ASSUME ~t.spilled
        PROVE  /\ GuidedLooking(t, e.at) /\ Taken(e) /\ ~spilled
               /\ t.end = "no" => \A j \in 1..(i + 1) : Reached(t.node, e.at, Around(e.at)[j])
    <3>1. ~s.spilled
      BY <2>3, <2>5, <2>6, <2>8, SpilledStays
    <3>2. Taken(e) /\ ~spilled /\ GuidedLooking(s, e.at)
      BY <2>7, <3>1 DEF Seeing
    <3>3. /\ GuidedLooking(t, e.at)
          /\ t.end = "no" =>
              /\ s.end = "no" /\ Reached(t.node, e.at, n)
              /\ \A m \in Neighbours(e.at) : Reached(s.node, e.at, m) => Reached(t.node, e.at, m)
      BY <2>3, <2>5, <2>6, <2>8, <3>2, GuidedVisit
    <3>4. ASSUME t.end = "no", NEW j \in 1..(i + 1)
          PROVE  Reached(t.node, e.at, Around(e.at)[j])
      <4>1. CASE j = i + 1
        BY <2>2, <3>3, <3>4, <4>1
      <4>2. CASE j # i + 1
        <5>1. j \in 1..i /\ j \in 1..4
          BY <3>4, <4>2
        <5>2. Reached(s.node, e.at, Around(e.at)[j])
          BY <2>7, <3>1, <3>3, <3>4, <5>1 DEF Seeing
        <5>3. Around(e.at)[j] \in Neighbours(e.at)
          BY <5>1, AroundBeside
        <5> QED BY <3>3, <3>4, <5>2, <5>3
      <4> QED BY <4>1, <4>2
    <3> QED BY <3>2, <3>3, <3>4
  <2>9. Seeing(t, e, i + 1)
    BY <2>8 DEF Seeing
  <2> QED BY <2>4, <2>8, <2>9
<1> HIDE DEF Good
<1>3. Good(0 + 1)
  BY <1>1, <1>2
<1>4. Good(1 + 1)
  BY <1>2, <1>3
<1>5. Good(2 + 1)
  BY <1>2, <1>4
<1>6. Good(3 + 1)
  BY <1>2, <1>5
<1>7. \A i \in 0..4 : i = 0 \/ i = 1 \/ i = 2 \/ i = 3 \/ i = 4
  OBVIOUS
<1>8. \A i \in 0..4 : Good(i)
  BY <1>1, <1>3, <1>4, <1>5, <1>6, <1>7
<1> QED BY <1>8 DEF Good

\* After the four cells, the search is where it was, with one more cell closed.
LEMMA ExpandedFresh ==
  ASSUME Placed, ArraysOK(node, closed, open), Begun, spilled \in BOOLEAN,
         ~spilled => Guided(node, closed, open),
         NEW e \in open, Lightest(e), Index(e.at) \notin closed, NEW luck \in BOOLEAN,
         NEW after, after = Expanded(e, luck), ~after.spilled
  PROVE  /\ Taken(e) /\ ~spilled /\ GuidedLooking(after, e.at)
         /\ after.end = "no" => Guided(after.node, closed \cup {Index(e.at)}, after.open)
<1>1. after = Looks(e, luck, 4)
  BY LooksAre
<1>2. 4 \in 0..4
  OBVIOUS
<1>3. Seeing(after, e, 4) /\ Taken(e) /\ ~spilled
  BY <1>1, <1>2, LooksSeeing
<1>4. GuidedLooking(after, e.at)
  BY <1>3 DEF Seeing
<1>5. ASSUME after.end = "no" PROVE Guided(after.node, closed \cup {Index(e.at)}, after.open)
  <2>1. \A j \in 1..4 : Reached(after.node, e.at, Around(e.at)[j])
    BY <1>3, <1>5 DEF Seeing
  <2>2. \A n \in Neighbours(e.at) : Reached(after.node, e.at, n)
    <3>1. TAKE n \in Neighbours(e.at)
    <3>2. \E j \in 1..4 : n = Around(e.at)[j]
      BY DEF Neighbours
    <3> QED BY <2>1, <3>2
  <2>3. Relaxed(after.node, closed \cup {Index(e.at)})
    <3>1. Relaxed(after.node, closed) /\ e.at \in Window
      BY <1>3, <1>4 DEF GuidedLooking, Taken
    <3>2. ASSUME NEW d \in Window, Index(d) \in closed \cup {Index(e.at)}, NEW n \in Neighbours(d)
          PROVE  Reached(after.node, d, n)
      <4>1. CASE Index(d) \in closed
        BY <3>1, <3>2, <4>1 DEF Relaxed
      <4>2. CASE Index(d) = Index(e.at)
        <5>1. d = e.at
          BY <3>1, <3>2, <4>2, IndexInjective
        <5> QED BY <2>2, <3>2, <5>1
      <4> QED BY <3>2, <4>1, <4>2
    <3> QED BY <3>2 DEF Relaxed
  <2> QED BY <1>4, <1>5, <2>3 DEF GuidedLooking, Guided
<1> QED BY <1>3, <1>4, <1>5

-----------------------------------------------------------------------------
\* A cell that is taken from the queue again changes nothing.
LEMMA VisitStale ==
  ASSUME Placed, NEW s, NEW e \in open, Looking(s, e.at), Index(e.at) \in closed,
         Guided(node, closed, open), s.node = node, s.end = "no",
         NEW n \in Neighbours(e.at), NEW luck \in BOOLEAN,
         NEW t, t = Visit(s, e.at, n, luck), ~t.spilled
  PROVE  t.node = node /\ t.open = s.open /\ t.end = "no"
<1> DEFINE c == e.at
<1>1. /\ NodesOK(node, closed \cup {Index(c)}) /\ Held(node, c)
      /\ Index(Start) \in closed \cup {Index(c)}
  BY DEF Looking, ArraysOK
<1>2. /\ Weighed(node) /\ Relaxed(node, closed) /\ Unfound(node) /\ c \in Window
  BY DEF Guided, Entered
<1>3. n \in Allowed => n \in Window /\ Index(n) \in Memory /\ Reached(node, c, n)
  <2>1. n \in Allowed => n \in Window /\ Index(n) \in Memory
    BY InWindow
  <2>2. Reached(node, c, n)
    BY <1>2 DEF Relaxed
  <2> QED BY <2>1, <2>2
<1>4. (\E f \in Nat : VisitWrites(s, c, n, t, f)) \/ VisitKeeps(s, c, n, t)
  BY VisitDoes
<1>5. CASE VisitKeeps(s, c, n, t)
  BY <1>3, <1>5 DEF VisitKeeps
<1>6. CASE \E f \in Nat : VisitWrites(s, c, n, t, f)
  <2>1. PICK f \in Nat : VisitWrites(s, c, n, t, f)
    BY <1>6
  <2>2. n \in Allowed /\ Index(n) \notin closed \cup {Index(c)}
    BY <2>1 DEF VisitWrites
  <2>3. Index(n) \in Written(node) /\ node[Index(n)].g <= node[Index(c)].g + 1
    BY <1>3, <2>2 DEF Reached
  <2>4. n # dest /\ n # Start
    BY <1>1, <1>2, <1>3, <2>2, <2>3 DEF Unfound
  <2>5. f = node[Index(c)].g + 1 + CalH(n) /\ ~(node[Index(n)].f <= f)
    BY <2>1, <2>3, <2>4 DEF VisitWrites
  <2>6. node[Index(n)].f = node[Index(n)].g + CalH(n)
    BY <1>2, <1>3, <2>2, <2>3, <2>4 DEF Weighed
  <2>7. CalH(n) \in Nat
    <3>1. n \in Int \X Int /\ dest \in Int \X Int
      BY <2>2, AllowedCells
    <3> QED BY <3>1, DistanceNat DEF CalH
  <2>8. node[Index(n)].g \in Nat /\ node[Index(c)].g \in Nat
    BY <1>1, <2>3, NodeTypes DEF Held
  <2> HIDE DEF c
  <2>9. PICK x \in Nat, y \in Nat, h \in Nat :
          x = node[Index(n)].g /\ y = node[Index(c)].g /\ h = CalH(n)
    BY <2>7, <2>8
  <2>10. x <= y + 1 /\ ~(x + h <= y + 1 + h)
    BY <2>3, <2>5, <2>6, <2>9
  <2>11. FALSE
    BY <2>9, <2>10
  <2> QED BY <2>11
<1> QED BY <1>4, <1>5, <1>6

\* Nothing was done for e so far.
Idle(s, e) == ~s.spilled => s.node = node /\ s.open = open \ {e} /\ s.end = "no"

LEMMA LooksIdle ==
  ASSUME Placed, ArraysOK(node, closed, open), Begun, spilled \in BOOLEAN,
         ~spilled => Guided(node, closed, open),
         NEW e \in open, Index(e.at) \in closed, NEW luck \in BOOLEAN
  PROVE  \A i \in 0..4 : Idle(Looks(e, luck, i), e) /\ (~Looks(e, luck, i).spilled => ~spilled)
<1> DEFINE Good(i) == Idle(Looks(e, luck, i), e) /\ (~Looks(e, luck, i).spilled => ~spilled)
<1>1. Good(0)
  BY LooksAre DEF Idle
<1>2. ASSUME NEW i \in 0..3, Good(i)
      PROVE  Good(i + 1)
  <2>1. PICK s : s = Looks(e, luck, i)
    OBVIOUS
  <2>2. PICK n : n = Around(e.at)[i + 1]
    OBVIOUS
  <2>3. PICK t : t = Visit(s, e.at, n, luck)
    OBVIOUS
  <2>4. t = Looks(e, luck, i + 1)
    BY <2>1, <2>2, <2>3, LooksAre
  <2>5. Looking(s, e.at)
    <3>1. i \in 0..4
      OBVIOUS
    <3> QED BY <2>1, <3>1, LooksLooking
  <2>6. n \in Neighbours(e.at)
    <3>1. i + 1 \in 1..4
      OBVIOUS
    <3> QED BY <2>2, <3>1, AroundBeside
  <2>7. Idle(s, e) /\ (~s.spilled => ~spilled)
    BY <1>2, <2>1
  <2>8. ASSUME ~t.spilled
        PROVE  t.node = node /\ t.open = open \ {e} /\ t.end = "no" /\ ~spilled
    <3>1. ~s.spilled
      BY <2>3, <2>5, <2>6, <2>8, SpilledStays
    <3>2. s.node = node /\ s.open = open \ {e} /\ s.end = "no" /\ ~spilled
      BY <2>7, <3>1 DEF Idle
    <3> QED BY <2>3, <2>5, <2>6, <2>8, <3>2, VisitStale
  <2>9. Idle(t, e)
    BY <2>8 DEF Idle
  <2> QED BY <2>4, <2>8, <2>9
<1> HIDE DEF Good
<1>3. Good(0 + 1)
  BY <1>1, <1>2
<1>4. Good(1 + 1)
  BY <1>2, <1>3
<1>5. Good(2 + 1)
  BY <1>2, <1>4
<1>6. Good(3 + 1)
  BY <1>2, <1>5
<1>7. \A i \in 0..4 : i = 0 \/ i = 1 \/ i = 2 \/ i = 3 \/ i = 4
  OBVIOUS
<1>8. \A i \in 0..4 : Good(i)
  BY <1>1, <1>3, <1>4, <1>5, <1>6, <1>7
<1> QED BY <1>8 DEF Good

\* After the four cells of a closed cell, its entry is gone and no more.
LEMMA ExpandedStale ==
  ASSUME Placed, ArraysOK(node, closed, open), Begun, spilled \in BOOLEAN,
         ~spilled => Guided(node, closed, open),
         NEW e \in open, Index(e.at) \in closed, NEW luck \in BOOLEAN,
         NEW after, after = Expanded(e, luck), ~after.spilled
  PROVE  /\ after.end = "no" /\ after.node = node
         /\ Guided(after.node, closed \cup {Index(e.at)}, after.open)
<1>1. 4 \in 0..4
  OBVIOUS
<1>2. after.node = node /\ after.open = open \ {e} /\ after.end = "no" /\ ~spilled
  BY <1>1, LooksAre, LooksIdle DEF Idle
<1>3. Guided(node, closed, open)
  BY <1>2
<1>4. closed \cup {Index(e.at)} = closed
  OBVIOUS
<1>5. Queued(node, closed, open \ {e})
  BY <1>3 DEF Guided, Queued
<1>6. Entered(node, open \ {e}) /\ Ordered(node, closed, open \ {e})
  BY <1>3 DEF Guided, Entered, Ordered
<1>7. Guided(node, closed, open \ {e})
  BY <1>3, <1>5, <1>6 DEF Guided
<1> QED BY <1>2, <1>4, <1>7

-----------------------------------------------------------------------------
\* The cells around the destination.
LEMMA RingsGrow ==
  ASSUME Placed
  PROVE  /\ Rings[0] = {dest} \cap Allowed
         /\ \A n \in Nat : /\ Rings[n] \subseteq Allowed
                           /\ Rings[n + 1] = Rings[n] \cup {c \in Allowed : Neighbours(c) \cap Rings[n] # {}}
<1>1. PICK rings : rings = Rings
  OBVIOUS
<1>2. rings[0] = {dest} \cap Allowed /\ \A n \in Nat : rings[n + 1] = Widen[rings[n]]
  BY <1>1, Iterates DEF Rings
<1>3. ASSUME NEW cells, cells \subseteq Allowed
      PROVE  Widen[cells] = cells \cup {c \in Allowed : Neighbours(c) \cap cells # {}}
  <2>1. cells \in SUBSET walkable
    BY <1>3, AllowedCells
  <2> QED BY <2>1 DEF Widen
<1> DEFINE S == {n \in Nat : rings[n] \subseteq Allowed}
<1>4. 0 \in S
  BY <1>2
<1>5. ASSUME NEW n \in Nat, n \in S PROVE n + 1 \in S
  <2>1. rings[n + 1] = rings[n] \cup {c \in Allowed : Neighbours(c) \cap rings[n] # {}}
    BY <1>2, <1>3, <1>5
  <2> QED BY <1>5, <2>1
<1> HIDE DEF S
<1>6. Nat \subseteq S
  BY <1>4, <1>5, Induction
<1>7. \A n \in Nat : rings[n] \subseteq Allowed
  BY <1>6 DEF S
<1> QED BY <1>1, <1>2, <1>3, <1>7

\* A ring holds the smaller ones.
LEMMA RingsNested ==
  ASSUME Placed, NEW n \in Nat
  PROVE  \A m \in Nat : n <= m => Rings[n] \subseteq Rings[m]
<1>1. PICK rings : rings = Rings
  OBVIOUS
<1>2. \A m \in Nat : rings[m] \subseteq rings[m + 1]
  BY <1>1, RingsGrow
<1> DEFINE S == {m \in Nat : n <= m => rings[n] \subseteq rings[m]}
<1>3. 0 \in S
  OBVIOUS
<1>4. ASSUME NEW m \in Nat, m \in S PROVE m + 1 \in S
  <2>1. CASE n = m + 1
    BY <2>1
  <2>2. CASE n # m + 1 /\ n <= m + 1
    <3>1. n <= m
      BY <2>2
    <3> QED BY <1>2, <1>4, <3>1
  <2> QED BY <2>1, <2>2
<1> HIDE DEF S
<1>5. Nat \subseteq S
  BY <1>3, <1>4, Induction
<1> QED BY <1>1, <1>5 DEF S

\* CalH never says more than the steps that are left.
LEMMA Admissible ==
  ASSUME Placed
  PROVE  \A n \in Nat : \A c \in Rings[n] : CalH(c) \in Nat /\ CalH(c) <= n
<1>1. PICK rings : rings = Rings
  OBVIOUS
<1>2. /\ rings[0] = {dest} \cap Allowed
      /\ \A n \in Nat : /\ rings[n] \subseteq Allowed
                        /\ rings[n + 1] = rings[n] \cup {c \in Allowed : Neighbours(c) \cap rings[n] # {}}
  BY <1>1, RingsGrow
<1>3. \A c \in Allowed : c \in Int \X Int /\ CalH(c) \in Nat
  <2>1. TAKE c \in Allowed
  <2>2. c \in Int \X Int /\ dest \in Int \X Int
    BY AllowedCells
  <2> QED BY <2>2, DistanceNat DEF CalH
<1> DEFINE S == {n \in Nat : \A c \in rings[n] : CalH(c) <= n}
<1>4. 0 \in S
  <2>1. dest \in Int \X Int
    BY AllowedCells
  <2>2. CalH(dest) = 0
    BY <2>1, DistanceNat DEF CalH
  <2> QED BY <1>2, <2>2
<1>5. ASSUME NEW n \in Nat, n \in S PROVE n + 1 \in S
  <2>1. ASSUME NEW c \in rings[n + 1] PROVE CalH(c) <= n + 1
    <3>1. CASE c \in rings[n]
      <4>1. CalH(c) <= n /\ CalH(c) \in Nat
        BY <1>2, <1>3, <1>5, <3>1
      <4> QED BY <4>1
    <3>2. CASE c \notin rings[n]
      <4>1. c \in Allowed /\ Neighbours(c) \cap rings[n] # {}
        BY <1>2, <2>1, <3>2
      <4>2. PICK m \in Neighbours(c) : m \in rings[n]
        BY <4>1
      <4>3. m \in Allowed /\ CalH(m) <= n
        BY <1>2, <1>5, <4>2
      <4>4. CalH(c) <= CalH(m) + 1
        <5>1. dest \in Int \X Int /\ c \in Int \X Int /\ m \in Neighbours(c)
          BY <1>3, <4>1, <4>2, AllowedCells
        <5> QED BY <5>1, Beside DEF CalH
      <4>5. CalH(c) \in Nat /\ CalH(m) \in Nat
        BY <1>3, <4>1, <4>3
      <4> QED BY <4>3, <4>4, <4>5
    <3> QED BY <3>1, <3>2
  <2> QED BY <2>1
<1> HIDE DEF S
<1>6. Nat \subseteq S
  BY <1>4, <1>5, Induction
<1> QED BY <1>1, <1>2, <1>3, <1>6 DEF S

\* StepsTo is the number of the first ring that holds the cell; -1 if none does.
LEMMA StepsToIs ==
  ASSUME Placed, NEW c, NEW d \in Nat, d <= Cardinality(Allowed), c \in Rings[d],
         \A n \in 0..(d - 1) : c \notin Rings[n]
  PROVE  StepsTo(c) = d
<1>1. PICK rings : rings = Rings
  OBVIOUS
<1>2. PICK last : last = Cardinality(Allowed)
  OBVIOUS
<1>3. last \in Nat
  BY <1>2, AllowedCells, FS_CardinalityType
<1> DEFINE P(n) == /\ n = last \/ c \in rings[n]
                   /\ n = 0 \/ c \notin rings[n - 1]
           steps == CHOOSE n \in 0..last : P(n)
<1>4. d \in 0..last /\ P(d)
  <2>1. d # 0 => d - 1 \in 0..(d - 1)
    OBVIOUS
  <2> QED BY <1>1, <1>2, <1>3, <2>1
<1>5. ASSUME NEW n \in 0..last, P(n) PROVE n = d
  <2>1. CASE n < d
    <3>1. c \notin rings[n]
      BY <1>1, <2>1
    <3> QED BY <1>2, <1>3, <1>5, <2>1, <3>1
  <2>2. CASE d < n
    <3>1. n - 1 \in Nat /\ d <= n - 1
      BY <2>2
    <3>2. rings[d] \subseteq rings[n - 1]
      BY <1>1, <3>1, RingsNested
    <3> QED BY <1>1, <1>5, <2>2, <3>2
  <2> QED BY <2>1, <2>2
<1>6. steps \in 0..last /\ P(steps)
  BY <1>4
<1>7. steps = d
  BY <1>5, <1>6
<1>8. StepsTo(c) = IF c \in rings[steps] THEN steps ELSE -1
  BY <1>1, <1>2 DEF StepsTo
<1> QED BY <1>1, <1>7, <1>8

LEMMA StepsToNone ==
  ASSUME Placed, NEW c, \A n \in Nat : c \notin Rings[n]
  PROVE  StepsTo(c) = -1
<1>1. PICK rings : rings = Rings
  OBVIOUS
<1>2. PICK last : last = Cardinality(Allowed)
  OBVIOUS
<1>3. last \in Nat
  BY <1>2, AllowedCells, FS_CardinalityType
<1> DEFINE P(n) == /\ n = last \/ c \in rings[n]
                   /\ n = 0 \/ c \notin rings[n - 1]
           steps == CHOOSE n \in 0..last : P(n)
<1>4. last \in 0..last /\ P(last)
  <2>1. last # 0 => last - 1 \in Nat
    BY <1>3
  <2> QED BY <1>1, <1>3, <2>1
<1>5. steps \in 0..last
  BY <1>4
<1>6. c \notin rings[steps]
  BY <1>1, <1>3, <1>5
<1>7. StepsTo(c) = IF c \in rings[steps] THEN steps ELSE -1
  BY <1>1, <1>2 DEF StepsTo
<1> QED BY <1>6, <1>7

LEMMA StepsToSome ==
  ASSUME Placed, NEW c, NEW d \in Nat, StepsTo(c) = d
  PROVE  c \in Rings[d]
<1>1. PICK rings : rings = Rings
  OBVIOUS
<1>2. PICK last : last = Cardinality(Allowed)
  OBVIOUS
<1> DEFINE P(n) == /\ n = last \/ c \in rings[n]
                   /\ n = 0 \/ c \notin rings[n - 1]
           steps == CHOOSE n \in 0..last : P(n)
<1>3. StepsTo(c) = IF c \in rings[steps] THEN steps ELSE -1
  BY <1>1, <1>2 DEF StepsTo
<1> HIDE DEF steps
<1>4. d # -1
  OBVIOUS
<1> QED BY <1>1, <1>3, <1>4
-----------------------------------------------------------------------------
\* What is left to do from a closed cell is at least as much as the queue says.
LEMMA Potential ==
  ASSUME Placed, ArraysOK(node, closed, open), Begun, Guided(node, closed, open),
         NEW L \in Nat, \A e \in open : L <= e.f
  PROVE  \A n \in Nat : \A c \in Rings[n] \cap Window :
           Index(c) \in closed => L <= node[Index(c)].g + n
<1>1. PICK rings : rings = Rings
  OBVIOUS
<1>2. /\ rings[0] = {dest} \cap Allowed
      /\ \A n \in Nat : /\ rings[n] \subseteq Allowed
                        /\ rings[n + 1] = rings[n] \cup {c \in Allowed : Neighbours(c) \cap rings[n] # {}}
  BY <1>1, RingsGrow
<1>3. \A n \in Nat : \A c \in rings[n] : CalH(c) \in Nat /\ CalH(c) <= n
  BY <1>1, Admissible
<1>4. NodesOK(node, closed) /\ closed \subseteq Written(node)
  BY DEF ArraysOK, NodesOK
<1>5. \A m \in Written(node) : m \in Memory /\ node[m].g \in Nat /\ node[m].f \in Nat
  BY <1>4, NodeTypes
<1>6. /\ Weighed(node) /\ Queued(node, closed, open) /\ Relaxed(node, closed) /\ Unfound(node)
  BY DEF Guided
<1> DEFINE S == {n \in Nat : \A c \in rings[n] \cap Window : Index(c) \in closed => L <= node[Index(c)].g + n}
<1>7. 0 \in S
  BY <1>2, <1>4, <1>6 DEF Unfound
<1>8. ASSUME NEW n \in Nat, n \in S PROVE n + 1 \in S
  <2>1. ASSUME NEW c \in rings[n + 1] \cap Window, Index(c) \in closed
        PROVE  L <= node[Index(c)].g + (n + 1)
    <3>1. PICK g \in Nat : g = node[Index(c)].g
      BY <1>4, <1>5, <2>1
    <3>2. CASE c \in rings[n]
      <4>1. L <= g + n
        BY <1>8, <2>1, <3>1, <3>2
      <4> QED BY <3>1, <4>1
    <3>3. CASE c \notin rings[n]
      <4>1. c \in Allowed /\ Neighbours(c) \cap rings[n] # {}
        BY <1>2, <2>1, <3>3
      <4>2. PICK m \in Neighbours(c) : m \in rings[n]
        BY <4>1
      <4>3. m \in Allowed /\ CalH(m) \in Nat /\ CalH(m) <= n
        BY <1>2, <1>3, <4>2
      <4>4. m \in Window /\ Index(m) \in Written(node) /\ node[Index(m)].g <= g + 1
        <5>1. m \in Neighbours(c)
          BY <4>2
        <5>2. Reached(node, c, m)
          BY <1>6, <2>1, <5>1 DEF Relaxed
        <5> QED BY <3>1, <4>3, <5>2 DEF Reached
      <4>5. node[Index(m)].g \in Nat
        BY <1>5, <4>4
      <4>6. CASE Index(m) \in closed
        <5>1. L <= node[Index(m)].g + n
          BY <1>8, <4>2, <4>4, <4>6
        <5> QED BY <3>1, <4>4, <4>5, <5>1
      <4>7. CASE Index(m) \notin closed
        <5>1. m # dest
          BY <1>6, <4>4 DEF Unfound
        <5>2. m # Start
          BY <2>1, <4>7 DEF Begun
        <5>3. [f |-> node[Index(m)].f, at |-> m] \in open
          BY <1>6, <4>4, <4>7, <5>1 DEF Queued
        <5>4. L <= node[Index(m)].f
          BY <5>3
        <5>5. node[Index(m)].f = node[Index(m)].g + CalH(m)
          BY <1>6, <4>4, <5>1, <5>2 DEF Weighed
        <5> QED BY <3>1, <4>3, <4>4, <4>5, <5>4, <5>5
      <4> QED BY <4>6, <4>7
    <3> QED BY <3>2, <3>3
  <2> QED BY <2>1
<1> HIDE DEF S
<1>9. Nat \subseteq S
  BY <1>7, <1>8, Induction
<1> QED BY <1>1, <1>9 DEF S

\* When the queue is empty there is no way.
LEMMA NoWay ==
  ASSUME Placed, ArraysOK(node, closed, open), Begun, Guided(node, closed, open), open = {}
  PROVE  StepsTo(Start) = -1
<1>a. Index(Start) \in closed
  BY DEF Begun
<1>b. node[Index(Start)].g = 0
  BY DEF ArraysOK, NodesOK
<1>1. Index(Start) \in closed /\ node[Index(Start)].g = 0
  BY <1>a, <1>b
<1>2. ASSUME NEW n \in Nat, Start \in Rings[n] PROVE FALSE
  <2>1. n + 1 \in Nat /\ \A e \in open : n + 1 <= e.f
    OBVIOUS
  <2>2. Start \in Rings[n] \cap Window
    BY <1>2, Sides
  <2>3. n + 1 <= node[Index(Start)].g + n
    BY <1>1, <2>1, <2>2, Potential
  <2> QED BY <1>1, <2>3
<1> QED BY <1>2, StepsToNone

-----------------------------------------------------------------------------
\* There are no more closed nodes than allowed cells.
LEMMA ClosedCells ==
  ASSUME Placed, NEW nodes, NEW shut, NodesOK(nodes, shut)
  PROVE  Cardinality(shut) \in Nat /\ Cardinality(shut) <= Cardinality(Allowed)
<1> DEFINE Cells == {c \in Allowed : Index(c) \in shut}
           at == [c \in Cells |-> Index(c)]
<1>1. IsFiniteSet(Allowed)
  BY AllowedCells
<1>2. IsFiniteSet(Cells) /\ Cardinality(Cells) <= Cardinality(Allowed)
  BY <1>1, FS_Subset
<1>3. at \in Surjection(Cells, shut)
  BY DEF NodesOK, Surjection
<1> HIDE DEF Cells, at
<1>4. IsFiniteSet(shut) /\ Cardinality(shut) <= Cardinality(Cells)
  BY <1>2, <1>3, FS_Surjection
<1>5. Cardinality(shut) \in Nat /\ Cardinality(Cells) \in Nat /\ Cardinality(Allowed) \in Nat
  BY <1>1, <1>2, <1>4, FS_CardinalityType
<1> QED BY <1>2, <1>4, <1>5

\* The walk back is a way through the window.
LEMMA WayBack ==
  ASSUME Placed, NEW s, NEW c, Looking(s, c), Linked(s.node), dest \in Window, dest \in Allowed,
         Index(dest) \notin closed \cup {Index(c)},
         NEW trail, NEW g, Walked(s, c, trail, g)
  PROVE  \A n \in 0..g : /\ trail[n] \in Rings[n] \cap Window
                         /\ n # g => trail[n] \in Neighbours(trail[n + 1])
<1>1. PICK rings : rings = Rings
  OBVIOUS
<1>2. /\ rings[0] = {dest} \cap Allowed
      /\ \A n \in Nat : rings[n + 1] = rings[n] \cup {d \in Allowed : Neighbours(d) \cap rings[n] # {}}
  BY <1>1, RingsGrow
<1>3. /\ g \in Nat /\ g >= 1 /\ trail[0] = dest
      /\ \A n \in 1..g : Held(s.node, trail[n]) /\ s.node[Index(trail[n])].g = g - n
      /\ \A n \in 0..g : /\ Index(trail[n]) \in Written(s.node)
                         /\ trail[n + 1] = s.node[Index(trail[n])].parent
  BY DEF Walked
<1>4. s.node[Index(Start)].g = 0 /\ Index(Start) \in closed \cup {Index(c)}
  BY DEF Looking, ArraysOK, NodesOK
<1>5. ASSUME NEW n \in 0..(g - 1) PROVE Index(trail[n]) # Index(Start)
  <2>1. CASE n = 0
    BY <1>3, <1>4, <2>1
  <2>2. CASE n # 0
    <3>1. n \in 1..g /\ g - n # 0
      BY <1>3, <2>2
    <3> QED BY <1>3, <1>4, <3>1
  <2> QED BY <2>1, <2>2
<1> DEFINE S == {n \in Nat : n <= g => trail[n] \in rings[n] \cap Window}
<1>6. 0 \in S
  BY <1>2, <1>3
<1>7. ASSUME NEW n \in 0..(g - 1), trail[n] \in Window
      PROVE  trail[n] \in Neighbours(trail[n + 1]) /\ trail[n + 1] \in Window
  <2>1. n \in 0..g
    BY <1>3
  <2>2. Index(trail[n]) \in Written(s.node) \ {Index(Start)}
    BY <1>3, <1>5, <2>1
  <2>3. /\ s.node[Index(trail[n])].parent \in Window
        /\ trail[n] \in Neighbours(s.node[Index(trail[n])].parent)
    BY <1>7, <2>2 DEF Linked
  <2> QED BY <1>3, <2>1, <2>3
<1>8. ASSUME NEW n \in Nat, n \in S PROVE n + 1 \in S
  <2>1. SUFFICES ASSUME n + 1 <= g PROVE trail[n + 1] \in rings[n + 1] \cap Window
    OBVIOUS
  <2>2. n \in 0..(g - 1) /\ n + 1 \in 1..g /\ trail[n] \in rings[n] \cap Window
    BY <1>3, <1>8, <2>1
  <2>3. trail[n] \in Neighbours(trail[n + 1]) /\ trail[n + 1] \in Window
    BY <1>7, <2>2
  <2>4. trail[n + 1] \in Allowed
    BY <1>3, <2>2 DEF Held
  <2> QED BY <1>2, <2>2, <2>3, <2>4
<1> HIDE DEF S
<1>9. Nat \subseteq S
  BY <1>6, <1>8, Induction
<1>10. ASSUME NEW n \in 0..g PROVE trail[n] \in rings[n] \cap Window
  <2>1. n \in S /\ n <= g
    BY <1>3, <1>9
  <2> QED BY <2>1 DEF S
<1>11. ASSUME NEW n \in 0..g, n # g PROVE trail[n] \in Neighbours(trail[n + 1])
  <2>1. n \in 0..(g - 1)
    BY <1>3, <1>11
  <2> QED BY <1>7, <1>10, <2>1
<1> QED BY <1>1, <1>10, <1>11

\* No way is shorter than the one that is found.
LEMMA NoShorter ==
  ASSUME Placed, ArraysOK(node, closed, open), Begun, Guided(node, closed, open),
         NEW e \in open, Lightest(e), Taken(e), dest \in Neighbours(e.at),
         NEW n \in Nat, Start \in Rings[n]
  PROVE  node[Index(e.at)].g + 1 <= n
<1> DEFINE c == e.at
<1>1. NodesOK(node, closed) /\ Held(node, c) /\ node[Index(Start)].g = 0
  BY DEF ArraysOK, QueueOK, NodesOK
<1>2. node[Index(c)].g \in Nat /\ c \in Int \X Int /\ dest \in Int \X Int
  BY <1>1, NodeTypes, AllowedCells DEF Held
<1> HIDE DEF c
<1>3. CASE c = Start
  <2>1. n # 0
    BY RingsGrow DEF Placed
  <2> QED BY <1>1, <1>3, <2>1 DEF c
<1>4. CASE c # Start
  <2>1. c \in Window /\ node[Index(c)].f = e.f
    BY DEF Taken, c
  <2>2. c # dest
    BY <1>2, Beside DEF c
  <2>3. Index(Start) \in closed
    BY <1>4 DEF Begun, c
  <2>4. e.f = node[Index(c)].g + CalH(c)
    BY <1>1, <1>4, <2>1, <2>2 DEF Guided, Weighed, Held
  <2>5. CalH(c) \in Nat /\ CalH(c) # 0
    BY <1>2, <2>2, DistanceNat DEF CalH
  <2>6. node[Index(c)].g + 1 \in Nat /\ \A d \in open : node[Index(c)].g + 1 <= d.f
    <3>1. node[Index(c)].g + 1 <= e.f /\ e.f \in Nat
      BY <1>2, <2>4, <2>5
    <3>2. \A d \in open : e.f <= d.f /\ d.f \in Nat
      BY DEF Lightest, ArraysOK, QueueOK
    <3> QED BY <1>2, <3>1, <3>2
  <2>7. Start \in Rings[n] \cap Window
    BY Sides
  <2>8. node[Index(c)].g + 1 <= node[Index(Start)].g + n
    BY <2>3, <2>6, <2>7, Potential
  <2> QED BY <1>1, <1>2, <2>8 DEF c
<1> QED BY <1>3, <1>4

\* The step that is found is the first of a shortest way.
LEMMA Optimal ==
  ASSUME Placed, ArraysOK(node, closed, open), Begun, spilled \in BOOLEAN,
         ~spilled => Guided(node, closed, open),
         NEW e \in open, Lightest(e), NEW luck \in BOOLEAN,
         NEW after, after = Expanded(e, luck), ~after.spilled, after.end = "dest",
         FindNextStep(after.node), NEW next, next = step'
  PROVE  StepsTo(next) = StepsTo(Start) - 1
<1> DEFINE c == e.at
<1>1. Index(c) \notin closed
  <2>1. SUFFICES ASSUME Index(e.at) \in closed PROVE FALSE
    OBVIOUS
  <2>2. after.end = "no"
    BY <2>1, ExpandedStale
  <2> QED BY <2>2
<1>2. Taken(e) /\ ~spilled /\ GuidedLooking(after, c)
  BY <1>1, ExpandedFresh
<1>3. Looking(after, c)
  <2>1. 4 \in 0..4 /\ after = Looks(e, luck, 4)
    BY LooksAre
  <2> QED BY <2>1, LooksLooking
<1>4. Guided(node, closed, open)
  BY <1>2
<1>5. /\ dest \in Neighbours(c) /\ dest \in Allowed /\ dest \in Window
      /\ Index(dest) \notin closed \cup {Index(c)} /\ Linked(after.node)
      /\ after.node[Index(c)] = node[Index(c)]
  BY <1>2, <1>3 DEF Looking, GuidedLooking
<1>6. PICK g : g = Steps(after, c)
  OBVIOUS
<1>7. PICK trail : trail = Trail(after.node)
  OBVIOUS
<1>8. Walked(after, c, trail, g) /\ next = trail[g - 1]
  BY <1>3, <1>6, <1>7, WalkBack, StepFound
<1>9. g \in Nat /\ g >= 1 /\ trail[g] = Start /\ g <= Cardinality(closed \cup {Index(c)})
  BY <1>8 DEF Walked
<1>10. g = node[Index(c)].g + 1
  BY <1>5, <1>6 DEF Steps
<1>11. Cardinality(closed \cup {Index(c)}) \in Nat /\ Cardinality(Allowed) \in Nat
       /\ g <= Cardinality(Allowed)
  <2>1. NodesOK(after.node, closed \cup {Index(c)})
    BY <1>3 DEF Looking, ArraysOK
  <2>2. Cardinality(Allowed) \in Nat
    BY AllowedCells, FS_CardinalityType
  <2>3. /\ Cardinality(closed \cup {Index(c)}) \in Nat
        /\ Cardinality(closed \cup {Index(c)}) <= Cardinality(Allowed)
    BY <2>1, ClosedCells
  <2> QED BY <1>9, <2>2, <2>3
<1>12. \A n \in 0..g : /\ trail[n] \in Rings[n] \cap Window
                       /\ n # g => trail[n] \in Neighbours(trail[n + 1])
  BY <1>3, <1>5, <1>8, WayBack
<1>13. \A n \in Nat : Start \in Rings[n] => g <= n
  BY <1>2, <1>4, <1>5, <1>10, NoShorter
<1>14. StepsTo(Start) = g
  <2>1. Start \in Rings[g]
    BY <1>9, <1>12
  <2>2. \A n \in 0..(g - 1) : Start \notin Rings[n]
    BY <1>9, <1>13
  <2> QED BY <1>9, <1>11, <2>1, <2>2, StepsToIs
<1>15. StepsTo(next) = g - 1
  <2>1. g - 1 \in 0..g /\ g - 1 \in Nat /\ g - 1 # g /\ (g - 1) + 1 = g
    BY <1>9
  <2>2. next \in Rings[g - 1] /\ next \in Neighbours(Start)
    BY <1>8, <1>9, <1>12, <2>1
  <2>3. ASSUME NEW n \in 0..(g - 1 - 1), next \in Rings[n] PROVE FALSE
    <3>1. n \in Nat /\ n + 1 \in Nat /\ ~(g <= n + 1)
      BY <1>9, <2>3
    <3>2. Start \in Rings[n + 1]
      <4>1. Start \in Allowed
        BY AllowedCells
      <4>2. Neighbours(Start) \cap Rings[n] # {}
        BY <2>2, <2>3
      <4> QED BY <3>1, <4>1, <4>2, RingsGrow
    <3> QED BY <1>13, <3>1, <3>2
  <2> QED BY <1>9, <1>11, <2>1, <2>2, <2>3, StepsToIs
<1> QED BY <1>14, <1>15

-----------------------------------------------------------------------------
\* The player is inside the window, and no obstacle makes the way to him longer.
Straight ==
  /\ \A i \in {1, 2} : dest[i] \in 1..(Side - 2)
  /\ StepsTo(Start) = Distance(Start, dest)

\* A cell on a straight way between two cells of a square is in the square.
LEMMA Between ==
  ASSUME NEW a \in Int \X Int, NEW c \in Int \X Int, NEW d \in Int \X Int,
         Distance(a, c) + Distance(c, d) <= Distance(a, d),
         NEW l \in Int, NEW u \in Int,
         \A i \in {1, 2} : a[i] \in l..u /\ d[i] \in l..u
  PROVE  \A i \in {1, 2} : c[i] \in l..u
<1>1. PICK ax \in Int, ay \in Int : a = <<ax, ay>>
  OBVIOUS
<1>2. PICK cx \in Int, cy \in Int : c = <<cx, cy>>
  OBVIOUS
<1>3. PICK dx \in Int, dy \in Int : d = <<dx, dy>>
  OBVIOUS
<1>4. ax \in l..u /\ ay \in l..u /\ dx \in l..u /\ dy \in l..u
  BY <1>1, <1>3
<1>5. cx \in l..u /\ cy \in l..u
  BY <1>1, <1>2, <1>3, <1>4 DEF Distance
<1> QED BY <1>2, <1>5

\* A cell that is expanded lies between the monster and the player.
LEMMA PoppedBetween ==
  ASSUME Placed, ArraysOK(node, closed, open), Begun, Guided(node, closed, open), Straight,
         NEW e \in open, Lightest(e)
  PROVE  Neighbours(e.at) \subseteq Window
<1> DEFINE c == e.at
<1>1. /\ NodesOK(node, closed) /\ Held(node, c) /\ node[Index(Start)].g = 0 /\ e.f \in Nat
      /\ \A d \in open : d.f \in Nat
  BY DEF ArraysOK, QueueOK, NodesOK
<1>2. c \in Int \X Int /\ dest \in Int \X Int /\ Start \in Int \X Int
  BY <1>1, AllowedCells DEF Held
<1>3. PICK D \in Nat : D = Distance(Start, dest)
  BY <1>2, DistanceNat
<1>4. Start \in Rings[D] \cap Window
  BY <1>3, StepsToSome, Sides DEF Straight
<1>5. e.f <= D
  <2>1. CASE closed = {}
    BY <2>1 DEF Begun
  <2>2. CASE closed # {}
    <3>1. Index(Start) \in closed
      BY <2>2 DEF Begun
    <3>2. \A d \in open : e.f <= d.f
      BY DEF Lightest
    <3>3. e.f <= node[Index(Start)].g + D
      BY <1>1, <1>4, <3>1, <3>2, Potential
    <3> QED BY <1>1, <3>3
  <2> QED BY <2>1, <2>2
<1>6. c \in Window /\ node[Index(c)].f <= e.f /\ Index(c) \in Written(node)
  BY <1>1 DEF Guided, Entered, Held
<1>7. \A i \in {1, 2} : Start[i] \in 1..(Side - 2) /\ dest[i] \in 1..(Side - 2)
  BY Sides DEF Straight, Start
<1>8. \A i \in {1, 2} : c[i] \in 1..(Side - 2)
  <2>1. CASE c = Start
    BY <1>7, <2>1
  <2>2. CASE c # Start
    <3>1. c # dest
      BY <1>6 DEF Guided, Unfound
    <3>2. /\ node[Index(c)].f = node[Index(c)].g + CalH(c)
          /\ Distance(Start, c) <= node[Index(c)].g
      BY <1>6, <2>2, <3>1 DEF Guided, Weighed
    <3>3. node[Index(c)].g \in Nat /\ node[Index(c)].f \in Nat
      BY <1>1, <1>6, NodeTypes
    <3>4. CalH(c) = Distance(c, dest) /\ Distance(c, dest) \in Nat /\ Distance(Start, c) \in Nat
      BY <1>2, DistanceNat DEF CalH
    <3> HIDE DEF c
    <3>5. Distance(Start, c) + Distance(c, dest) <= Distance(Start, dest)
      BY <1>1, <1>3, <1>5, <1>6, <3>2, <3>3, <3>4
    <3>6. 1 \in Int /\ Side - 2 \in Int
      BY Sides
    <3> QED BY <1>2, <1>7, <3>5, <3>6, Between
  <2> QED BY <2>1, <2>2
<1>9. ASSUME NEW n \in Neighbours(c) PROVE n \in Window
  <2>1. n \in Int \X Int /\ \A i \in {1, 2} : n[i] - c[i] \in -1..1
    BY <1>2, Beside
  <2>2. \A i \in {1, 2} : n[i] \in 0..(Side - 1)
    <3> HIDE DEF c
    <3> QED BY <1>2, <1>8, <2>1, Sides
  <2> QED BY <2>1, <2>2 DEF Window
<1> QED BY <1>9

\* A search for a player straight ahead looks at nothing past the window.
LEMMA NoSpill ==
  ASSUME Placed, ArraysOK(node, closed, open), Begun, Guided(node, closed, open), Straight,
         spilled = FALSE, NEW e \in open, Lightest(e), NEW luck \in BOOLEAN
  PROVE  ~Expanded(e, luck).spilled
<1>1. Neighbours(e.at) \subseteq Window
  BY PoppedBetween
<1>2. ASSUME NEW i \in 0..3, ~Looks(e, luck, i).spilled PROVE ~Looks(e, luck, i + 1).spilled
  <2>1. PICK s : s = Looks(e, luck, i)
    OBVIOUS
  <2>2. PICK n : n = Around(e.at)[i + 1]
    OBVIOUS
  <2>3. PICK t : t = Visit(s, e.at, n, luck)
    OBVIOUS
  <2>4. t = Looks(e, luck, i + 1)
    BY <2>1, <2>2, <2>3, LooksAre
  <2>5. Looking(s, e.at)
    <3>1. i \in 0..4
      OBVIOUS
    <3>2. spilled \in BOOLEAN
      OBVIOUS
    <3> QED BY <2>1, <3>1, <3>2, LooksLooking
  <2>6. n \in Neighbours(e.at)
    <3>1. i + 1 \in 1..4
      OBVIOUS
    <3> QED BY <2>2, <3>1, AroundBeside
  <2>7. CASE s.end # "no"
    <3>1. t = s
      BY <2>3, <2>5, <2>6, <2>7, VisitDoes
    <3> QED BY <1>2, <2>1, <2>4, <3>1
  <2>8. CASE s.end = "no"
    <3>1. t.spilled = (s.spilled \/ (n[1] >= 0 /\ n[2] >= 0 /\ n \in walkable \ Window))
      BY <2>3, <2>5, <2>6, <2>8, VisitDoes
    <3>2. n \notin walkable \ Window /\ ~s.spilled
      BY <1>1, <1>2, <2>1, <2>6
    <3> QED BY <2>4, <3>1, <3>2
  <2> QED BY <2>7, <2>8
<1>3. ~Looks(e, luck, 0).spilled
  BY LooksAre
<1>4. ~Looks(e, luck, 0 + 1).spilled
  BY <1>2, <1>3
<1>5. ~Looks(e, luck, 1 + 1).spilled
  BY <1>2, <1>4
<1>6. ~Looks(e, luck, 2 + 1).spilled
  BY <1>2, <1>5
<1>7. ~Looks(e, luck, 3 + 1).spilled
  BY <1>2, <1>6
<1> QED BY <1>7, LooksAre
-----------------------------------------------------------------------------
\* Everything the search knows follows from the maze, the player's cell and the arrays.
LEMMA SameMaze ==
  ASSUME walkable' = walkable, dest' = dest
  PROVE  /\ Placed' <=> Placed
         /\ Straight' <=> Straight
         /\ \A c : StepsTo(c)' = StepsTo(c)
<1>1. Allowed' = Allowed
  BY DEF Allowed
<1>2. Widen' = Widen
  BY <1>1 DEF Widen
<1>3. Rings' = Rings
  BY <1>1, <1>2 DEF Rings
<1>4. \A c : StepsTo(c)' = StepsTo(c)
  BY <1>1, <1>3 DEF StepsTo
<1>5. Placed' <=> Placed
  BY DEF Placed
<1>6. Straight' <=> Straight
  BY <1>4 DEF Straight
<1> QED BY <1>4, <1>5, <1>6

LEMMA SameArrays ==
  ASSUME walkable' = walkable, dest' = dest,
         NEW nodes, NEW shut, NEW queue, node' = nodes, closed' = shut, open' = queue
  PROVE  /\ ArraysOK(nodes, shut, queue) => ArraysOK(node, closed, open)'
         /\ Guided(nodes, shut, queue) => Guided(node, closed, open)'
<1>1. Allowed' = Allowed
  BY DEF Allowed
<1>2. \A c : CalH(c)' = CalH(c)
  BY DEF CalH
<1>3. ArraysOK(nodes, shut, queue) => ArraysOK(node, closed, open)'
  BY <1>1 DEF ArraysOK, NodesOK, Tree, Bounded, QueueOK, Held
<1>4. Weighed(nodes) => Weighed(node)'
  BY <1>2 DEF Weighed
<1>5. /\ Entered(nodes, queue) => Entered(node, open)'
      /\ Queued(nodes, shut, queue) => Queued(node, closed, open)'
      /\ Ordered(nodes, shut, queue) => Ordered(node, closed, open)'
      /\ Unfound(nodes) => Unfound(node)'
  BY DEF Entered, Queued, Ordered, Unfound
<1>6. /\ Relaxed(nodes, shut) => Relaxed(node, closed)'
      /\ Linked(nodes) => Linked(node)'
  BY <1>1 DEF Relaxed, Linked, Reached
<1>7. Guided(nodes, shut, queue) => Guided(node, closed, open)'
  BY <1>4, <1>5, <1>6 DEF Guided
<1> QED BY <1>3, <1>7

-----------------------------------------------------------------------------
\* The inductive invariant of the search.
SearchInv ==
  /\ Placed
  /\ ArraysOK(node, closed, open) /\ Begun
  /\ spilled \in BOOLEAN
  /\ outcome \in {"searching", "found", "none", "wild"}
  /\ step \in walkable
  /\ outcome = "searching" /\ ~spilled => Guided(node, closed, open)
  /\ outcome = "found" => step \in Neighbours(Start)
  /\ outcome = "found" /\ ~spilled => StepsTo(step) = StepsTo(Start) - 1
  /\ outcome = "none" /\ ~spilled => StepsTo(Start) = -1
  /\ Straight => ~spilled

LEMMA SearchInvInit == SearchInit => SearchInv
<1> SUFFICES ASSUME SearchInit PROVE SearchInv
  OBVIOUS
<1>1. Placed
  BY DEF SearchInit, Placed
<1>2. /\ node = [m \in Memory |-> IF m = Index(Start) THEN [f |-> 0, g |-> 0, parent |-> Start] ELSE Unset]
      /\ closed = {} /\ open = {[f |-> 0, at |-> Start]} /\ spilled = FALSE
      /\ outcome = "searching" /\ step = Start
  BY DEF SearchInit
<1>3. Start \in Window /\ Index(Start) \in Memory /\ Start \in Allowed /\ Start \in walkable
  BY <1>1, Sides, IndexWindow, AllowedCells DEF Placed
<1>4. /\ node[Index(Start)] = [f |-> 0, g |-> 0, parent |-> Start] /\ node[Index(Start)] # Unset
      /\ \A m \in Memory : m # Index(Start) => node[m] = Unset
  BY <1>2, <1>3 DEF Unset
<1>5. Written(node) = {Index(Start)}
  BY <1>3, <1>4 DEF Written
<1>6. NodesOK(node, closed)
  <2>1. [f |-> 0, g |-> 0, parent |-> Start] \in [f : Nat, g : Nat, parent : Allowed]
    BY <1>3
  <2>2. node \in [Memory -> [f : Nat, g : Nat, parent : Allowed] \cup {Unset}]
    BY <1>2, <2>1
  <2> QED BY <1>2, <1>4, <2>2 DEF NodesOK
<1>7. Tree(node, closed)
  BY <1>5 DEF Tree
<1>8. Bounded(node, closed)
  <2>1. Cardinality(closed) = 0
    BY <1>2, FS_EmptySet
  <2> QED BY <1>2, <1>4, <1>5, <2>1 DEF Bounded
<1>9. QueueOK(node, open)
  BY <1>2, <1>3, <1>5 DEF QueueOK, Held
<1>10. Begun
  BY <1>2, <1>5 DEF Begun
<1>11. \A c \in Window : Index(c) = Index(Start) => c = Start
  BY <1>3, IndexInjective
<1>12. Guided(node, closed, open)
  <2>1. Weighed(node)
    <3>1. Start \in Int \X Int
      BY <1>1, <1>3, AllowedCells
    <3>2. Distance(Start, Start) = 0
      BY <3>1, DistanceNat
    <3>3. ASSUME NEW c \in Window, Index(c) \in Written(node) PROVE c = Start
      BY <1>5, <1>11, <3>3
    <3>4. node[Index(Start)].g = 0
      BY <1>4
    <3>5. Distance(Start, Start) <= node[Index(Start)].g
      BY <3>2, <3>4
    <3> QED BY <3>3, <3>5 DEF Weighed
  <2>2. Entered(node, open)
    BY <1>2, <1>3, <1>4 DEF Entered
  <2>3. Queued(node, closed, open)
    BY <1>2, <1>4, <1>5, <1>11 DEF Queued
  <2>4. Relaxed(node, closed) /\ Ordered(node, closed, open)
    BY <1>2 DEF Relaxed, Ordered
  <2>5. Linked(node)
    BY <1>5 DEF Linked
  <2>6. Unfound(node)
    BY <1>1, <1>5, <1>11 DEF Unfound, Placed
  <2> QED BY <2>1, <2>2, <2>3, <2>4, <2>5, <2>6 DEF Guided
<1> QED BY <1>1, <1>2, <1>3, <1>6, <1>7, <1>8, <1>9, <1>10, <1>12 DEF SearchInv, ArraysOK

\* The expansion of one cell keeps the invariant.
LEMMA PopKeeps ==
  ASSUME SearchInv, outcome = "searching", walkable' = walkable, dest' = dest,
         NEW e \in open, NEW luck \in BOOLEAN, Pop(e, luck)
  PROVE  SearchInv'
<1>1. /\ Placed /\ ArraysOK(node, closed, open) /\ Begun /\ spilled \in BOOLEAN
      /\ step \in walkable /\ (~spilled => Guided(node, closed, open)) /\ (Straight => ~spilled)
  BY DEF SearchInv
<1>2. Lightest(e) /\ closed' = closed \cup {Index(e.at)}
  BY DEF Pop
<1>3. PICK after : /\ after = Expanded(e, luck)
                   /\ node' = after.node /\ open' = after.open /\ spilled' = after.spilled
                   /\ CASE after.end = "no" -> UNCHANGED <<outcome, step>>
                        [] after.end = "wild" -> outcome' = "wild" /\ UNCHANGED step
                        [] after.end = "dest" -> FindNextStep(after.node)
  BY DEF Pop
<1>4. Looking(after, e.at)
  <2>1. 4 \in 0..4 /\ after = Looks(e, luck, 4)
    BY <1>3, LooksAre
  <2> QED BY <1>1, <2>1, LooksLooking
<1>5. after.spilled \in BOOLEAN /\ after.end \in {"no", "wild", "dest"}
  BY <1>4 DEF Looking
<1>6. Placed' /\ (Straight' <=> Straight) /\ \A c : StepsTo(c)' = StepsTo(c)
  BY <1>1, SameMaze
<1>7. ArraysOK(node, closed, open)'
  <2>1. ArraysOK(after.node, closed \cup {Index(e.at)}, after.open)
    BY <1>4 DEF Looking
  <2>2. PICK nodes, shut, queue : nodes = after.node /\ shut = closed \cup {Index(e.at)} /\ queue = after.open
    OBVIOUS
  <2>3. ArraysOK(nodes, shut, queue) /\ node' = nodes /\ closed' = shut /\ open' = queue
    BY <1>2, <1>3, <2>1, <2>2
  <2> QED BY <2>3, SameArrays
<1>8. Begun'
  <2>1. Index(Start) \in closed' /\ \A d \in open' : d.at # Start
    BY <1>2, <1>3, <1>4 DEF Looking
  <2> QED BY <2>1 DEF Begun
<1>9. Straight' => ~spilled'
  <2>1. SUFFICES ASSUME Straight PROVE ~after.spilled
    BY <1>3, <1>6
  <2>2. spilled = FALSE /\ Guided(node, closed, open)
    BY <1>1, <2>1
  <2> QED BY <1>1, <1>2, <1>3, <2>1, <2>2, NoSpill
<1>10. CASE after.end = "no"
  <2>1. outcome' = "searching" /\ step' = step
    BY <1>3, <1>10
  <2>2. ~spilled' => Guided(node, closed, open)'
    <3>1. SUFFICES ASSUME ~after.spilled PROVE Guided(node, closed, open)'
      BY <1>3
    <3>2. Guided(after.node, closed \cup {Index(e.at)}, after.open)
      <4>1. CASE Index(e.at) \in closed
        BY <1>1, <1>3, <3>1, <4>1, ExpandedStale
      <4>2. CASE Index(e.at) \notin closed
        BY <1>1, <1>2, <1>3, <1>10, <3>1, <4>2, ExpandedFresh
      <4> QED BY <4>1, <4>2
    <3>3. PICK nodes, shut, queue : nodes = after.node /\ shut = closed \cup {Index(e.at)} /\ queue = after.open
      OBVIOUS
    <3>4. Guided(nodes, shut, queue) /\ node' = nodes /\ closed' = shut /\ open' = queue
      BY <1>2, <1>3, <3>2, <3>3
    <3> QED BY <3>4, SameArrays
  <2> QED BY <1>1, <1>3, <1>5, <1>6, <1>7, <1>8, <1>9, <2>1, <2>2 DEF SearchInv
<1>11. CASE after.end = "wild"
  <2>1. outcome' = "wild" /\ step' = step
    BY <1>3, <1>11
  <2> QED BY <1>1, <1>3, <1>5, <1>6, <1>7, <1>8, <1>9, <2>1 DEF SearchInv
<1>12. CASE after.end = "dest"
  <2>1. FindNextStep(after.node)
    BY <1>3, <1>12
  <2>2. outcome' = "found" /\ step' \in Neighbours(Start) \cap walkable
    BY <1>1, <1>4, <1>12, <2>1, StepBeside
  <2>3. ~spilled' => StepsTo(step)' = StepsTo(Start)' - 1
    <3>1. SUFFICES ASSUME ~after.spilled PROVE StepsTo(step)' = StepsTo(Start)' - 1
      BY <1>3
    <3>2. PICK next : next = step'
      OBVIOUS
    <3>3. StepsTo(next) = StepsTo(Start) - 1
      BY <1>1, <1>2, <1>3, <1>12, <2>1, <3>1, <3>2, Optimal
    <3>4. StepsTo(next)' = StepsTo(step)'
      BY <3>2
    <3> QED BY <1>6, <3>3, <3>4
  <2> QED BY <1>1, <1>3, <1>5, <1>6, <1>7, <1>8, <1>9, <2>2, <2>3 DEF SearchInv
<1> QED BY <1>5, <1>10, <1>11, <1>12

\* So does every step.
LEMMA SearchInvNext == SearchInv /\ [SearchNext]_searchVars => SearchInv'
<1> SUFFICES ASSUME SearchInv, [SearchNext]_searchVars PROVE SearchInv'
  OBVIOUS
<1>1. ASSUME outcome = "searching", walkable' = walkable, dest' = dest,
             \E e \in open, luck \in BOOLEAN : Pop(e, luck)
      PROVE  SearchInv'
  <2>1. PICK e \in open, luck \in BOOLEAN : Pop(e, luck)
    BY <1>1
  <2>2. e \in open /\ luck \in BOOLEAN
    BY <2>1
  <2> QED BY <1>1, <2>1, <2>2, PopKeeps
<1>2. ASSUME walkable' = walkable, dest' = dest, UNCHANGED <<node, closed, open, spilled, step>>
      PROVE  /\ Placed' /\ ArraysOK(node, closed, open)' /\ Begun' /\ spilled' \in BOOLEAN
             /\ step' \in walkable' /\ (Straight' => ~spilled')
             /\ \A c : StepsTo(c)' = StepsTo(c)
             /\ Guided(node, closed, open) => Guided(node, closed, open)'
  <2>1. /\ Placed /\ ArraysOK(node, closed, open) /\ Begun /\ spilled \in BOOLEAN
        /\ step \in walkable /\ (Straight => ~spilled)
    BY DEF SearchInv
  <2>2. PICK nodes, shut, queue : nodes = node /\ shut = closed /\ queue = open
    OBVIOUS
  <2>3. /\ ArraysOK(node, closed, open)'
        /\ Guided(node, closed, open) => Guided(node, closed, open)'
    <3>1. ArraysOK(nodes, shut, queue) /\ node' = nodes /\ closed' = shut /\ open' = queue
      BY <1>2, <2>1, <2>2
    <3> QED BY <1>2, <2>2, <3>1, SameArrays
  <2>4. Placed' /\ (Straight' <=> Straight) /\ \A c : StepsTo(c)' = StepsTo(c)
    BY <1>2, <2>1, SameMaze
  <2>5. Begun'
    BY <1>2, <2>1 DEF Begun
  <2> QED BY <1>2, <2>1, <2>3, <2>4, <2>5
<1>3. ASSUME outcome = "searching", walkable' = walkable, dest' = dest, Exhausted
      PROVE  SearchInv'
  <2>1. UNCHANGED <<node, closed, open, spilled, step>> /\ outcome' = "none" /\ open = {}
    BY <1>3 DEF Exhausted
  <2>2. ~spilled => StepsTo(Start) = -1
    BY <1>3, <2>1, NoWay DEF SearchInv
  <2> QED BY <1>2, <1>3, <2>1, <2>2 DEF SearchInv
<1>4. ASSUME UNCHANGED searchVars PROVE SearchInv'
  <2>1. /\ UNCHANGED <<node, closed, open, spilled, step>> /\ outcome' = outcome
        /\ walkable' = walkable /\ dest' = dest
    BY <1>4 DEF searchVars, search
  <2>2. StepsTo(step)' = StepsTo(step)
    <3>1. PICK c : c = step
      OBVIOUS
    <3>2. StepsTo(c)' = StepsTo(c) /\ step' = c
      BY <1>2, <2>1, <3>1
    <3> QED BY <3>1, <3>2
  <2> QED BY <1>2, <2>1, <2>2 DEF SearchInv
<1> QED BY <1>1, <1>3, <1>4 DEF SearchNext

LEMMA SearchInvariant == SearchSpec => []SearchInv
BY SearchInvInit, SearchInvNext, PTL DEF SearchSpec

\* The arrays, the queue and the result keep their types, wherever in memory the
\* search has written.
THEOREM SearchTypes == SearchSpec => []SearchTypeOK
<1>1. SearchInv => SearchTypeOK
  <2> SUFFICES ASSUME SearchInv PROVE SearchTypeOK
    OBVIOUS
  <2>1. /\ Placed /\ NodesOK(node, closed) /\ QueueOK(node, open) /\ spilled \in BOOLEAN
        /\ outcome \in {"searching", "found", "none", "wild"} /\ step \in walkable
    BY DEF SearchInv, ArraysOK
  <2>2. Allowed \subseteq Nat \X Nat /\ walkable \subseteq Arena /\ dest \in Arena
    BY <2>1, AllowedCells
  <2>3. node \in [Memory -> [f : Nat, g : Nat, parent : Nat \X Nat] \cup {Unset}]
    <3>1. [f : Nat, g : Nat, parent : Allowed] \subseteq [f : Nat, g : Nat, parent : Nat \X Nat]
      BY <2>2
    <3> QED BY <2>1, <3>1 DEF NodesOK
  <2>4. open \subseteq [f : Nat, at : Nat \X Nat] /\ \A e \in open : Index(e.at) \in Written(node)
    BY <2>1, <2>2 DEF QueueOK, Held
  <2> QED BY <2>1, <2>2, <2>3, <2>4 DEF SearchTypeOK, NodesOK, Placed
<1> QED BY <1>1, SearchInvariant, PTL

\* For any maze and any size of the window, ShortestStep: FindNextStep ends, its step
\* is next to the monster and walkable, and if AStar looked at nothing past the window it
\* is the first of a shortest way, found if and only if there is one.
THEOREM FirstStepOfShortest == SearchSpec => []ShortestStep
<1>1. SearchInv => ShortestStep
  BY DEF SearchInv, ShortestStep
<1> QED BY <1>1, SearchInvariant, PTL

\* For any maze and any size of the window, SpillsOnlyOnDetours: on a straight way to a
\* player inside the window AStar looks at nothing walkable past it.
THEOREM StraightStaysInside == SearchSpec => []SpillsOnlyOnDetours
<1>1. SearchInv => SpillsOnlyOnDetours
  BY DEF SearchInv, SpillsOnlyOnDetours, Straight
<1> QED BY <1>1, SearchInvariant, PTL
=============================================================================
