------------------------- MODULE SessionJobsProofs --------------------------
(***************************************************************************)
(* Theorems about SessionJobs, for any number of sessions, workers, posting *)
(* threads and jobs, and that it implements SerialExecutor.  Nothing is    *)
(* assumed of the scheduler.                                               *)
(***************************************************************************)
EXTENDS SessionJobs, TLAPS

\* What every action that posts a job does to the variables of its thread.
LEMMA ConstructTypes ==
  ASSUME SharedTypes, PosterTypes, NEW t \in Threads, NEW s \in Sessions,
         NEW k, Construct(t, s, k)
  PROVE  /\ PosterTypes'
         /\ nextId' \in 1..(MaxJobs + 1)
         /\ now' \in 0..(nextId' - 1)
<1>1. nextId' \in 1..(MaxJobs + 1) /\ now' \in 0..(nextId' - 1)
  BY BoundAssumption DEF Construct, SharedTypes
<1>2. [id |-> nextId, kind |-> k, stamp |-> now'] \in Job
  BY BoundAssumption DEF Construct, SharedTypes, Job
<1>3. [id |-> nextId, kind |-> k, stamp |-> now'] # NoJob /\ s # Null
  BY <1>2, NoJobAssumption, SessionAssumption
<1>4. PosterTypes'
  BY <1>2, <1>3 DEF Construct, PosterTypes, Places
<1>5. QED
  BY <1>1, <1>4

\* A worker that lets go of its session.
LEMMA ReleaseTypes ==
  ASSUME WorkerTypes, NEW w \in Workers, Release(w), wat[w] # "run",
         UNCHANGED <<cur, cnt>>
  PROVE  WorkerTypes'
BY DEF WorkerTypes, Release, WorkPlaces

\* The variables of SessionJobs keep their types.
LEMMA TypeInvariant == Spec => []TypeOK
<1>1. Init => TypeOK
  <2> SUFFICES ASSUME Init PROVE TypeOK
    OBVIOUS
  <2>1. SharedTypes
    BY BoundAssumption DEF Init, SharedTypes
  <2>2. PosterTypes
    BY DEF Init, PosterTypes, Places
  <2>3. WorkerTypes
    BY BoundAssumption DEF Init, WorkerTypes, WorkPlaces
  <2>4. QED
    BY <2>1, <2>2, <2>3 DEF TypeOK
<1>2. TypeOK /\ [Next]_vars => TypeOK'
  <2>1. SUFFICES ASSUME SharedTypes, PosterTypes, WorkerTypes, [Next]_vars
                 PROVE  SharedTypes' /\ PosterTypes' /\ WorkerTypes'
    BY DEF TypeOK
  <2>2. ASSUME NEW t \in Threads, NEW s \in Sessions, Begin(t, s)
        PROVE  SharedTypes' /\ PosterTypes' /\ WorkerTypes'
    <3>1. \E k \in AllKinds : Construct(t, s, k)
      BY <2>2 DEF Begin, Recv, Disconnect, PostCall, PostBare, AllKinds
    <3>2. UNCHANGED <<jobs, marked, disc, queue, working, done>> /\ armed' \subseteq armed
      BY <2>2 DEF Begin, Recv, Disconnect, PostCall, PostBare
    <3>3. /\ PosterTypes'
          /\ nextId' \in 1..(MaxJobs + 1)
          /\ now' \in 0..(nextId' - 1)
      BY <2>1, <3>1, ConstructTypes
    <3>4. SharedTypes'
      BY <2>1, <3>2, <3>3 DEF SharedTypes
    <3>5. WorkerTypes'
      BY <2>1, <3>2 DEF WorkerTypes, working
    <3>6. QED
      BY <3>3, <3>4, <3>5
  <2>3. ASSUME NEW t \in Threads, NextPacket(t)
        PROVE  SharedTypes' /\ PosterTypes' /\ WorkerTypes'
    <3>1. target[t] \in Sessions
      BY <2>1, <2>3 DEF NextPacket, PosterTypes
    <3>2. Construct(t, target[t], "packet")
      BY <2>3 DEF NextPacket
    <3>3. /\ PosterTypes'
          /\ nextId' \in 1..(MaxJobs + 1)
          /\ now' \in 0..(nextId' - 1)
      BY <2>1, <3>1, <3>2, ConstructTypes
    <3>4. SharedTypes'
      BY <2>1, <2>3, <3>3 DEF SharedTypes, NextPacket
    <3>5. WorkerTypes'
      BY <2>1, <2>3 DEF WorkerTypes, working, NextPacket
    <3>6. QED
      BY <3>3, <3>4, <3>5
  <2>4. ASSUME NEW t \in Threads, Push(t)
        PROVE  SharedTypes' /\ PosterTypes' /\ WorkerTypes'
    <3>1. target[t] \in Sessions /\ made[t] \in Job
      BY <2>1, <2>4 DEF Push, PosterTypes
    <3>2. SharedTypes'
      BY <2>1, <2>4, <3>1 DEF Push, SharedTypes
    <3>3. /\ AfterPush(made[t].kind) \in Places \ {"push"}
          /\ AfterPush(made[t].kind) = "idle" <=> made[t].kind = "bare"
      BY DEF AfterPush, Places
    <3>4. PosterTypes'
      BY <2>1, <2>4, <3>1, <3>3 DEF Push, PosterTypes
    <3>5. WorkerTypes'
      BY <2>1, <2>4 DEF WorkerTypes, working, Push
    <3>6. QED
      BY <3>2, <3>4, <3>5
  <2>5. ASSUME NEW t \in Threads, Rearm(t)
        PROVE  SharedTypes' /\ PosterTypes' /\ WorkerTypes'
    <3>1. target[t] \in Sessions
      BY <2>1, <2>5 DEF Rearm, PosterTypes
    <3>2. SharedTypes'
      BY <2>1, <2>5, <3>1 DEF Rearm, SharedTypes
    <3>3. PosterTypes'
      BY <2>1, <2>5 DEF Rearm, PosterTypes, Places
    <3>4. WorkerTypes'
      BY <2>1, <2>5 DEF WorkerTypes, working, Rearm
    <3>5. QED
      BY <3>2, <3>3, <3>4
  <2>6. ASSUME NEW t \in Threads, TryMark(t)
        PROVE  SharedTypes' /\ PosterTypes' /\ WorkerTypes'
    <3>1. target[t] \in Sessions
      BY <2>1, <2>6 DEF TryMark, PosterTypes
    <3>2. SharedTypes'
      BY <2>1, <2>6, <3>1 DEF TryMark, SharedTypes
    <3>3. PosterTypes'
      BY <2>1, <2>6 DEF TryMark, PosterTypes, Places
    <3>4. WorkerTypes'
      BY <2>1, <2>6 DEF WorkerTypes, working, TryMark
    <3>5. QED
      BY <3>2, <3>3, <3>4
  <2>7. ASSUME NEW t \in Threads, Insert(t)
        PROVE  SharedTypes' /\ PosterTypes' /\ WorkerTypes'
    <3>1. target[t] \in Sessions
      BY <2>1, <2>7 DEF Insert, PosterTypes
    <3>2. SharedTypes'
      BY <2>1, <2>7, <3>1 DEF Insert, SharedTypes
    <3>3. PosterTypes'
      BY <2>1, <2>7 DEF Insert, PosterTypes, Places
    <3>4. WorkerTypes'
      BY <2>1, <2>7 DEF WorkerTypes, working, Insert
    <3>5. QED
      BY <3>2, <3>3, <3>4
  <2>8. ASSUME NEW w \in Workers, NEW s \in Sessions, PopSession(w, s)
        PROVE  SharedTypes' /\ PosterTypes' /\ WorkerTypes'
    <3>1. SharedTypes'
      BY <2>1, <2>8 DEF PopSession, SharedTypes
    <3>2. PosterTypes'
      BY <2>1, <2>8 DEF PopSession, posting, PosterTypes
    <3>3. WorkerTypes'
      BY <2>1, <2>8, SessionAssumption DEF PopSession, WorkerTypes, WorkPlaces
    <3>4. QED
      BY <3>1, <3>2, <3>3
  <2>9. ASSUME NEW w \in Workers, CheckSession(w)
        PROVE  SharedTypes' /\ PosterTypes' /\ WorkerTypes'
    <3>1. SharedTypes'
      BY <2>1, <2>9 DEF CheckSession, SharedTypes
    <3>2. PosterTypes'
      BY <2>1, <2>9 DEF CheckSession, posting, PosterTypes
    <3>3. CASE held[w] \in disc
      BY <2>1, <2>9, <3>1, <3>2, <3>3, ReleaseTypes DEF CheckSession
    <3>4. CASE held[w] \notin disc
      BY <2>1, <2>9, <3>1, <3>2, <3>4 DEF CheckSession, WorkerTypes, WorkPlaces
    <3>5. QED
      BY <3>3, <3>4
  <2>10. ASSUME NEW w \in Workers, TakeJob(w)
         PROVE  SharedTypes' /\ PosterTypes' /\ WorkerTypes'
    <3>1. held[w] \in Sessions
      BY <2>1, <2>10 DEF TakeJob, WorkerTypes
    <3>2. PICK j \in jobs[held[w]] :
            /\ jobs' = [jobs EXCEPT ![held[w]] = @ \ {j}]
            /\ cur' = [cur EXCEPT ![w] = j]
            /\ disc' = IF j.kind = "logout" THEN disc \cup {held[w]} ELSE disc
      BY <2>10 DEF TakeJob
    <3>3. j \in Job /\ j # NoJob
      BY <2>1, <3>1, NoJobAssumption DEF SharedTypes
    <3>4. SharedTypes'
      BY <2>1, <2>10, <3>1, <3>2 DEF TakeJob, SharedTypes
    <3>5. PosterTypes'
      BY <2>1, <2>10 DEF TakeJob, posting, PosterTypes
    <3>6. WorkerTypes'
      BY <2>1, <2>10, <3>2, <3>3 DEF TakeJob, WorkerTypes, WorkPlaces
    <3>7. QED
      BY <3>4, <3>5, <3>6
  <2>11. ASSUME NEW w \in Workers, NoMoreJobs(w)
         PROVE  SharedTypes' /\ PosterTypes' /\ WorkerTypes'
    <3>1. SharedTypes'
      BY <2>1, <2>11 DEF NoMoreJobs, SharedTypes
    <3>2. PosterTypes'
      BY <2>1, <2>11 DEF NoMoreJobs, posting, PosterTypes
    <3>3. WorkerTypes'
      BY <2>1, <2>11, BoundAssumption DEF NoMoreJobs, WorkerTypes, WorkPlaces
    <3>4. QED
      BY <3>1, <3>2, <3>3
  <2>12. ASSUME NEW w \in Workers, FinishJob(w)
         PROVE  SharedTypes' /\ PosterTypes' /\ WorkerTypes'
    <3>1. held[w] \in Sessions /\ cur[w] \in Job
      BY <2>1, <2>12 DEF FinishJob, WorkerTypes
    <3>2. Append(done[held[w]], cur[w]) \in Seq(Job)
      BY <2>1, <3>1 DEF SharedTypes
    <3>3. SharedTypes'
      BY <2>1, <2>12, <3>2 DEF FinishJob, SharedTypes
    <3>4. PosterTypes'
      BY <2>1, <2>12 DEF FinishJob, posting, PosterTypes
    <3>5. CASE cnt[w] + 1 >= MaxJobProcess
      <4>1. WorkerTypes'
        BY <2>1, <2>12, <3>5, BoundAssumption DEF FinishJob, WorkerTypes, WorkPlaces
      <4>2. QED
        BY <3>3, <3>4, <4>1
    <3>6. CASE ~(cnt[w] + 1 >= MaxJobProcess)
      <4>1. cnt[w] + 1 \in 0..(MaxJobProcess - 1)
        BY <2>1, <3>6, BoundAssumption DEF WorkerTypes
      <4>2. WorkerTypes'
        BY <2>1, <2>12, <3>6, <4>1 DEF FinishJob, WorkerTypes, WorkPlaces
      <4>3. QED
        BY <3>3, <3>4, <4>2
    <3>7. QED
      BY <3>5, <3>6
  <2>13. ASSUME NEW w \in Workers, ReadSize(w)
         PROVE  SharedTypes' /\ PosterTypes' /\ WorkerTypes'
    <3>1. SharedTypes'
      BY <2>1, <2>13 DEF ReadSize, SharedTypes
    <3>2. PosterTypes'
      BY <2>1, <2>13 DEF ReadSize, posting, PosterTypes
    <3>3. WorkerTypes'
      BY <2>1, <2>13 DEF ReadSize, WorkerTypes, WorkPlaces
    <3>4. QED
      BY <3>1, <3>2, <3>3
  <2>14. ASSUME NEW w \in Workers, Requeue(w)
         PROVE  SharedTypes' /\ PosterTypes' /\ WorkerTypes'
    <3>1. held[w] \in Sessions
      BY <2>1, <2>14 DEF Requeue, WorkerTypes
    <3>2. SharedTypes'
      BY <2>1, <2>14, <3>1 DEF Requeue, SharedTypes
    <3>3. PosterTypes'
      BY <2>1, <2>14 DEF Requeue, posting, PosterTypes
    <3>4. WorkerTypes'
      BY <2>1, <2>14, ReleaseTypes DEF Requeue
    <3>5. QED
      BY <3>2, <3>3, <3>4
  <2>15. ASSUME NEW w \in Workers, Unmark(w)
         PROVE  SharedTypes' /\ PosterTypes' /\ WorkerTypes'
    <3>1. SharedTypes'
      BY <2>1, <2>15 DEF Unmark, SharedTypes
    <3>2. PosterTypes'
      BY <2>1, <2>15 DEF Unmark, posting, PosterTypes
    <3>3. WorkerTypes'
      BY <2>1, <2>15, ReleaseTypes DEF Unmark
    <3>4. QED
      BY <3>1, <3>2, <3>3
  <2>16. CASE UNCHANGED vars
    BY <2>1, <2>16
       DEF vars, posting, working, SharedTypes, PosterTypes, WorkerTypes
  <2>17. QED
    BY <2>1, <2>2, <2>3, <2>4, <2>5, <2>6, <2>7, <2>8, <2>9, <2>10, <2>11,
       <2>12, <2>13, <2>14, <2>15, <2>16 DEF Next, Continue, Work
<1>3. QED
  BY <1>1, <1>2, PTL DEF Spec

\* A session is in at most one place at a time: the mark that AddSessionQueue
\* sets by compare-and-exchange is a token handed from thread to queue to
\* worker and given back by UnmarkInQueue.
THEOREM TokenInvariant == Spec => []OneToken
<1>1. Init => OneToken
  BY DEF Init, OneToken, Inserting, Holding
<1>2. TypeOK /\ OneToken /\ [Next]_vars => OneToken'
  <2>1. SUFFICES ASSUME SharedTypes, PosterTypes, WorkerTypes, OneToken, [Next]_vars
                 PROVE  OneToken'
    BY DEF TypeOK
  <2>2. ASSUME NEW t \in Threads, NEW s \in Sessions, Begin(t, s)
        PROVE  OneToken'
    <3>1. \E k \in AllKinds : Construct(t, s, k)
      BY <2>2 DEF Begin, Recv, Disconnect, PostCall, PostBare, AllKinds
    <3>2. UNCHANGED <<marked, queue, wat, held>>
      BY <2>2 DEF Begin, Recv, Disconnect, PostCall, PostBare, working
    <3>3. \A u \in Threads, r \in Sessions : Inserting(u, r)' => Inserting(u, r)
      BY <2>1, <3>1 DEF Construct, Inserting, PosterTypes
    <3>4. QED
      BY <2>1, <3>2, <3>3 DEF OneToken, Holding
  <2>3. ASSUME NEW t \in Threads, NextPacket(t)
        PROVE  OneToken'
    <3>1. UNCHANGED <<marked, queue, wat, held>>
      BY <2>3 DEF NextPacket, working
    <3>2. \A u \in Threads, r \in Sessions : Inserting(u, r)' => Inserting(u, r)
      BY <2>1, <2>3 DEF NextPacket, Construct, Inserting, PosterTypes
    <3>3. QED
      BY <2>1, <3>1, <3>2 DEF OneToken, Holding
  <2>4. ASSUME NEW t \in Threads, Push(t)
        PROVE  OneToken'
    <3>1. UNCHANGED <<marked, queue, wat, held>>
      BY <2>4 DEF Push, working
    <3>2. AfterPush(made[t].kind) # "insert"
      BY DEF AfterPush
    <3>3. \A u \in Threads, r \in Sessions : Inserting(u, r)' => Inserting(u, r)
      BY <2>1, <2>4, <3>2 DEF Push, Inserting, PosterTypes
    <3>4. QED
      BY <2>1, <3>1, <3>3 DEF OneToken, Holding
  <2>5. ASSUME NEW t \in Threads, Rearm(t)
        PROVE  OneToken'
    <3>1. UNCHANGED <<marked, queue, wat, held>>
      BY <2>5 DEF Rearm, working
    <3>2. \A u \in Threads, r \in Sessions : Inserting(u, r)' => Inserting(u, r)
      BY <2>1, <2>5 DEF Rearm, Inserting, PosterTypes
    <3>3. QED
      BY <2>1, <3>1, <3>2 DEF OneToken, Holding
  <2>6. ASSUME NEW t \in Threads, TryMark(t)
        PROVE  OneToken'
    <3>1. UNCHANGED <<queue, wat, held>>
      BY <2>6 DEF TryMark, working
    <3>2. CASE target[t] \in marked
      <4>1. UNCHANGED marked
        BY <2>6, <3>2 DEF TryMark
      <4>2. \A u \in Threads, r \in Sessions : Inserting(u, r)' => Inserting(u, r)
        BY <2>1, <2>6, <3>2, SessionAssumption DEF TryMark, Inserting, PosterTypes
      <4>3. QED
        BY <2>1, <3>1, <4>1, <4>2 DEF OneToken, Holding
    <3>3. CASE target[t] \notin marked
      <4>1. marked' = marked \cup {target[t]}
        BY <2>6, <3>3 DEF TryMark
      <4>2. \A u \in Threads, r \in Sessions :
              Inserting(u, r)' => Inserting(u, r) \/ (u = t /\ r = target[t])
        BY <2>1, <2>6, <3>3 DEF TryMark, Inserting, PosterTypes
      <4>3. QED
        BY <2>1, <3>1, <3>3, <4>1, <4>2 DEF OneToken, Holding
    <3>4. QED
      BY <3>2, <3>3
  <2>7. ASSUME NEW t \in Threads, Insert(t)
        PROVE  OneToken'
    <3>1. UNCHANGED <<marked, wat, held>>
      BY <2>7 DEF Insert, working
    <3>2. target[t] \in Sessions /\ Inserting(t, target[t])
      BY <2>1, <2>7 DEF Insert, PosterTypes, Inserting
    <3>3. \A u \in Threads, r \in Sessions :
            Inserting(u, r)' => Inserting(u, r) /\ u # t
      BY <2>1, <2>7 DEF Insert, Inserting, PosterTypes
    <3>4. \A r \in Sessions :
            queue'[r] = IF r = target[t] THEN queue[r] + 1 ELSE queue[r]
      BY <2>1, <2>7, <3>2 DEF Insert, SharedTypes
    <3>5. QED
      BY <2>1, <3>1, <3>2, <3>3, <3>4 DEF OneToken, Holding
  <2>8. ASSUME NEW w \in Workers, NEW s \in Sessions, PopSession(w, s)
        PROVE  OneToken'
    <3>1. UNCHANGED <<marked, at, target>>
      BY <2>8 DEF PopSession, posting
    <3>2. queue[s] = 1 /\ s \in marked
      BY <2>1, <2>8 DEF PopSession, OneToken
    <3>3. \A r \in Sessions :
            queue'[r] = IF r = s THEN queue[r] - 1 ELSE queue[r]
      BY <2>1, <2>8 DEF PopSession, SharedTypes
    <3>4. \A v \in Workers, r \in Sessions :
            Holding(v, r)' => Holding(v, r) \/ (v = w /\ r = s)
      BY <2>1, <2>8 DEF PopSession, Holding, WorkerTypes
    <3>5. QED
      BY <2>1, <3>1, <3>2, <3>3, <3>4 DEF OneToken, Inserting
  <2>9. ASSUME NEW w \in Workers,
               CheckSession(w) \/ TakeJob(w) \/ NoMoreJobs(w) \/ FinishJob(w)
                 \/ ReadSize(w)
        PROVE  OneToken'
    <3>1. UNCHANGED <<marked, queue, at, target>>
      BY <2>9 DEF CheckSession, TakeJob, NoMoreJobs, FinishJob, ReadSize, posting
    <3>2. wat[w] # "pop"
      BY <2>9 DEF CheckSession, TakeJob, NoMoreJobs, FinishJob, ReadSize
    <3>3. \A v \in Workers : v # w => wat'[v] = wat[v] /\ held'[v] = held[v]
      BY <2>1, <2>9
         DEF CheckSession, TakeJob, NoMoreJobs, FinishJob, ReadSize, Release,
             WorkerTypes
    <3>4. wat'[w] = "pop" \/ held'[w] = held[w]
      BY <2>1, <2>9
         DEF CheckSession, TakeJob, NoMoreJobs, FinishJob, ReadSize, Release,
             WorkerTypes
    <3>5. \A v \in Workers, r \in Sessions : Holding(v, r)' => Holding(v, r)
      BY <3>2, <3>3, <3>4 DEF Holding
    <3>6. QED
      BY <2>1, <3>1, <3>5 DEF OneToken, Inserting
  <2>10. ASSUME NEW w \in Workers, Requeue(w)
         PROVE  OneToken'
    <3>1. UNCHANGED <<marked, at, target>>
      BY <2>10 DEF Requeue, posting
    <3>2. held[w] \in Sessions /\ Holding(w, held[w])
      BY <2>1, <2>10 DEF Requeue, WorkerTypes, Holding
    <3>3. \A v \in Workers, r \in Sessions : Holding(v, r)' => Holding(v, r) /\ v # w
      BY <2>1, <2>10 DEF Requeue, Release, Holding, WorkerTypes
    <3>4. \A r \in Sessions :
            queue'[r] = IF r = held[w] THEN queue[r] + 1 ELSE queue[r]
      BY <2>1, <2>10, <3>2 DEF Requeue, SharedTypes
    <3>5. QED
      BY <2>1, <3>1, <3>2, <3>3, <3>4 DEF OneToken, Inserting
  <2>11. ASSUME NEW w \in Workers, Unmark(w)
         PROVE  OneToken'
    <3>1. UNCHANGED <<queue, at, target>> /\ marked' = marked \ {held[w]}
      BY <2>11 DEF Unmark, posting
    <3>2. held[w] \in Sessions /\ Holding(w, held[w])
      BY <2>1, <2>11 DEF Unmark, WorkerTypes, Holding
    <3>3. \A v \in Workers, r \in Sessions : Holding(v, r)' => Holding(v, r) /\ v # w
      BY <2>1, <2>11 DEF Unmark, Release, Holding, WorkerTypes
    <3>4. QED
      BY <2>1, <3>1, <3>2, <3>3 DEF OneToken, Inserting
  <2>12. CASE UNCHANGED vars
    BY <2>1, <2>12 DEF vars, posting, working, OneToken, Inserting, Holding
  <2>13. QED
    BY <2>1, <2>2, <2>3, <2>4, <2>5, <2>6, <2>7, <2>8, <2>9, <2>10, <2>11, <2>12
       DEF Next, Continue, Work
<1>3. QED
  BY <1>1, <1>2, TypeInvariant, PTL DEF Spec

\* Two workers never run jobs of one session at the same time: what makes the
\* player's state safe without a lock.
THEOREM SerialExecution == Spec => []SerialSessions
<1>1. OneToken => SerialSessions
  BY DEF OneToken, SerialSessions
<1>2. QED
  BY <1>1, TokenInvariant, PTL

\* A marked session of a live player is always about to be visited: no sequence
\* of posts, visits and logouts leaves the mark set with the session nowhere.
THEOREM NoOrphans == Spec => []NoOrphanSession
<1> DEFINE Somewhere(s) == \/ queue[s] > 0
                           \/ \E t \in Threads : Inserting(t, s)
                           \/ \E w \in Workers : Holding(w, s)
<1>1. Init => NoOrphanSession
  BY DEF Init, NoOrphanSession
<1>2. TypeOK /\ NoOrphanSession /\ [Next]_vars => NoOrphanSession'
  <2>1. SUFFICES ASSUME SharedTypes, PosterTypes, WorkerTypes, NoOrphanSession,
                        [Next]_vars
                 PROVE  \A s \in marked' \ disc' : Somewhere(s)'
    BY DEF TypeOK, NoOrphanSession
  <2>2. \A s \in marked \ disc : s \in Sessions /\ Somewhere(s)
    BY <2>1 DEF NoOrphanSession, SharedTypes
  <2> HIDE DEF Somewhere
  <2>3. ASSUME NEW t \in Threads,
               \/ \E s \in Sessions : Begin(t, s)
               \/ NextPacket(t) \/ Push(t) \/ Rearm(t)
        PROVE  \A s \in marked' \ disc' : Somewhere(s)'
    <3>1. UNCHANGED <<marked, disc, queue, wat, held>>
      BY <2>3 DEF Begin, Recv, Disconnect, PostCall, PostBare, NextPacket, Push,
                  Rearm, working
    <3>2. at[t] # "insert"
      BY <2>3 DEF Begin, Recv, Disconnect, PostCall, PostBare, NextPacket, Push,
                  Rearm, MayPost
    <3>3. \A u \in Threads : u # t => at'[u] = at[u] /\ target'[u] = target[u]
      BY <2>1, <2>3
         DEF Begin, Recv, Disconnect, PostCall, PostBare, NextPacket, Push, Rearm,
             Construct, PosterTypes
    <3>4. QED
      BY <2>2, <3>1, <3>2, <3>3 DEF Somewhere, Inserting, Holding
  <2>4. ASSUME NEW t \in Threads, TryMark(t)
        PROVE  \A s \in marked' \ disc' : Somewhere(s)'
    <3>1. UNCHANGED <<disc, queue, wat, held>> /\ at[t] # "insert"
      BY <2>4 DEF TryMark, working
    <3>2. \A u \in Threads : u # t => at'[u] = at[u] /\ target'[u] = target[u]
      BY <2>1, <2>4 DEF TryMark, PosterTypes
    <3>3. \/ UNCHANGED marked
          \/ /\ marked' = marked \cup {target[t]}
             /\ at'[t] = "insert" /\ target'[t] = target[t]
      BY <2>1, <2>4 DEF TryMark, PosterTypes
    <3>4. QED
      BY <2>2, <3>1, <3>2, <3>3 DEF Somewhere, Inserting, Holding
  <2>5. ASSUME NEW t \in Threads, Insert(t)
        PROVE  \A s \in marked' \ disc' : Somewhere(s)'
    <3>1. UNCHANGED <<marked, disc, wat, held>>
      BY <2>5 DEF Insert, working
    <3>2. \A u \in Threads : u # t => at'[u] = at[u] /\ target'[u] = target[u]
      BY <2>1, <2>5 DEF Insert, PosterTypes
    <3>3. target[t] \in Sessions
      BY <2>1, <2>5 DEF Insert, PosterTypes
    <3>4. \A s \in Sessions : /\ queue[s] > 0 => queue'[s] > 0
                              /\ s = target[t] => queue'[s] > 0
      BY <2>1, <2>5, <3>3 DEF Insert, SharedTypes
    <3>5. QED
      BY <2>2, <3>1, <3>2, <3>3, <3>4 DEF Somewhere, Inserting, Holding
  <2>6. ASSUME NEW w \in Workers, NEW r \in Sessions, PopSession(w, r)
        PROVE  \A s \in marked' \ disc' : Somewhere(s)'
    <3>1. UNCHANGED <<marked, disc, at, target>> /\ wat[w] = "pop"
      BY <2>6 DEF PopSession, posting
    <3>2. wat'[w] = "check" /\ held'[w] = r
      BY <2>1, <2>6 DEF PopSession, WorkerTypes
    <3>3. \A v \in Workers : v # w => wat'[v] = wat[v] /\ held'[v] = held[v]
      BY <2>1, <2>6 DEF PopSession, WorkerTypes
    <3>4. \A s \in Sessions : s # r => queue'[s] = queue[s]
      BY <2>1, <2>6 DEF PopSession, SharedTypes
    <3>5. QED
      BY <2>2, <3>1, <3>2, <3>3, <3>4 DEF Somewhere, Inserting, Holding
  <2>7. ASSUME NEW w \in Workers,
               CheckSession(w) \/ TakeJob(w) \/ NoMoreJobs(w) \/ FinishJob(w)
                 \/ ReadSize(w)
        PROVE  \A s \in marked' \ disc' : Somewhere(s)'
    <3>1. UNCHANGED <<marked, queue, at, target>> /\ disc \subseteq disc'
      BY <2>7 DEF CheckSession, TakeJob, NoMoreJobs, FinishJob, ReadSize, posting
    <3>2. \A v \in Workers : v # w => wat'[v] = wat[v] /\ held'[v] = held[v]
      BY <2>1, <2>7
         DEF CheckSession, TakeJob, NoMoreJobs, FinishJob, ReadSize, Release,
             WorkerTypes
    <3>3. \/ wat'[w] # "pop" /\ held'[w] = held[w]
          \/ held[w] \in disc /\ UNCHANGED disc
      BY <2>1, <2>7
         DEF CheckSession, TakeJob, NoMoreJobs, FinishJob, ReadSize, WorkerTypes
    <3>4. QED
      BY <2>2, <3>1, <3>2, <3>3 DEF Somewhere, Inserting, Holding
  <2>8. ASSUME NEW w \in Workers, Requeue(w)
        PROVE  \A s \in marked' \ disc' : Somewhere(s)'
    <3>1. UNCHANGED <<marked, disc, at, target>>
      BY <2>8 DEF Requeue, posting
    <3>2. \A v \in Workers : v # w => wat'[v] = wat[v] /\ held'[v] = held[v]
      BY <2>1, <2>8 DEF Requeue, Release, WorkerTypes
    <3>3. held[w] \in Sessions
      BY <2>1, <2>8 DEF Requeue, WorkerTypes
    <3>4. \A s \in Sessions : /\ queue[s] > 0 => queue'[s] > 0
                              /\ s = held[w] => queue'[s] > 0
      BY <2>1, <2>8, <3>3 DEF Requeue, SharedTypes
    <3>5. QED
      BY <2>2, <3>1, <3>2, <3>3, <3>4 DEF Somewhere, Inserting, Holding
  <2>9. ASSUME NEW w \in Workers, Unmark(w)
        PROVE  \A s \in marked' \ disc' : Somewhere(s)'
    <3>1. UNCHANGED <<disc, queue, at, target>> /\ marked' = marked \ {held[w]}
      BY <2>9 DEF Unmark, posting
    <3>2. \A v \in Workers : v # w => wat'[v] = wat[v] /\ held'[v] = held[v]
      BY <2>1, <2>9 DEF Unmark, Release, WorkerTypes
    <3>3. QED
      BY <2>2, <3>1, <3>2 DEF Somewhere, Inserting, Holding
  <2>10. CASE UNCHANGED vars
    BY <2>2, <2>10 DEF vars, posting, working, Somewhere, Inserting, Holding
  <2>11. QED
    BY <2>1, <2>3, <2>4, <2>5, <2>6, <2>7, <2>8, <2>9, <2>10
       DEF Next, Continue, Work
<1>3. QED
  BY <1>1, <1>2, TypeInvariant, PTL DEF Spec

-----------------------------------------------------------------------------
(* Order.  Identities and stamps grow together (Clocked); at most one      *)
(* thread is receiving for a session, and what it is about to push is      *)
(* younger than every packet before it (OneReceiver).                      *)

MadeJobs == {made[t] : t \in {u \in Threads : at[u] = "push"}}
RunningJobs == {cur[w] : w \in {v \in Workers : wat[v] = "run"}}
PushedJobs == RunningJobs \cup UNION {jobs[s] \cup DoneSet(s) : s \in Sessions}
AllJobs == MadeJobs \cup PushedJobs

Clocked ==
  /\ \A j \in AllJobs : j.id < nextId /\ j.stamp <= now
  /\ \A j, k \in AllJobs : j.id < k.id => j.stamp <= k.stamp

\* A job that is not pushed yet is nowhere else.
Fresh ==
  /\ \A t \in Threads : at[t] = "push" =>
       \A j \in PushedJobs : j.id # made[t].id
  /\ \A t, u \in Threads : at[t] = "push" /\ at[u] = "push" /\ t # u =>
       made[t].id # made[u].id

Receiving(t, s) ==
  /\ target[t] = s
  /\ \/ at[t] = "pushed"
     \/ at[t] = "push" /\ made[t].kind = "packet"

OneReceiver ==
  \A s \in Sessions : \A t \in Threads : Receiving(t, s) =>
    /\ s \notin armed
    /\ \A u \in Threads : Receiving(u, s) => u = t
    /\ at[t] = "push" =>
         \A j \in jobs[s] \cup Started(s) : j.kind = "packet" => j.id < made[t].id

OrderInv == Clocked /\ Fresh /\ OneReceiver /\ PacketsInOrder

\* Everything known has an identity and a stamp.
LEMMA JobTypes ==
  ASSUME SharedTypes, PosterTypes, WorkerTypes
  PROVE  AllJobs \subseteq Job
<1>1. MadeJobs \subseteq Job
  BY DEF PosterTypes, MadeJobs
<1>2. RunningJobs \subseteq Job
  BY DEF WorkerTypes, RunningJobs
<1>3. \A s \in Sessions : jobs[s] \subseteq Job /\ DoneSet(s) \subseteq Job
  BY DEF SharedTypes, DoneSet
<1>4. QED
  BY <1>1, <1>2, <1>3 DEF AllJobs, PushedJobs

\* The jobs that have run after one more of them returns.
LEMMA FinishDone ==
  ASSUME SharedTypes, WorkerTypes, NEW w \in Workers, FinishJob(w)
  PROVE  \A s \in Sessions :
           DoneSet(s)' = IF s = held[w] THEN DoneSet(s) \cup {cur[w]} ELSE DoneSet(s)
<1>1. held[w] \in Sessions /\ cur[w] \in Job
  BY DEF FinishJob, WorkerTypes
<1>2. done[held[w]] \in Seq(Job)
  BY <1>1 DEF SharedTypes
<1>3. \A s \in Sessions :
        done'[s] = IF s = held[w] THEN Append(done[s], cur[w]) ELSE done[s]
  BY <1>1 DEF FinishJob, SharedTypes
<1>4. ASSUME NEW s \in Sessions, s # held[w]
      PROVE  DoneSet(s)' = DoneSet(s)
  <2>1. done'[s] = done[s]
    BY <1>3, <1>4
  <2>2. QED
    BY <2>1 DEF DoneSet
<1>5. ASSUME NEW s \in Sessions, s = held[w]
      PROVE  DoneSet(s)' = DoneSet(s) \cup {cur[w]}
  <2> DEFINE d == done[s]
             n == Len(d)
  <2>1. /\ n \in Nat
        /\ Len(Append(d, cur[w])) = n + 1
        /\ \A i \in 1..n : Append(d, cur[w])[i] = d[i]
        /\ Append(d, cur[w])[n + 1] = cur[w]
    BY <1>1, <1>2, <1>5
  <2>2. DoneSet(s) = {d[i] : i \in 1..n}
    BY DEF DoneSet
  <2>3. done'[s] = Append(d, cur[w])
    BY <1>3, <1>5
  <2>4. DoneSet(s)' = {Append(d, cur[w])[i] : i \in 1..(n + 1)}
    BY <2>1, <2>3 DEF DoneSet
  <2>5. {Append(d, cur[w])[i] : i \in 1..(n + 1)} = {d[i] : i \in 1..n} \cup {cur[w]}
    <3>1. 1..(n + 1) = (1..n) \cup {n + 1}
      BY <2>1
    <3>2. QED
      BY <2>1, <3>1
  <2>6. QED
    BY <2>2, <2>4, <2>5
<1>6. QED
  BY <1>4, <1>5

\* A step of a worker that neither takes nor finishes a job moves no job.
LEMMA QuietWorker ==
  ASSUME WorkerTypes, NEW w \in Workers,
         \/ \E s \in Sessions : PopSession(w, s)
         \/ CheckSession(w) \/ NoMoreJobs(w) \/ ReadSize(w) \/ Requeue(w)
         \/ Unmark(w)
  PROVE  /\ UNCHANGED <<now, nextId, jobs, armed, cur, done, posting>>
         /\ \A v \in Workers : wat'[v] = "run" <=> wat[v] = "run"
         /\ \A v \in Workers : wat[v] = "run" => held'[v] = held[v]
<1>1. UNCHANGED <<now, nextId, jobs, armed, cur, done, posting>>
  BY DEF PopSession, CheckSession, NoMoreJobs, ReadSize, Requeue, Unmark
<1>2. wat[w] # "run" /\ wat'[w] # "run"
  BY DEF PopSession, CheckSession, NoMoreJobs, ReadSize, Requeue, Unmark, Release,
         WorkerTypes
<1>3. \A v \in Workers : v # w => wat'[v] = wat[v] /\ held'[v] = held[v]
  BY DEF PopSession, CheckSession, NoMoreJobs, ReadSize, Requeue, Unmark, Release,
         WorkerTypes
<1>4. QED
  BY <1>1, <1>2, <1>3

\* An action that moves no job keeps what is running and what has started.
LEMMA JobsStay ==
  ASSUME UNCHANGED <<jobs, cur, done>>,
         \A v \in Workers : wat'[v] = "run" <=> wat[v] = "run",
         \A v \in Workers : wat[v] = "run" => held'[v] = held[v]
  PROVE  /\ PushedJobs' = PushedJobs
         /\ \A s \in Sessions : Started(s)' = Started(s)
<1>1. RunningJobs' = RunningJobs
  BY DEF RunningJobs
<1>2. \A s \in Sessions : (jobs[s] \cup DoneSet(s))' = jobs[s] \cup DoneSet(s)
  BY DEF DoneSet
<1>3. PushedJobs' = PushedJobs
  BY <1>1, <1>2 DEF PushedJobs
<1>4. \A s \in Sessions :
        {v \in Workers : Holding(v, s) /\ wat[v] = "run"}'
          = {v \in Workers : Holding(v, s) /\ wat[v] = "run"}
  BY DEF Holding
<1>5. QED
  BY <1>3, <1>4 DEF Started, DoneSet

\* What a step that constructs a job does to the order.
LEMMA ConstructOrder ==
  ASSUME SharedTypes, PosterTypes, WorkerTypes, OrderInv,
         NEW t \in Threads, NEW s \in Sessions, NEW k, Construct(t, s, k),
         at[t] # "push",
         UNCHANGED <<jobs, working, done>>,
         armed' \subseteq armed,
         k = "packet" => /\ s \notin armed'
                         /\ \A u \in Threads : Receiving(u, s) => u = t,
         \A r \in Sessions : Receiving(t, r) => k = "packet" /\ r = s
  PROVE  OrderInv'
<1> DEFINE new == [id |-> nextId, kind |-> k, stamp |-> now']
<1>1. /\ made' = [made EXCEPT ![t] = new]
      /\ at' = [at EXCEPT ![t] = "push"]
      /\ target' = [target EXCEPT ![t] = s]
      /\ nextId' = nextId + 1
      /\ now' \in {now, now + 1}
  BY DEF Construct
<1>2. /\ PushedJobs' = PushedJobs
      /\ \A r \in Sessions : Started(r)' = Started(r)
  BY JobsStay DEF working
<1>3. MadeJobs' \subseteq MadeJobs \cup {new}
  BY <1>1 DEF MadeJobs, PosterTypes
<1>4. AllJobs \subseteq Job
  BY JobTypes
<1>5. nextId \in Nat /\ now \in Nat /\ now' \in Nat
  BY <1>1, BoundAssumption DEF SharedTypes
<1>6. \A j \in AllJobs : j.id \in Nat /\ j.stamp \in Nat /\ j.id < nextId /\ j.stamp <= now
  BY <1>4, BoundAssumption DEF Job, OrderInv, Clocked
<1> HIDE DEF new
<1>7. new.id = nextId /\ new.stamp = now' /\ new.kind = k
  BY DEF new
<1>8. Clocked'
  <2>1. AllJobs' \subseteq AllJobs \cup {new}
    BY <1>2, <1>3 DEF AllJobs
  <2>2. \A j \in AllJobs' : j.id < nextId' /\ j.stamp <= now'
    BY <1>1, <1>5, <1>6, <1>7, <2>1
  <2>3. \A i, j \in AllJobs' : i.id < j.id => i.stamp <= j.stamp
    BY <1>1, <1>5, <1>6, <1>7, <2>1 DEF OrderInv, Clocked
  <2>4. QED
    BY <2>2, <2>3 DEF Clocked
<1>9. Fresh'
  <2>1. \A u \in Threads : at'[u] = "push" => (u = t /\ made'[u] = new)
                                              \/ (u # t /\ at[u] = "push" /\ made'[u] = made[u])
    BY <1>1 DEF PosterTypes
  <2>2. \A u \in Threads : at[u] = "push" => made[u] \in AllJobs
    BY DEF AllJobs, MadeJobs
  <2>3. PushedJobs \subseteq AllJobs
    BY DEF AllJobs
  <2>4. \A j \in AllJobs : j.id # new.id
    BY <1>5, <1>6, <1>7
  <2>5. \A u \in Threads : at'[u] = "push" => \A j \in PushedJobs' : j.id # made'[u].id
    BY <1>2, <2>1, <2>3, <2>4 DEF OrderInv, Fresh
  <2>6. \A u, v \in Threads : at'[u] = "push" /\ at'[v] = "push" /\ u # v =>
          made'[u].id # made'[v].id
    BY <2>1, <2>2, <2>4 DEF OrderInv, Fresh
  <2>7. QED
    BY <2>5, <2>6 DEF Fresh
<1>10. \A r \in Sessions : jobs[r] \cup Started(r) \subseteq AllJobs
  BY DEF AllJobs, PushedJobs, RunningJobs, Started
<1>11. OneReceiver'
  <2>1. \A u \in Threads, r \in Sessions : Receiving(u, r)' =>
          (u = t /\ r = s /\ k = "packet") \/ (u # t /\ Receiving(u, r))
    BY <1>1, <1>7 DEF Receiving, PosterTypes
  <2>2. ASSUME NEW r \in Sessions, NEW u \in Threads, Receiving(u, r)'
        PROVE  /\ r \notin armed'
               /\ \A v \in Threads : Receiving(v, r)' => v = u
    BY <2>1, <2>2 DEF OrderInv, OneReceiver
  <2>3. ASSUME NEW r \in Sessions, NEW u \in Threads, Receiving(u, r)',
               at'[u] = "push", NEW j \in jobs'[r] \cup Started(r)',
               j.kind = "packet"
        PROVE  j.id < made'[u].id
    <3>1. j \in jobs[r] \cup Started(r)
      BY <1>2, <2>3
    <3>2. CASE u = t
      BY <1>1, <1>5, <1>6, <1>7, <1>10, <3>1, <3>2 DEF PosterTypes
    <3>3. CASE u # t
      <4>1. Receiving(u, r) /\ at[u] = "push" /\ made'[u] = made[u]
        BY <1>1, <2>1, <2>3, <3>3 DEF PosterTypes
      <4>2. QED
        BY <2>3, <3>1, <4>1 DEF OrderInv, OneReceiver
    <3>4. QED
      BY <3>2, <3>3
  <2>4. QED
    BY <2>2, <2>3 DEF OneReceiver
<1>12. PacketsInOrder'
  <2>1. ASSUME NEW r \in Sessions, NEW j \in Started(r)', NEW i \in Waiting(r)',
               j.kind = "packet", i.kind = "packet", i.id < j.id
        PROVE  i.stamp = j.stamp
    <3>1. j \in Started(r) /\ j \in AllJobs
      BY <1>2, <1>10
    <3>2. i \in Waiting(r) \cup {new}
      BY <1>1 DEF Waiting, PosterTypes
    <3>3. i # new
      BY <1>5, <1>6, <1>7, <2>1, <3>1
    <3>4. QED
      BY <2>1, <3>1, <3>2, <3>3 DEF OrderInv, PacketsInOrder
  <2>2. QED
    BY <2>1 DEF PacketsInOrder
<1>13. QED
  BY <1>8, <1>9, <1>11, <1>12 DEF OrderInv

\* Identities, stamps and receivers stay in order.
LEMMA OrderInvariant == Spec => []OrderInv
<1>1. Init => OrderInv
  <2> SUFFICES ASSUME Init PROVE OrderInv
    OBVIOUS
  <2>1. MadeJobs = {} /\ RunningJobs = {}
    BY DEF Init, MadeJobs, RunningJobs
  <2>2. \A s \in Sessions : jobs[s] = {} /\ DoneSet(s) = {} /\ Started(s) = {}
    BY DEF Init, DoneSet, Started
  <2>3. AllJobs = {} /\ PushedJobs = {}
    BY <2>1, <2>2 DEF AllJobs, PushedJobs
  <2>4. QED
    BY <2>2, <2>3
       DEF Init, OrderInv, Clocked, Fresh, OneReceiver, Receiving, PacketsInOrder
<1>2. TypeOK /\ OneToken /\ OrderInv /\ [Next]_vars => OrderInv'
  <2>1. SUFFICES ASSUME SharedTypes, PosterTypes, WorkerTypes, OneToken, OrderInv,
                        [Next]_vars
                 PROVE  OrderInv'
    BY DEF TypeOK
  <2>2. ASSUME NEW t \in Threads, NEW s \in Sessions, Begin(t, s)
        PROVE  OrderInv'
    <3>1. at[t] = "idle" /\ UNCHANGED <<jobs, working, done>>
      BY <2>2 DEF Begin, Recv, Disconnect, PostCall, PostBare, MayPost
    <3>2. \A r \in Sessions : ~Receiving(t, r)
      BY <3>1 DEF Receiving
    <3>3. CASE Recv(t, s)
      <4>1. /\ Construct(t, s, "packet")
            /\ s \in armed /\ armed' = armed \ {s}
        BY <3>3 DEF Recv
      <4>2. \A u \in Threads : ~Receiving(u, s)
        BY <2>1, <4>1 DEF OrderInv, OneReceiver
      <4>3. QED
        BY <2>1, <3>1, <3>2, <4>1, <4>2, ConstructOrder
    <3>4. CASE ~Recv(t, s)
      <4>1. PICK k \in {"logout", "call", "bare"} : Construct(t, s, k)
        BY <2>2, <3>4 DEF Begin, Disconnect, PostCall, PostBare
      <4>2. armed' \subseteq armed
        BY <2>2, <3>4 DEF Begin, Disconnect, PostCall, PostBare
      <4>3. QED
        BY <2>1, <3>1, <3>2, <4>1, <4>2, ConstructOrder
    <3>5. QED
      BY <3>3, <3>4
  <2>3. ASSUME NEW t \in Threads, NextPacket(t)
        PROVE  OrderInv'
    <3>1. /\ Construct(t, target[t], "packet") /\ at[t] = "pushed"
          /\ UNCHANGED <<jobs, working, done, armed>>
      BY <2>3 DEF NextPacket
    <3>2. target[t] \in Sessions /\ Receiving(t, target[t])
      BY <2>1, <3>1 DEF PosterTypes, Receiving
    <3>3. /\ target[t] \notin armed
          /\ \A u \in Threads : Receiving(u, target[t]) => u = t
      BY <2>1, <3>2 DEF OrderInv, OneReceiver
    <3>4. \A r \in Sessions : Receiving(t, r) => r = target[t]
      BY DEF Receiving
    <3>5. QED
      BY <2>1, <3>1, <3>2, <3>3, <3>4, ConstructOrder
  <2>4. ASSUME NEW t \in Threads, Push(t)
        PROVE  OrderInv'
    <3>1. /\ target[t] \in Sessions /\ made[t] \in Job
          /\ at[t] = "push" /\ at'[t] \in {"pushed", "idle", "cas"}
          /\ at'[t] = "pushed" => made[t].kind = "packet"
      BY <2>1, <2>4 DEF Push, PosterTypes, AfterPush
    <3>2. UNCHANGED <<now, nextId, armed, wat, held, cur, cnt, done>>
      BY <2>4 DEF Push, working
    <3>3. \A u \in Threads : u # t =>
            at'[u] = at[u] /\ made'[u] = made[u] /\ target'[u] = target[u]
      BY <2>1, <2>4 DEF Push, PosterTypes
    <3>4. \A r \in Sessions :
            jobs'[r] = IF r = target[t] THEN jobs[r] \cup {made[t]} ELSE jobs[r]
      BY <2>1, <2>4 DEF Push, SharedTypes
    <3>5. \A r \in Sessions : Started(r)' = Started(r) /\ DoneSet(r)' = DoneSet(r)
      BY <3>2 DEF Started, DoneSet, Holding
    <3>6. PushedJobs' \subseteq PushedJobs \cup {made[t]}
      <4>1. RunningJobs' = RunningJobs
        BY <3>2 DEF RunningJobs
      <4>2. \A r \in Sessions :
              jobs'[r] \cup DoneSet(r)' \subseteq PushedJobs \cup {made[t]}
        <5>1. \A r \in Sessions : jobs[r] \cup DoneSet(r) \subseteq PushedJobs
          BY DEF PushedJobs
        <5>2. \A r \in Sessions : jobs'[r] \subseteq jobs[r] \cup {made[t]}
          BY <3>4
        <5>3. QED
          BY <3>5, <5>1, <5>2
      <4>3. QED
        BY <4>1, <4>2 DEF PushedJobs
    <3>7. \A u \in Threads : at'[u] = "push" => u # t /\ at[u] = "push" /\ made'[u] = made[u]
      BY <3>1, <3>3
    <3>8. made[t] \in MadeJobs
      BY <3>1 DEF MadeJobs
    <3>9. MadeJobs' \subseteq MadeJobs
      BY <3>7 DEF MadeJobs
    <3>10. Clocked'
      <4>1. AllJobs' \subseteq AllJobs
        BY <3>6, <3>8, <3>9 DEF AllJobs
      <4>2. QED
        BY <2>1, <3>2, <4>1 DEF OrderInv, Clocked
    <3>11. Fresh'
      BY <2>1, <3>1, <3>6, <3>7 DEF OrderInv, Fresh
    <3>12. \A u \in Threads, r \in Sessions : Receiving(u, r)' =>
             /\ Receiving(u, r)
             /\ at'[u] = "push" => u # t
      BY <3>1, <3>3, <2>4 DEF Receiving, Push
    <3>13. OneReceiver'
      <4>1. ASSUME NEW u \in Threads, NEW r \in Sessions, Receiving(u, r)',
                   at'[u] = "push", NEW j \in jobs'[r] \cup Started(r)',
                   j.kind = "packet"
            PROVE  j.id < made'[u].id
        <5>1. u # t /\ Receiving(u, r) /\ at[u] = "push" /\ made'[u] = made[u]
          BY <3>7, <3>12, <4>1
        <5>2. j \in jobs[r] \cup Started(r)
          <6>1. CASE j = made[t] /\ r = target[t]
            <7>1. Receiving(t, r)
              BY <3>1, <4>1, <6>1 DEF Receiving
            <7>2. QED
              BY <2>1, <5>1, <7>1 DEF OrderInv, OneReceiver
          <6>2. CASE ~(j = made[t] /\ r = target[t])
            BY <3>4, <3>5, <4>1, <6>2
          <6>3. QED
            BY <6>1, <6>2
        <5>3. QED
          BY <2>1, <4>1, <5>1, <5>2 DEF OrderInv, OneReceiver
      <4>2. QED
        BY <2>1, <3>2, <3>12, <4>1 DEF OrderInv, OneReceiver
    <3>14. PacketsInOrder'
      <4>1. \A r \in Sessions : Waiting(r)' \subseteq Waiting(r)
        <5>1. made[t] \in Waiting(target[t])
          BY <3>1 DEF Waiting
        <5>2. \A r \in Sessions : jobs'[r] \subseteq Waiting(r)
          BY ZenonT(40), <3>4, <5>1 DEF Waiting
        <5>3. \A r \in Sessions, u \in Threads :
                at'[u] = "push" /\ target'[u] = r => made'[u] \in Waiting(r)
          BY <3>3, <3>7 DEF Waiting
        <5>4. QED
          BY <5>2, <5>3 DEF Waiting
      <4>2. QED
        BY <2>1, <3>5, <4>1 DEF OrderInv, PacketsInOrder
    <3>15. QED
      BY <3>10, <3>11, <3>13, <3>14 DEF OrderInv
  <2>5. ASSUME NEW t \in Threads, Rearm(t) \/ TryMark(t) \/ Insert(t)
        PROVE  OrderInv'
    <3>1. UNCHANGED <<now, nextId, jobs, made, wat, held, cur, done>>
      BY <2>5 DEF Rearm, TryMark, Insert, working
    <3>2. /\ at[t] \notin {"push"} /\ at'[t] \notin {"push", "pushed"}
          /\ \A u \in Threads : u # t => at'[u] = at[u] /\ target'[u] = target[u]
      BY <2>1, <2>5 DEF Rearm, TryMark, Insert, PosterTypes
    <3>3. /\ PushedJobs' = PushedJobs
          /\ \A s \in Sessions : Started(s)' = Started(s)
      BY <3>1, JobsStay
    <3>4. MadeJobs' = MadeJobs
      BY <3>1, <3>2 DEF MadeJobs
    <3>5. Clocked' /\ Fresh'
      BY <2>1, <3>1, <3>2, <3>3, <3>4 DEF OrderInv, Clocked, Fresh, AllJobs
    <3>6. \A u \in Threads, r \in Sessions :
            Receiving(u, r)' => u # t /\ Receiving(u, r)
      BY <3>1, <3>2 DEF Receiving
    <3>7. \/ armed' = armed
          \/ armed' = armed \cup {target[t]} /\ Receiving(t, target[t])
      BY <2>5 DEF Rearm, TryMark, Insert, Receiving
    <3>8. OneReceiver'
      BY <2>1, <3>1, <3>2, <3>3, <3>6, <3>7 DEF OrderInv, OneReceiver
    <3>9. \A r \in Sessions : Waiting(r)' = Waiting(r)
      BY <3>1, <3>2 DEF Waiting
    <3>10. PacketsInOrder'
      BY <2>1, <3>3, <3>9 DEF OrderInv, PacketsInOrder
    <3>11. QED
      BY <3>5, <3>8, <3>10 DEF OrderInv
  <2>6. ASSUME NEW w \in Workers,
               \/ \E s \in Sessions : PopSession(w, s)
               \/ CheckSession(w) \/ NoMoreJobs(w) \/ ReadSize(w) \/ Requeue(w)
               \/ Unmark(w)
        PROVE  OrderInv'
    <3>1. /\ UNCHANGED <<now, nextId, jobs, armed, cur, done, posting>>
          /\ \A v \in Workers : wat'[v] = "run" <=> wat[v] = "run"
          /\ \A v \in Workers : wat[v] = "run" => held'[v] = held[v]
      BY <2>1, <2>6, QuietWorker
    <3>2. /\ PushedJobs' = PushedJobs
          /\ \A s \in Sessions : Started(s)' = Started(s)
      BY <3>1, JobsStay
    <3>3. MadeJobs' = MadeJobs /\ \A r \in Sessions : Waiting(r)' = Waiting(r)
      BY <3>1 DEF MadeJobs, Waiting, posting
    <3>4. QED
      BY <2>1, <3>1, <3>2, <3>3
         DEF OrderInv, Clocked, Fresh, OneReceiver, PacketsInOrder, AllJobs,
             Receiving, posting
  <2>7. ASSUME NEW w \in Workers, TakeJob(w)
        PROVE  OrderInv'
    <3> DEFINE h == held[w]
    <3>1. h \in Sessions /\ wat[w] = "take"
      BY <2>1, <2>7 DEF TakeJob, WorkerTypes
    <3>2. PICK j \in jobs[h] :
            /\ \A i \in jobs[h] : j.stamp <= i.stamp
            /\ jobs' = [jobs EXCEPT ![h] = @ \ {j}]
            /\ cur' = [cur EXCEPT ![w] = j]
      BY <2>7 DEF TakeJob
    <3>3. UNCHANGED <<now, nextId, armed, at, target, made, held, done>>
      BY <2>7 DEF TakeJob, posting
    <3>4. wat' = [wat EXCEPT ![w] = "run"]
      BY <2>7 DEF TakeJob
    <3>5. \A r \in Sessions : jobs'[r] = IF r = h THEN jobs[r] \ {j} ELSE jobs[r]
      BY <2>1, <3>2 DEF SharedTypes
    <3>6. \A v \in Workers : /\ v # w => cur'[v] = cur[v] /\ wat'[v] = wat[v]
                             /\ v = w => cur'[v] = j /\ wat'[v] = "run"
      BY <2>1, <3>2, <3>4 DEF WorkerTypes
    <3>7. \A r \in Sessions :
            Started(r)' \subseteq Started(r) \cup (IF r = h THEN {j} ELSE {})
      BY <3>1, <3>3, <3>6 DEF Started, DoneSet, Holding
    <3>8. PushedJobs' \subseteq PushedJobs
      <4>1. RunningJobs' \subseteq RunningJobs \cup {j}
        BY <3>6 DEF RunningJobs
      <4>2. QED
        BY <3>1, <3>2, <3>3, <3>5, <4>1 DEF PushedJobs, DoneSet
    <3>9. MadeJobs' = MadeJobs
      BY <3>3 DEF MadeJobs
    <3>10. Clocked' /\ Fresh'
      BY <2>1, <3>3, <3>8, <3>9 DEF OrderInv, Clocked, Fresh, AllJobs
    <3>11. OneReceiver'
      <4>1. \A r \in Sessions : jobs'[r] \cup Started(r)' \subseteq jobs[r] \cup Started(r)
        BY <3>2, <3>5, <3>7
      <4>2. QED
        BY <2>1, <3>3, <4>1 DEF OrderInv, OneReceiver, Receiving
    <3>12. PacketsInOrder'
      <4>1. ASSUME NEW r \in Sessions, NEW i \in Started(r)', NEW k \in Waiting(r)',
                   i.kind = "packet", k.kind = "packet", k.id < i.id
            PROVE  k.stamp = i.stamp
        <5>1. k \in Waiting(r)
          BY <3>3, <3>5 DEF Waiting
        <5>2. CASE i \in Started(r)
          BY <2>1, <4>1, <5>1, <5>2 DEF OrderInv, PacketsInOrder
        <5>3. CASE i = j /\ r = h
          <6>1. CASE k \in jobs[r]
            <7>1. i \in AllJobs /\ k \in AllJobs
              BY <3>1, <5>3, <6>1 DEF AllJobs, PushedJobs
            <7>2. k.stamp <= i.stamp
              BY <2>1, <4>1, <7>1 DEF OrderInv, Clocked
            <7>3. i.stamp <= k.stamp
              BY <3>2, <5>3, <6>1
            <7>4. i.stamp \in Nat /\ k.stamp \in Nat
              BY <2>1, <7>1, JobTypes, BoundAssumption DEF Job
            <7>5. QED
              BY <7>2, <7>3, <7>4
          <6>2. ASSUME NEW u \in Threads, at[u] = "push", target[u] = r, k = made[u]
                PROVE  FALSE
            <7>1. Receiving(u, r)
              BY <4>1, <6>2 DEF Receiving
            <7>2. i.id < k.id
              BY <2>1, <4>1, <5>3, <6>2, <7>1 DEF OrderInv, OneReceiver
            <7>3. i \in AllJobs /\ k \in AllJobs
              BY <3>1, <5>3, <6>2 DEF AllJobs, PushedJobs, MadeJobs
            <7>4. i.id \in Nat /\ k.id \in Nat
              BY <2>1, <7>3, JobTypes, BoundAssumption DEF Job
            <7>5. QED
              BY <4>1, <7>2, <7>4
          <6>3. QED
            BY <5>1, <6>1, <6>2 DEF Waiting
        <5>4. QED
          BY <3>7, <5>2, <5>3
      <4>2. QED
        BY <4>1 DEF PacketsInOrder
    <3>13. QED
      BY <3>10, <3>11, <3>12 DEF OrderInv
  <2>8. ASSUME NEW w \in Workers, FinishJob(w)
        PROVE  OrderInv'
    <3>1. /\ held[w] \in Sessions /\ wat[w] = "run" /\ wat'[w] # "run"
          /\ \A v \in Workers : v # w => cur'[v] = cur[v] /\ wat'[v] = wat[v]
      BY <2>1, <2>8 DEF FinishJob, WorkerTypes
    <3>2. UNCHANGED <<now, nextId, jobs, armed, at, target, made, held>>
      BY <2>8 DEF FinishJob, posting
    <3>3. \A s \in Sessions :
            DoneSet(s)' = IF s = held[w] THEN DoneSet(s) \cup {cur[w]} ELSE DoneSet(s)
      BY <2>1, <2>8, FinishDone
    <3>4. cur[w] \in Started(held[w]) /\ cur[w] \in RunningJobs
      BY <3>1 DEF Started, Holding, RunningJobs
    <3>5. RunningJobs' \subseteq RunningJobs
      BY <3>1 DEF RunningJobs
    <3>6. \A r \in Sessions : Started(r)' \subseteq Started(r)
      <4>1. \A r \in Sessions : \A v \in Workers :
              (Holding(v, r) /\ wat[v] = "run")' =>
                Holding(v, r) /\ wat[v] = "run" /\ cur'[v] = cur[v]
        BY <3>1, <3>2 DEF Holding
      <4>2. \A r \in Sessions : DoneSet(r)' \subseteq Started(r)
        <5>1. \A r \in Sessions : DoneSet(r) \subseteq Started(r)
          BY DEF Started
        <5>2. QED
          BY <3>3, <3>4, <5>1
      <4>3. QED
        BY <4>1, <4>2 DEF Started
    <3>7. PushedJobs' \subseteq PushedJobs
      <4>1. \A r \in Sessions : jobs[r] \cup DoneSet(r) \subseteq PushedJobs
        BY DEF PushedJobs
      <4>2. RunningJobs \subseteq PushedJobs
        BY DEF PushedJobs
      <4>3. \A r \in Sessions : DoneSet(r)' \subseteq DoneSet(r) \cup {cur[w]}
        BY <3>3
      <4>4. \A r \in Sessions : jobs'[r] \cup DoneSet(r)' \subseteq PushedJobs
        BY <3>2, <3>4, <4>1, <4>2, <4>3
      <4>5. QED
        BY <3>5, <4>2, <4>4 DEF PushedJobs
    <3>8. MadeJobs' = MadeJobs /\ \A r \in Sessions : Waiting(r)' = Waiting(r)
      BY <3>2 DEF MadeJobs, Waiting
    <3>9. Clocked' /\ Fresh'
      BY <2>1, <3>2, <3>7, <3>8 DEF OrderInv, Clocked, Fresh, AllJobs
    <3>10. OneReceiver' /\ PacketsInOrder'
      BY <2>1, <3>2, <3>6, <3>8
         DEF OrderInv, OneReceiver, PacketsInOrder, Receiving
    <3>11. QED
      BY <3>9, <3>10 DEF OrderInv
  <2>9. CASE UNCHANGED vars
    BY <2>1, <2>9
       DEF vars, posting, working, OrderInv, Clocked, Fresh, OneReceiver, Receiving,
           PacketsInOrder, AllJobs, MadeJobs, RunningJobs, PushedJobs, Started,
           Waiting, DoneSet, Holding
  <2>10. QED
    BY <2>1, <2>2, <2>3, <2>4, <2>5, <2>6, <2>7, <2>8, <2>9
       DEF Next, Continue, Work
<1>3. QED
  BY <1>1, <1>2, TypeInvariant, TokenInvariant, PTL DEF Spec

\* The packets of a connection run in the order they were received, whatever
\* the IOCP threads and the workers do; only equal stamps can swap.
THEOREM PacketOrder == Spec => []PacketsInOrder
<1>1. OrderInv => PacketsInOrder
  BY DEF OrderInv
<1>2. QED
  BY <1>1, OrderInvariant, PTL
-----------------------------------------------------------------------------
(* After a logout.  Whoever runs jobs of a session that has logged out is  *)
(* still in the visit that ran the logout, and counts the jobs behind it.  *)

LogoutAt(s, i) == i \in 1..Len(done[s]) /\ done[s][i].kind = "logout"
Visiting(w, s) == wat[w] \in {"take", "run"} /\ held[w] = s

\* A logout that runs, or ran, has set m_isDisconnected.
Disconnects ==
  /\ \A w \in Workers : wat[w] = "run" /\ cur[w].kind = "logout" => held[w] \in disc
  /\ \A s \in Sessions, i \in Nat : LogoutAt(s, i) => s \in disc

\* jobcnt has counted the logout and every job behind it.
CountedSince ==
  \A s \in Sessions, i \in Nat : LogoutAt(s, i) =>
    \A w \in Workers : Visiting(w, s) => Len(done[s]) - i < cnt[w]

FinalInv == Disconnects /\ CountedSince /\ LogoutIsFinal

\* A step of a worker that returns from no job and begins no visit.
LEMMA FinalStays ==
  ASSUME FinalInv, SharedTypes, disc \subseteq disc', done' = done,
         \A w \in Workers : wat'[w] = "run" /\ cur'[w].kind = "logout" =>
           held'[w] \in disc',
         \A w \in Workers, s \in Sessions : Visiting(w, s)' =>
           \/ Visiting(w, s) /\ cnt'[w] = cnt[w]
           \/ s \notin disc
  PROVE  FinalInv'
<1>1. \A s \in Sessions, i \in Nat : LogoutAt(s, i)' => LogoutAt(s, i)
  BY DEF LogoutAt
<1>2. Disconnects'
  BY <1>1 DEF FinalInv, Disconnects
<1>3. CountedSince'
  BY <1>1 DEF FinalInv, Disconnects, CountedSince
<1>4. LogoutIsFinal'
  BY DEF FinalInv, LogoutIsFinal
<1>5. QED
  BY <1>2, <1>3, <1>4 DEF FinalInv

\* A job returns.
LEMMA FinalFinish ==
  ASSUME SharedTypes, WorkerTypes, OneToken, FinalInv,
         NEW w \in Workers, FinishJob(w)
  PROVE  FinalInv'
<1>1. PICK h \in Sessions : h = held[w] /\ cur[w] \in Job /\ wat[w] = "run"
  BY DEF FinishJob, WorkerTypes
<1> DEFINE n == Len(done[h])
<1>2. done[h] \in Seq(Job) /\ n \in Nat
  BY <1>1 DEF SharedTypes
<1>3. /\ done'[h] = Append(done[h], cur[w])
      /\ \A s \in Sessions : s # h => done'[s] = done[s]
      /\ disc' = disc /\ held' = held
      /\ \A v \in Workers : v # w =>
           wat'[v] = wat[v] /\ cur'[v] = cur[v] /\ cnt'[v] = cnt[v]
  BY <1>1 DEF FinishJob, SharedTypes, WorkerTypes
<1>4. /\ Len(done'[h]) = n + 1
      /\ \A i \in 1..n : done'[h][i] = done[h][i]
      /\ done'[h][n + 1] = cur[w]
  BY <1>1, <1>2, <1>3
<1>5. ASSUME NEW i \in Nat, LogoutAt(h, i)'
      PROVE  /\ h \in disc
             /\ Len(done'[h]) - i <= cnt[w]
  <2>1. CASE i = n + 1
    <3>1. cur[w].kind = "logout"
      BY <1>4, <1>5, <2>1 DEF LogoutAt
    <3>2. QED
      BY <1>1, <1>2, <1>4, <2>1, <3>1, BoundAssumption
         DEF FinalInv, Disconnects, WorkerTypes
  <2>2. CASE i # n + 1
    <3>1. LogoutAt(h, i)
      BY <1>2, <1>4, <1>5, <2>2 DEF LogoutAt
    <3>2. Visiting(w, h)
      BY <1>1 DEF Visiting
    <3>3. n - i < cnt[w] /\ h \in disc
      BY <1>1, <3>1, <3>2 DEF FinalInv, Disconnects, CountedSince
    <3>4. cnt[w] \in Nat
      BY BoundAssumption DEF WorkerTypes
    <3>5. QED
      BY <1>2, <1>4, <3>3, <3>4
  <2>3. QED
    BY <2>1, <2>2
<1>6. \A s \in Sessions, i \in Nat : s # h /\ LogoutAt(s, i)' => LogoutAt(s, i)
  BY <1>3 DEF LogoutAt
<1>7. wat'[w] # "run" /\ cnt[w] \in 0..(MaxJobProcess - 1)
  BY DEF FinishJob, WorkerTypes
<1>8. Disconnects'
  <2>1. \A v \in Workers : wat'[v] = "run" /\ cur'[v].kind = "logout" => held'[v] \in disc'
    BY <1>3, <1>7 DEF FinalInv, Disconnects
  <2>2. \A s \in Sessions, i \in Nat : LogoutAt(s, i)' => s \in disc'
    BY <1>3, <1>5, <1>6 DEF FinalInv, Disconnects
  <2>3. QED
    BY <2>1, <2>2 DEF Disconnects
<1>9. CountedSince'
  <2>1. ASSUME NEW s \in Sessions, NEW i \in Nat, LogoutAt(s, i)',
               NEW v \in Workers, Visiting(v, s)'
        PROVE  Len(done'[s]) - i < cnt'[v]
    <3>1. CASE s = h /\ v = w
      <4>1. ~(cnt[w] + 1 >= MaxJobProcess)
        BY <2>1, <3>1 DEF FinishJob, Visiting, WorkerTypes
      <4>2. cnt'[w] = cnt[w] + 1
        BY <4>1 DEF FinishJob, WorkerTypes
      <4>3. QED
        BY <1>2, <1>4, <1>5, <1>7, <2>1, <3>1, <4>2, BoundAssumption
    <3>2. CASE s = h /\ v # w
      <4>1. Holding(v, h) /\ Holding(w, h)
        BY <1>1, <1>3, <2>1, <3>2 DEF Visiting, Holding, WorkerTypes
      <4>2. QED
        BY <3>2, <4>1 DEF OneToken
    <3>3. CASE s # h
      <4>1. v # w
        BY <1>1, <1>3, <2>1, <3>3 DEF Visiting
      <4>2. Visiting(v, s) /\ LogoutAt(s, i)
        BY <1>3, <1>6, <2>1, <3>3, <4>1 DEF Visiting
      <4>3. QED
        BY <1>3, <3>3, <4>1, <4>2 DEF FinalInv, CountedSince
    <3>4. QED
      BY <3>1, <3>2, <3>3
  <2>2. QED
    BY <2>1 DEF CountedSince
<1>10. LogoutIsFinal'
  <2>1. ASSUME NEW s \in Sessions, NEW i \in 1..Len(done'[s]),
               done'[s][i].kind = "logout"
        PROVE  Len(done'[s]) - i < MaxJobProcess
    <3>1. CASE s = h
      <4>1. LogoutAt(h, i)'
        BY <2>1, <3>1 DEF LogoutAt
      <4>2. i \in Nat
        BY <2>1
      <4>3. Len(done'[h]) - i <= cnt[w]
        BY <1>5, <4>1, <4>2
      <4>4. QED
        BY <1>2, <1>4, <1>7, <3>1, <4>2, <4>3, BoundAssumption
    <3>2. CASE s # h
      BY <1>3, <2>1, <3>2 DEF FinalInv, LogoutIsFinal
    <3>3. QED
      BY <3>1, <3>2
  <2>2. QED
    BY <2>1 DEF LogoutIsFinal
<1>11. QED
  BY <1>8, <1>9, <1>10 DEF FinalInv

\* Once Logout has run, a session runs at most the rest of that one visit: the
\* test of m_isDisconnected in ProcessJob keeps every later visit out, and the
\* count of jobs ends this one.
THEOREM LogoutEndsVisits == Spec => []LogoutIsFinal
<1>1. Init => FinalInv
  BY DEF Init, FinalInv, Disconnects, CountedSince, LogoutIsFinal, LogoutAt
<1>2. TypeOK /\ OneToken /\ FinalInv /\ [Next]_vars => FinalInv'
  <2>1. SUFFICES ASSUME SharedTypes, PosterTypes, WorkerTypes, OneToken, FinalInv,
                        [Next]_vars
                 PROVE  FinalInv'
    BY DEF TypeOK
  <2>2. CASE UNCHANGED <<disc, done, wat, held, cur, cnt>>
    BY <2>1, <2>2, FinalStays DEF FinalInv, Disconnects, Visiting
  <2>3. ASSUME NEW t \in Threads,
               \/ \E s \in Sessions : Begin(t, s)
               \/ NextPacket(t) \/ Continue(t)
        PROVE  FinalInv'
    BY <2>2, <2>3 DEF Begin, Recv, Disconnect, PostCall, PostBare, NextPacket,
                      Continue, Push, Rearm, TryMark, Insert, working
  <2>4. ASSUME NEW w \in Workers,
               \/ \E s \in Sessions : PopSession(w, s)
               \/ NoMoreJobs(w) \/ ReadSize(w) \/ Requeue(w) \/ Unmark(w)
        PROVE  FinalInv'
    <3>1. UNCHANGED <<disc, done, cur>> /\ wat'[w] \notin {"take", "run"}
      BY <2>1, <2>4 DEF PopSession, NoMoreJobs, ReadSize, Requeue, Unmark, Release,
                        WorkerTypes
    <3>2. \A v \in Workers : v # w =>
            wat'[v] = wat[v] /\ held'[v] = held[v] /\ cnt'[v] = cnt[v]
      BY <2>1, <2>4 DEF PopSession, NoMoreJobs, ReadSize, Requeue, Unmark, Release,
                        WorkerTypes
    <3>3. QED
      BY <2>1, <3>1, <3>2, FinalStays DEF FinalInv, Disconnects, Visiting
  <2>5. ASSUME NEW w \in Workers, CheckSession(w)
        PROVE  FinalInv'
    <3>1. /\ UNCHANGED <<disc, done, cur, cnt>> /\ wat'[w] # "run"
          /\ wat'[w] = "take" => held'[w] = held[w] /\ held[w] \notin disc
      BY <2>1, <2>5 DEF CheckSession, Release, WorkerTypes
    <3>2. \A v \in Workers : v # w => wat'[v] = wat[v] /\ held'[v] = held[v]
      BY <2>1, <2>5 DEF CheckSession, Release, WorkerTypes
    <3>3. QED
      BY <2>1, <3>1, <3>2, FinalStays DEF FinalInv, Disconnects, Visiting
  <2>6. ASSUME NEW w \in Workers, TakeJob(w)
        PROVE  FinalInv'
    <3>1. PICK j \in jobs[held[w]] :
            /\ cur' = [cur EXCEPT ![w] = j]
            /\ disc' = IF j.kind = "logout" THEN disc \cup {held[w]} ELSE disc
      BY <2>6 DEF TakeJob
    <3>2. /\ UNCHANGED <<done, held, cnt>> /\ disc \subseteq disc'
          /\ wat[w] = "take" /\ wat'[w] = "run" /\ cur'[w] = j
          /\ j.kind = "logout" => held[w] \in disc'
      BY <2>1, <2>6, <3>1 DEF TakeJob, WorkerTypes
    <3>3. \A v \in Workers : v # w => wat'[v] = wat[v] /\ cur'[v] = cur[v]
      BY <2>1, <2>6, <3>1 DEF TakeJob, WorkerTypes
    <3>4. QED
      BY <2>1, <3>2, <3>3, FinalStays DEF FinalInv, Disconnects, Visiting
  <2>7. ASSUME NEW w \in Workers, FinishJob(w)
        PROVE  FinalInv'
    BY <2>1, <2>7, FinalFinish
  <2>8. CASE UNCHANGED vars
    BY <2>2, <2>8 DEF vars, working
  <2>9. QED
    BY <2>1, <2>3, <2>4, <2>5, <2>6, <2>7, <2>8 DEF Next, Work
<1>3. FinalInv => LogoutIsFinal
  BY DEF FinalInv
<1>4. QED
  BY <1>1, <1>2, <1>3, TypeInvariant, TokenInvariant, PTL DEF Spec

-----------------------------------------------------------------------------
(* The job queues implement the serial executor: a push is a Submit (the   *)
(* job is new: Fresh), taking a job is a Start (no other worker runs a job *)
(* of the session: OneToken), the end of a job is a Finish; every other    *)
(* step is a stutter of the executor.                                      *)

Runs(w, s) == wat[w] = "run" /\ held[w] = s

\* The job of the abstract executor is that of the one worker running one.
RunningIsCur ==
  /\ RunningJob = [s \in Sessions |-> RunningJob[s]]
  /\ \A s \in Sessions, w \in Workers : Runs(w, s) => RunningJob[s] = cur[w]
  /\ \A s \in Sessions :
       (\A w \in Workers : ~Runs(w, s)) => RunningJob[s] = NoJob

LEMMA Running == TypeOK /\ OneToken => RunningIsCur
<1> SUFFICES ASSUME TypeOK, OneToken PROVE RunningIsCur
  OBVIOUS
<1>1. RunningJob = [s \in Sessions |-> RunningJob[s]]
  BY DEF RunningJob
<1>2. ASSUME NEW s \in Sessions, NEW w \in Workers, Runs(w, s)
      PROVE  RunningJob[s] = cur[w]
  <2> DEFINE c == CHOOSE v \in Workers : wat[v] = "run" /\ held[v] = s
  <2>1. RunningJob[s] = cur[c]
    BY <1>2 DEF RunningJob, Runs
  <2>2. c \in Workers /\ wat[c] = "run" /\ held[c] = s
    BY <1>2 DEF Runs
  <2>3. c = w
    BY <1>2, <2>2 DEF OneToken, Holding, Runs
  <2>4. QED
    BY <2>1, <2>3
<1>3. ASSUME NEW s \in Sessions, \A w \in Workers : ~Runs(w, s)
      PROVE  RunningJob[s] = NoJob
  BY <1>3 DEF RunningJob, Runs
<1>4. QED
  BY <1>1, <1>2, <1>3 DEF RunningIsCur

\* A step that neither starts nor ends a job does not change what runs.
LEMMA RunningStays ==
  ASSUME RunningIsCur, RunningIsCur', cur' = cur,
         \A w \in Workers : wat'[w] = "run" <=> wat[w] = "run",
         \A w \in Workers : wat[w] = "run" => held'[w] = held[w]
  PROVE  RunningJob' = RunningJob
<1>1. \A s \in Sessions, w \in Workers : Runs(w, s)' <=> Runs(w, s)
  BY DEF Runs
<1>2. \A s \in Sessions : RunningJob'[s] = RunningJob[s]
  BY <1>1 DEF RunningIsCur
<1>3. QED
  BY <1>2 DEF RunningIsCur

\* The executor sees the push of a new job, its start and its end, and nothing
\* else of what the queues and the workers do.
THEOREM Implementation == Spec => ImplementsExecutor
<1>1. Init => Executor!Init
  BY DEF Init, Executor!Init, RunningJob
<1>2. ASSUME TypeOK, OneToken, OrderInv, RunningIsCur, RunningIsCur', [Next]_vars
      PROVE  [Executor!Next]_(Executor!vars)
  <2> USE DEF Executor!vars
  <2>1. SharedTypes /\ PosterTypes /\ WorkerTypes
    BY <1>2 DEF TypeOK
  <2>2. ASSUME NEW t \in Threads,
               \/ \E s \in Sessions : Begin(t, s)
               \/ NextPacket(t) \/ Rearm(t) \/ TryMark(t) \/ Insert(t)
        PROVE  UNCHANGED Executor!vars
    <3>1. UNCHANGED <<jobs, cur, wat, held, done>>
      BY <2>2 DEF Begin, Recv, Disconnect, PostCall, PostBare, NextPacket, Rearm,
                  TryMark, Insert, working
    <3>2. QED
      BY <1>2, <3>1, RunningStays
  <2>3. ASSUME NEW w \in Workers,
               \/ \E s \in Sessions : PopSession(w, s)
               \/ CheckSession(w) \/ NoMoreJobs(w) \/ ReadSize(w) \/ Requeue(w)
               \/ Unmark(w)
        PROVE  UNCHANGED Executor!vars
    BY <1>2, <2>1, <2>3, QuietWorker, RunningStays
  <2>4. ASSUME NEW t \in Threads, Push(t)
        PROVE  Executor!Submit(target[t], made[t]) /\ target[t] \in Sessions
                 /\ made[t] \in Job
    <3>1. at[t] = "push" /\ target[t] \in Sessions /\ made[t] \in Job
      BY <2>1, <2>4 DEF Push, PosterTypes
    <3>2. /\ UNCHANGED <<cur, wat, held, done>>
          /\ jobs' = [jobs EXCEPT ![target[t]] = @ \cup {made[t]}]
      BY <2>4 DEF Push, working
    <3>3. UNCHANGED RunningJob
      BY <1>2, <3>2, RunningStays
    <3>4. made[t] \notin PushedJobs
      BY <1>2, <3>1 DEF OrderInv, Fresh
    <3>5. ASSUME NEW r \in Sessions
          PROVE  made[t] \notin jobs[r] /\ made[t] # RunningJob[r]
                   /\ \A i \in 1..Len(done[r]) : done[r][i] # made[t]
      <4>1. jobs[r] \cup DoneSet(r) \subseteq PushedJobs
        BY DEF PushedJobs
      <4>2. RunningJob[r] \in RunningJobs \cup {NoJob}
        BY <1>2 DEF RunningIsCur, RunningJobs, Runs
      <4>3. RunningJobs \subseteq PushedJobs
        BY DEF PushedJobs
      <4>4. made[t] # RunningJob[r]
        BY <3>1, <3>4, <4>2, <4>3, NoJobAssumption
      <4>5. QED
        BY <3>4, <4>1, <4>4 DEF DoneSet
    <3>6. QED
      BY <3>1, <3>2, <3>3, <3>5 DEF Executor!Submit
  <2>5. ASSUME NEW w \in Workers, TakeJob(w)
        PROVE  held[w] \in Sessions /\ Executor!Start(held[w])
    <3>1. held[w] \in Sessions /\ wat[w] = "take"
      BY <2>1, <2>5 DEF TakeJob, WorkerTypes
    <3>2. PICK j \in jobs[held[w]] :
            /\ \A k \in jobs[held[w]] : j.stamp <= k.stamp
            /\ jobs' = [jobs EXCEPT ![held[w]] = @ \ {j}]
            /\ cur' = [cur EXCEPT ![w] = j]
      BY <2>5 DEF TakeJob
    <3>3. UNCHANGED <<held, done>> /\ wat' = [wat EXCEPT ![w] = "run"]
      BY <2>5 DEF TakeJob
    <3>4. \A v \in Workers : v # w => cur'[v] = cur[v] /\ wat'[v] = wat[v]
      BY <2>1, <3>2, <3>3 DEF WorkerTypes
    <3>5. cur'[w] = j /\ wat'[w] = "run"
      BY <2>1, <3>2, <3>3 DEF WorkerTypes
    <3>6. \A v \in Workers : ~Runs(v, held[w])
      BY <1>2, <3>1 DEF OneToken, Holding, Runs
    <3>7. RunningJob[held[w]] = NoJob
      BY <1>2, <3>1, <3>6 DEF RunningIsCur
    <3>8. \A r \in Sessions :
            RunningJob'[r] = IF r = held[w] THEN j ELSE RunningJob[r]
      <4>1. \A r \in Sessions, v \in Workers :
              Runs(v, r)' <=> (Runs(v, r) \/ (v = w /\ r = held[w]))
        BY <3>1, <3>3, <3>4, <3>5 DEF Runs
      <4>2. RunningJob'[held[w]] = j
        BY <1>2, <3>1, <3>5, <4>1 DEF RunningIsCur
      <4>3. ASSUME NEW r \in Sessions, r # held[w]
            PROVE  RunningJob'[r] = RunningJob[r]
        <5>1. \A v \in Workers : Runs(v, r)' <=> Runs(v, r)
          BY <4>1, <4>3
        <5>2. \A v \in Workers : Runs(v, r) => v # w
          BY <3>1 DEF Runs
        <5>3. QED
          BY <1>2, <3>4, <5>1, <5>2 DEF RunningIsCur
      <4>4. QED
        BY <4>2, <4>3
    <3>9. RunningJob' = [RunningJob EXCEPT ![held[w]] = j]
      BY <1>2, <3>8 DEF RunningIsCur
    <3>10. QED
      BY <3>1, <3>2, <3>3, <3>7, <3>9 DEF Executor!Start
  <2>6. ASSUME NEW w \in Workers, FinishJob(w)
        PROVE  held[w] \in Sessions /\ Executor!Finish(held[w])
    <3>1. /\ held[w] \in Sessions /\ wat[w] = "run" /\ wat'[w] # "run"
          /\ cur[w] \in Job
          /\ \A v \in Workers : v # w => cur'[v] = cur[v] /\ wat'[v] = wat[v]
      BY <2>1, <2>6 DEF FinishJob, WorkerTypes
    <3>2. /\ UNCHANGED <<held, jobs>>
          /\ done' = [done EXCEPT ![held[w]] = Append(@, cur[w])]
      BY <2>6 DEF FinishJob
    <3>3. Runs(w, held[w])
      BY <3>1 DEF Runs
    <3>4. RunningJob[held[w]] = cur[w]
      BY <1>2, <3>1, <3>3 DEF RunningIsCur
    <3>5. \A v \in Workers : Runs(v, held[w]) => v = w
      BY <1>2, <3>1, <3>3 DEF OneToken, Holding, Runs
    <3>6. \A r \in Sessions :
            RunningJob'[r] = IF r = held[w] THEN NoJob ELSE RunningJob[r]
      <4>1. \A r \in Sessions, v \in Workers :
              Runs(v, r)' <=> (Runs(v, r) /\ v # w)
        BY <3>1, <3>2 DEF Runs
      <4>2. RunningJob'[held[w]] = NoJob
        <5>1. \A v \in Workers : ~Runs(v, held[w])'
          BY <3>1, <3>2, <3>5 DEF Runs
        <5>2. held'[w] = held[w]
          BY <3>2
        <5>3. QED
          BY <1>2, <3>1, <3>5, <4>1, <5>2 DEF RunningIsCur
      <4>3. ASSUME NEW r \in Sessions, r # held[w]
            PROVE  RunningJob'[r] = RunningJob[r]
        <5>1. \A v \in Workers : Runs(v, r) => v # w
          BY <4>3 DEF Runs
        <5>2. QED
          BY <1>2, <3>1, <4>1, <5>1 DEF RunningIsCur
      <4>4. QED
        BY <4>2, <4>3
    <3>7. RunningJob' = [RunningJob EXCEPT ![held[w]] = NoJob]
      BY <1>2, <3>6 DEF RunningIsCur
    <3>8. RunningJob[held[w]] # NoJob
      BY <3>1, <3>4, NoJobAssumption
    <3>9. done' = [done EXCEPT ![held[w]] = Append(@, RunningJob[held[w]])]
      BY <3>2, <3>4
    <3>10. QED
      BY <3>1, <3>2, <3>7, <3>8, <3>9 DEF Executor!Finish
  <2>7. CASE UNCHANGED vars
    <3>1. UNCHANGED <<jobs, cur, wat, held, done>>
      BY <2>7 DEF vars, working
    <3>2. QED
      BY <1>2, <3>1, RunningStays
  <2>8. QED
    BY <1>2, <2>2, <2>3, <2>4, <2>5, <2>6, <2>7
       DEF Next, Continue, Work, Executor!Next
<1>3. QED
  <2>1. Spec => []RunningIsCur
    BY Running, TypeInvariant, TokenInvariant, PTL
  <2>2. QED
    BY <1>1, <1>2, <2>1, TypeInvariant, TokenInvariant, OrderInvariant, PTL
       DEF Spec, ImplementsExecutor, Executor!Spec
=============================================================================
