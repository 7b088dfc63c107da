---------------------------- MODULE SessionJobs -----------------------------
(***************************************************************************)
(* The job queues of the server: one priority queue of jobs per session    *)
(* (JobQueue in JobQueue.h), one queue of sessions that have work          *)
(* (PacketJobQueue), the "enqueued" mark of CClient that keeps a session   *)
(* from being queued twice, the worker threads that drain both             *)
(* (PacketJobQueue::ProcessJob) and the threads that post jobs: the IOCP   *)
(* threads (received packets, failed operations, heal events, NPC          *)
(* updates) and the workers themselves, while they run a job.              *)
(*                                                                         *)
(* A step is one access to shared state; between two steps of a thread     *)
(* every other thread may run.  Sessions are numbered by the address of    *)
(* their CClient, since the session queue orders plain pointers.  The      *)
(* sessions start accepted, with a receive outstanding and no work.        *)
(***************************************************************************)
EXTENDS Integers, FiniteSets, Sequences

CONSTANTS
  Sessions,       \* sessions, by address
  Workers,        \* threads that run PacketJobQueue::ProcessJob
  IocpThreads,    \* threads that run CNetworkMgr::IOCPFunc
  Kinds,          \* the kinds of operation that post jobs in this instance
  MaxJobProcess,  \* jobs run per visit of a session (MAX_JOB_PROCESS)
  MaxJobs,        \* bound of the model: jobs ever constructed
  NoJob           \* no job in hand

Threads == Workers \cup IocpThreads

\* packet: Recv; logout: Disconnect; call: a job followed by AddSessionQueue
\* (heal, attack, move and view jobs); bare: the removal loop of
\* CNpc::ViewListUpdate, which posts a job and nothing else.
AllKinds == {"packet", "logout", "call", "bare"}

Null == 0           \* the null CClient pointer

ASSUME SessionAssumption == Sessions \subseteq Nat \ {Null}
ASSUME ThreadAssumption == Workers \cap IocpThreads = {}
ASSUME KindAssumption == Kinds \subseteq AllKinds
ASSUME BoundAssumption ==
  /\ MaxJobProcess \in Nat \ {0}
  /\ MaxJobs \in Nat

\* A posted closure: what it is, when it was constructed (m_RegisterTime) and
\* an identity that only the properties use.
Job == [id : 1..MaxJobs, kind : Kinds, stamp : 0..MaxJobs]

ASSUME NoJobAssumption == NoJob \notin Job

VARIABLES
  now,      \* the clock, as far as the stamps can tell its readings apart
  nextId,   \* identity of the next job
  jobs,     \* CClient::m_jobQueue: the jobs of a session, a set ordered by stamp
  marked,   \* sessions with m_isEnqueued = true
  disc,     \* sessions with m_isDisconnected = true
  armed,    \* sessions with a WSARecv outstanding
  queue,    \* PacketJobQueue::m_jobQueue: how many times a session is in it
  at,       \* where a posting thread is
  target,   \* the session it posts to
  made,     \* the job it has constructed
  wat,      \* where a worker is in ProcessJob
  held,     \* the session it holds
  cur,      \* the job it is running
  cnt,      \* jobcnt of JobQueue::ProcessJob
  done      \* history: the jobs that ran to the end, in order, per session

posting == <<at, target, made>>
working == <<wat, held, cur, cnt>>
vars == <<now, nextId, jobs, marked, disc, armed, queue, posting, working, done>>

Places == {"idle", "push", "pushed", "cas", "insert"}
WorkPlaces == {"pop", "check", "take", "run", "size", "requeue", "unmark"}

SharedTypes ==
  /\ nextId \in 1..(MaxJobs + 1)
  /\ now \in 0..(nextId - 1)
  /\ jobs \in [Sessions -> SUBSET Job]
  /\ marked \subseteq Sessions
  /\ disc \subseteq Sessions
  /\ armed \subseteq Sessions
  /\ queue \in [Sessions -> Nat]
  /\ done \in [Sessions -> Seq(Job)]

PosterTypes ==
  /\ at \in [Threads -> Places]
  /\ target \in [Threads -> Sessions \cup {Null}]
  /\ made \in [Threads -> Job \cup {NoJob}]
  /\ \A t \in Threads : /\ made[t] # NoJob <=> at[t] = "push"
                        /\ target[t] # Null <=> at[t] # "idle"

WorkerTypes ==
  /\ wat \in [Workers -> WorkPlaces]
  /\ held \in [Workers -> Sessions \cup {Null}]
  /\ cur \in [Workers -> Job \cup {NoJob}]
  /\ cnt \in [Workers -> 0..(MaxJobProcess - 1)]
  /\ \A w \in Workers : /\ cur[w] # NoJob <=> wat[w] = "run"
                        /\ held[w] # Null <=> wat[w] # "pop"

\* Every variable has its type; a thread holds a job and a session exactly where
\* the code has one in a local variable.
TypeOK == SharedTypes /\ PosterTypes /\ WorkerTypes

Init ==
  /\ now = 0
  /\ nextId = 1
  /\ jobs = [s \in Sessions |-> {}]
  /\ marked = {}
  /\ disc = {}
  /\ armed = Sessions
  /\ queue = [s \in Sessions |-> 0]
  /\ at = [t \in Threads |-> "idle"]
  /\ target = [t \in Threads |-> Null]
  /\ made = [t \in Threads |-> NoJob]
  /\ wat = [w \in Workers |-> "pop"]
  /\ held = [w \in Workers |-> Null]
  /\ cur = [w \in Workers |-> NoJob]
  /\ cnt = [w \in Workers |-> 0]
  /\ done = [s \in Sessions |-> <<>>]

-----------------------------------------------------------------------------
(* What several actions have in common.                                    *)

\* Threads that may begin an operation that posts: an idle IOCP thread, and a
\* worker only from inside the job it is running.
MayPost(t) ==
  /\ at[t] = "idle"
  /\ t \in Workers => wat[t] = "run"

\* Job<Func>::Job: the job is stamped when it is constructed, before it is
\* pushed; two readings of the clock may be equal.
Construct(t, s, k) ==
  /\ k \in Kinds
  /\ nextId <= MaxJobs
  /\ nextId' = nextId + 1
  /\ now' \in {now, now + 1}
  /\ made' = [made EXCEPT ![t] = [id |-> nextId, kind |-> k, stamp |-> now']]
  /\ target' = [target EXCEPT ![t] = s]
  /\ at' = [at EXCEPT ![t] = "push"]

\* Where a thread goes once its job is in the queue of the session.
AfterPush(k) == CASE k = "packet" -> "pushed"
                  [] k = "bare" -> "idle"
                  [] OTHER -> "cas"

\* The visit of a session ends: the worker lets go of it.
Release(w) ==
  /\ held' = [held EXCEPT ![w] = Null]
  /\ wat' = [wat EXCEPT ![w] = "pop"]

-----------------------------------------------------------------------------
(* Faults: what an action would be with one plausible mistake in the code. *)
(* No specification uses them; a mutation run puts one in the place of the *)
(* action it is named after, to see that a property notices.               *)

\* The receive is armed again before its packets are pushed.
RecvRearmsFirst(t, s) ==
  /\ t \in IocpThreads
  /\ MayPost(t)
  /\ s \in armed
  /\ Construct(t, s, "packet")
  /\ UNCHANGED <<jobs, marked, disc, armed, queue, working, done>>

\* AddSessionQueue stores the mark without testing it.
TryMarkBlindly(t) ==
  /\ at[t] = "cas"
  /\ at' = [at EXCEPT ![t] = "insert"]
  /\ marked' = marked \cup {target[t]}
  /\ UNCHANGED <<now, nextId, jobs, disc, armed, queue, target, made, working,
                 done>>

\* ProcessJob visits disconnected sessions too.
CheckSessionNever(w) ==
  /\ wat[w] = "check"
  /\ wat' = [wat EXCEPT ![w] = "take"]
  /\ UNCHANGED <<now, nextId, jobs, marked, disc, armed, queue, posting, held,
                 cur, cnt, done>>

\* JobComparer the other way round: the youngest job comes out first.
TakeYoungestJob(w) ==
  /\ wat[w] = "take"
  /\ \E j \in jobs[held[w]] :
       /\ \A k \in jobs[held[w]] : j.stamp >= k.stamp
       /\ jobs' = [jobs EXCEPT ![held[w]] = @ \ {j}]
       /\ cur' = [cur EXCEPT ![w] = j]
       /\ disc' = IF j.kind = "logout" THEN disc \cup {held[w]} ELSE disc
  /\ wat' = [wat EXCEPT ![w] = "run"]
  /\ UNCHANGED <<now, nextId, marked, armed, queue, posting, held, cnt, done>>

\* jobcnt is compared before it counts the job that just ran.
FinishJobLate(w) ==
  /\ wat[w] = "run"
  /\ at[w] = "idle"
  /\ done' = [done EXCEPT ![held[w]] = Append(@, cur[w])]
  /\ cur' = [cur EXCEPT ![w] = NoJob]
  /\ cnt' = [cnt EXCEPT ![w] = IF cnt[w] >= MaxJobProcess THEN 0 ELSE @ + 1]
  /\ wat' = [wat EXCEPT ![w] = IF cnt[w] >= MaxJobProcess THEN "size" ELSE "take"]
  /\ UNCHANGED <<now, nextId, jobs, marked, disc, armed, queue, posting, held>>

\* JobQueueSize() > 1.
ReadSizeOffByOne(w) ==
  /\ wat[w] = "size"
  /\ wat' = [wat EXCEPT ![w] = IF Cardinality(jobs[held[w]]) > 1 THEN "requeue"
                               ELSE "unmark"]
  /\ UNCHANGED <<now, nextId, jobs, marked, disc, armed, queue, posting, held,
                 cur, cnt, done>>

\* A session that still has jobs is not put back.
RequeueNowhere(w) ==
  /\ wat[w] = "requeue"
  /\ Release(w)
  /\ UNCHANGED <<now, nextId, jobs, marked, disc, armed, queue, posting, cur, cnt,
                 done>>

-----------------------------------------------------------------------------
(* The threads that post.                                                  *)

\* CNetworkMgr::Recv: the receive of the session has completed with at least one
\* whole packet; the first becomes a job.  (A receive that completes no
\* packet posts nothing and is armed again at once.)
Recv(t, s) ==
  /\ t \in IocpThreads
  /\ MayPost(t)
  /\ s \in armed
  /\ armed' = armed \ {s}
  /\ Construct(t, s, "packet")
  /\ UNCHANGED <<jobs, marked, disc, queue, working, done>>

\* The next packet of the same buffer.
NextPacket(t) ==
  /\ at[t] = "pushed"
  /\ Construct(t, target[t], "packet")
  /\ UNCHANGED <<jobs, marked, disc, armed, queue, working, done>>

\* CSession::RecvPacket at the end of Recv: the session can receive again,
\* before this thread has put it into the session queue.
Rearm(t) ==
  /\ at[t] = "pushed"
  /\ armed' = armed \cup {target[t]}
  /\ at' = [at EXCEPT ![t] = "cas"]
  /\ UNCHANGED <<now, nextId, jobs, marked, disc, queue, target, made, working,
                 done>>

\* CNetworkMgr::Disconnect, for a receive (which is then not armed again) or
\* for a send that failed: once per failed operation.
Disconnect(t, s) ==
  /\ t \in IocpThreads
  /\ MayPost(t)
  /\ Construct(t, s, "logout")
  /\ \/ s \in armed /\ armed' = armed \ {s}
     \/ UNCHANGED armed
  /\ UNCHANGED <<jobs, marked, disc, queue, working, done>>

\* CNetworkMgr::PlayerHeal, CNpc::Attack and the first loop of
\* CNpc::ViewListUpdate on an IOCP thread; the loops of CClient::Move,
\* Damaged and Logout on a worker, inside a job of another session.
PostCall(t, s) ==
  /\ MayPost(t)
  /\ Construct(t, s, "call")
  /\ UNCHANGED <<jobs, marked, disc, armed, queue, working, done>>

\* The second loop of CNpc::ViewListUpdate.
PostBare(t, s) ==
  /\ t \in IocpThreads
  /\ MayPost(t)
  /\ Construct(t, s, "bare")
  /\ UNCHANGED <<jobs, marked, disc, armed, queue, working, done>>

\* JobQueue::PushJob.
Push(t) ==
  /\ at[t] = "push"
  /\ jobs' = [jobs EXCEPT ![target[t]] = @ \cup {made[t]}]
  /\ at' = [at EXCEPT ![t] = AfterPush(made[t].kind)]
  /\ made' = [made EXCEPT ![t] = NoJob]
  /\ target' = IF made[t].kind = "bare" THEN [target EXCEPT ![t] = Null] ELSE target
  /\ UNCHANGED <<now, nextId, marked, disc, armed, queue, working, done>>

\* PacketJobQueue::AddSessionQueue: the compare-and-exchange of TryMarkInQueue.
TryMark(t) ==
  /\ at[t] = "cas"
  /\ IF target[t] \in marked
       THEN /\ at' = [at EXCEPT ![t] = "idle"]
            /\ target' = [target EXCEPT ![t] = Null]
            /\ UNCHANGED marked
       ELSE /\ at' = [at EXCEPT ![t] = "insert"]
            /\ marked' = marked \cup {target[t]}
            /\ UNCHANGED target
  /\ UNCHANGED <<now, nextId, jobs, disc, armed, queue, made, working, done>>

\* ... and the push of the session, by the thread that set the mark.
Insert(t) ==
  /\ at[t] = "insert"
  /\ queue' = [queue EXCEPT ![target[t]] = @ + 1]
  /\ at' = [at EXCEPT ![t] = "idle"]
  /\ target' = [target EXCEPT ![t] = Null]
  /\ UNCHANGED <<now, nextId, jobs, marked, disc, armed, made, working, done>>

-----------------------------------------------------------------------------
(* The workers.                                                            *)

\* try_pop of the session queue: the greatest pointer comes out first.
PopSession(w, s) ==
  /\ wat[w] = "pop"
  /\ queue[s] > 0
  /\ \A r \in Sessions : queue[r] > 0 => r <= s
  /\ queue' = [queue EXCEPT ![s] = @ - 1]
  /\ held' = [held EXCEPT ![w] = s]
  /\ wat' = [wat EXCEPT ![w] = "check"]
  /\ UNCHANGED <<now, nextId, jobs, marked, disc, armed, posting, cur, cnt, done>>

\* A disconnected session is dropped, its mark left set; any other is visited.
CheckSession(w) ==
  /\ wat[w] = "check"
  /\ IF held[w] \in disc
       THEN Release(w)
       ELSE wat' = [wat EXCEPT ![w] = "take"] /\ UNCHANGED held
  /\ UNCHANGED <<now, nextId, jobs, marked, disc, armed, queue, posting, cur, cnt,
                 done>>

\* try_pop of the job queue: an oldest job, and its first statement: Logout
\* sets m_isDisconnected before anything else.
TakeJob(w) ==
  /\ wat[w] = "take"
  /\ \E j \in jobs[held[w]] :
       /\ \A k \in jobs[held[w]] : j.stamp <= k.stamp
       /\ jobs' = [jobs EXCEPT ![held[w]] = @ \ {j}]
       /\ cur' = [cur EXCEPT ![w] = j]
       /\ disc' = IF j.kind = "logout" THEN disc \cup {held[w]} ELSE disc
  /\ wat' = [wat EXCEPT ![w] = "run"]
  /\ UNCHANGED <<now, nextId, marked, armed, queue, posting, held, cnt, done>>

\* The job returns (everything it had to post is posted).  The visit ends after
\* MaxJobProcess jobs; jobcnt is a local, zero at the next visit.
FinishJob(w) ==
  LET last == cnt[w] + 1 >= MaxJobProcess IN
  /\ wat[w] = "run"
  /\ at[w] = "idle"
  /\ done' = [done EXCEPT ![held[w]] = Append(@, cur[w])]
  /\ cur' = [cur EXCEPT ![w] = NoJob]
  /\ cnt' = [cnt EXCEPT ![w] = IF last THEN 0 ELSE @ + 1]
  /\ wat' = [wat EXCEPT ![w] = IF last THEN "size" ELSE "take"]
  /\ UNCHANGED <<now, nextId, jobs, marked, disc, armed, queue, posting, held>>

NoMoreJobs(w) ==
  /\ wat[w] = "take"
  /\ jobs[held[w]] = {}
  /\ wat' = [wat EXCEPT ![w] = "size"]
  /\ cnt' = [cnt EXCEPT ![w] = 0]
  /\ UNCHANGED <<now, nextId, jobs, marked, disc, armed, queue, posting, held,
                 cur, done>>

\* JobQueueSize() > 0, evaluated; what follows from it is a later step.
ReadSize(w) ==
  /\ wat[w] = "size"
  /\ wat' = [wat EXCEPT ![w] = IF jobs[held[w]] # {} THEN "requeue" ELSE "unmark"]
  /\ UNCHANGED <<now, nextId, jobs, marked, disc, armed, queue, posting, held,
                 cur, cnt, done>>

Requeue(w) ==
  /\ wat[w] = "requeue"
  /\ queue' = [queue EXCEPT ![held[w]] = @ + 1]
  /\ Release(w)
  /\ UNCHANGED <<now, nextId, jobs, marked, disc, armed, posting, cur, cnt, done>>

Unmark(w) ==
  /\ wat[w] = "unmark"
  /\ marked' = marked \ {held[w]}
  /\ Release(w)
  /\ UNCHANGED <<now, nextId, jobs, disc, armed, queue, posting, cur, cnt, done>>

-----------------------------------------------------------------------------
\* Operations that begin because of the outside world: no fairness.
Begin(t, s) ==
  \/ Recv(t, s)
  \/ Disconnect(t, s)
  \/ PostCall(t, s)
  \/ PostBare(t, s)

\* The rest of an operation: the operating system runs every thread.
Continue(t) ==
  \/ Push(t)
  \/ Rearm(t)
  \/ TryMark(t)
  \/ Insert(t)

Work(w) ==
  \/ \E s \in Sessions : PopSession(w, s)
  \/ CheckSession(w)
  \/ TakeJob(w)
  \/ NoMoreJobs(w)
  \/ FinishJob(w)
  \/ ReadSize(w)
  \/ Requeue(w)
  \/ Unmark(w)

Next ==
  \/ \E t \in Threads : \/ \E s \in Sessions : Begin(t, s)
                        \/ NextPacket(t)
                        \/ Continue(t)
  \/ \E w \in Workers : Work(w)

Spec == Init /\ [][Next]_vars

\* The operating system runs every thread; which session a worker then gets is up to
\* the order of the session queue.
Fairness ==
  /\ \A t \in Threads : WF_vars(Continue(t))
  /\ \A w \in Workers : WF_vars(Work(w))

FairSpec == Spec /\ Fairness

-----------------------------------------------------------------------------
(* Properties.                                                             *)

Inserting(t, s) == at[t] = "insert" /\ target[t] = s
Holding(w, s) == wat[w] # "pop" /\ held[w] = s

\* A session is never visited by two workers at once, so its jobs, and the
\* state of its player that only they touch, need no lock.
SerialSessions ==
  \A v, w \in Workers, s \in Sessions : Holding(v, s) /\ Holding(w, s) => v = w

\* The mark is a token: a marked session is in the session queue once, or on its
\* way there with one thread, or with one worker, and never in two of these.
OneToken ==
  \A s \in Sessions :
    /\ queue[s] \in {0, 1}
    /\ queue[s] = 1 => s \in marked
    /\ \A t \in Threads : Inserting(t, s) => s \in marked /\ queue[s] = 0
    /\ \A w \in Workers : Holding(w, s) => s \in marked /\ queue[s] = 0
    /\ \A t \in Threads, w \in Workers : ~(Inserting(t, s) /\ Holding(w, s))
    /\ \A t, u \in Threads : Inserting(t, s) /\ Inserting(u, s) => t = u
    /\ \A v, w \in Workers : Holding(v, s) /\ Holding(w, s) => v = w

\* A marked session that nobody will visit again is a disconnected one: the mark
\* of a live session is never left set with the session nowhere.
NoOrphanSession ==
  \A s \in marked \ disc :
    \/ queue[s] > 0
    \/ \E t \in Threads : Inserting(t, s)
    \/ \E w \in Workers : Holding(w, s)

DoneSet(s) == {done[s][i] : i \in 1..Len(done[s])}

\* Jobs of the session that run or ran.
Started(s) ==
  DoneSet(s) \cup {cur[w] : w \in {v \in Workers : Holding(v, s) /\ wat[v] = "run"}}

\* Jobs for the session that a worker has yet to take.
Waiting(s) ==
  jobs[s] \cup {made[t] : t \in {u \in Threads : at[u] = "push" /\ target[u] = s}}

\* The packets of a connection are processed in the order they were received;
\* only two that the clock stamped alike can change places.
PacketsInOrder ==
  \A s \in Sessions : \A j \in Started(s), k \in Waiting(s) :
    j.kind = "packet" /\ k.kind = "packet" /\ k.id < j.id => k.stamp = j.stamp

\* Once Logout has run, a session runs at most the rest of that one visit:
\* fewer than MaxJobProcess jobs, whatever is still posted to it.
LogoutIsFinal ==
  \A s \in Sessions : \A i \in 1..Len(done[s]) :
    done[s][i].kind = "logout" => Len(done[s]) - i < MaxJobProcess

\* A live session with jobs is marked, or some thread is still posting to it
\* and will try to: no job is left waiting for an unrelated later one.
NoStrandedJob ==
  \A s \in Sessions \ disc :
    jobs[s] # {} =>
      \/ s \in marked
      \/ \E t \in Threads : target[t] = s

\* The job a session is running, for the abstract executor.
RunningJob ==
  [s \in Sessions |->
    IF \E w \in Workers : wat[w] = "run" /\ held[w] = s
      THEN cur[CHOOSE w \in Workers : wat[w] = "run" /\ held[w] = s]
      ELSE NoJob]

Executor == INSTANCE SerialExecutor WITH pending <- jobs, running <- RunningJob

\* The queues and the workers implement a serial executor per session: every
\* job is taken at most once, alone, oldest stamp first.
ImplementsExecutor == Executor!Spec

\* Something goes before job i of session s every time: the session queue gives out
\* the highest address first, and of two jobs stamped alike either may be taken.
Outranked(s, i) ==
  \/ \E r \in Sessions : r > s /\ queue[r] > 0
  \/ \E j, k \in jobs[s] : j.id = i /\ k.id # i /\ k.stamp = j.stamp

\* A job that is in the queue of a session when the session is in the session
\* queue runs, unless the session is disconnected first or the job is outranked
\* again and again: sessions of higher address that are kept busy starve the others.
ServedUnlessOutranked ==
  \A s \in Sessions, i \in 1..MaxJobs :
    <>[]~Outranked(s, i) =>
      ((queue[s] > 0 /\ \E j \in jobs[s] : j.id = i)
         ~> (s \in disc \/ \E j \in DoneSet(s) : j.id = i))
=============================================================================
