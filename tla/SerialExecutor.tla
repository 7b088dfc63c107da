--------------------------- MODULE SerialExecutor ---------------------------
(***************************************************************************)
(* What the per-session job queues promise to the rest of the server: a    *)
(* session is a serial executor.  Jobs are submitted from anywhere, at any *)
(* time, and every job runs at most once, alone on its session, oldest     *)
(* stamp first.  Which worker runs it, the session queue and the enqueued  *)
(* mark are the business of SessionJobs, which implements this module.     *)
(***************************************************************************)
EXTENDS Integers, Sequences

CONSTANTS
  Sessions,   \* the players' sessions (CClient objects)
  Job,        \* jobs, with the fields id and stamp
  NoJob       \* "no job is running"

VARIABLES
  pending,    \* [Sessions -> SUBSET Job] submitted, not started
  running,    \* [Sessions -> Job \cup {NoJob}] the job running on the session
  done        \* [Sessions -> Seq(Job)] jobs that finished, in order

vars == <<pending, running, done>>

Init ==
  /\ pending = [s \in Sessions |-> {}]
  /\ running = [s \in Sessions |-> NoJob]
  /\ done = [s \in Sessions |-> <<>>]

\* JobQueue::PushJob: a job is submitted once, whatever the session is doing.
Submit(s, j) ==
  /\ \A r \in Sessions : /\ j \notin pending[r]
                         /\ j # running[r]
                         /\ \A i \in 1..Len(done[r]) : done[r][i] # j
  /\ pending' = [pending EXCEPT ![s] = @ \cup {j}]
  /\ UNCHANGED <<running, done>>

\* One of the oldest pending jobs starts, and only on an idle session.
Start(s) ==
  /\ running[s] = NoJob
  /\ \E j \in pending[s] :
       /\ \A k \in pending[s] : j.stamp <= k.stamp
       /\ pending' = [pending EXCEPT ![s] = @ \ {j}]
       /\ running' = [running EXCEPT ![s] = j]
  /\ UNCHANGED done

Finish(s) ==
  /\ running[s] # NoJob
  /\ done' = [done EXCEPT ![s] = Append(@, running[s])]
  /\ running' = [running EXCEPT ![s] = NoJob]
  /\ UNCHANGED pending

Next ==
  \E s \in Sessions :
    \/ \E j \in Job : Submit(s, j)
    \/ Start(s)
    \/ Finish(s)

Spec == Init /\ [][Next]_vars
=============================================================================
