--------------------------- MODULE MCSessionJobs ----------------------------
(***************************************************************************)
(* Instances of SessionJobs for TLC: threads and NoJob are model values.   *)
(***************************************************************************)
EXTENDS SessionJobs, TLC

\* Threads are interchangeable; sessions are not (they are ordered).
Symmetry == Permutations(Workers) \cup Permutations(IocpThreads)
=============================================================================
