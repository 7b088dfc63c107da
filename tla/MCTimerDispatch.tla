-------------------------- MODULE MCTimerDispatch ---------------------------
(***************************************************************************)
(* Instances of TimerDispatch for TLC: threads and objects are model       *)
(* values; overlapped objects are addresses, which the pool compares.      *)
(***************************************************************************)
EXTENDS TimerDispatch, TLC

Symmetry == Permutations(IocpThreads) \cup Permutations(Senders)
=============================================================================
