----------------------------- MODULE MCNpcLife ------------------------------
(***************************************************************************)
(* Instances of NpcLife for TLC: players and threads are model values.     *)
(***************************************************************************)
EXTENDS NpcLife, TLC

Symmetry == Permutations(Players) \cup Permutations(IocpThreads)
=============================================================================
