---------------------------- MODULE DelayedCalls ----------------------------
(***************************************************************************)
(* What the timer and the completion port promise to the rest of the       *)
(* server: an event that was registered is a call of its handler, for its  *)
(* object, once, not before its time, on some thread.  TimerDispatch       *)
(* implements this module.                                                 *)
(***************************************************************************)
EXTENDS Naturals

CONSTANT Event      \* events: records with a field wake among others

VARIABLES
  clock,      \* the time
  pending,    \* events registered and not handled yet
  handled     \* events whose handler was called

vars == <<clock, pending, handled>>

Init ==
  /\ clock = 0
  /\ pending = {}
  /\ handled = {}

Tick ==
  /\ clock' = clock + 1
  /\ UNCHANGED <<pending, handled>>

\* An event is registered once.
Register(e) ==
  /\ e \notin pending \cup handled
  /\ pending' = pending \cup {e}
  /\ UNCHANGED <<clock, handled>>

Handle(e) ==
  /\ e \in pending
  /\ clock >= e.wake
  /\ pending' = pending \ {e}
  /\ handled' = handled \cup {e}
  /\ UNCHANGED clock

Next ==
  \/ Tick
  \/ \E e \in Event : Register(e) \/ Handle(e)

Spec == Init /\ [][Next]_vars
=============================================================================
