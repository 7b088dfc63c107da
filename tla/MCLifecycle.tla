---------------------------- MODULE MCLifecycle -----------------------------
(***************************************************************************)
(* Lifecycle for two clients: of one name, or of a name each.  Which name  *)
(* is whose does not matter.                                               *)
(***************************************************************************)
EXTENDS Lifecycle

CONSTANTS c1, c2, n1, n2

MCClients == {c1, c2}
MCNames == {n1, n2}
MCChoices == {[c \in MCClients |-> n1], [c \in MCClients |-> IF c = c1 THEN n1 ELSE n2]}
=============================================================================
