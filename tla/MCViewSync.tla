----------------------------- MODULE MCViewSync -----------------------------
(* A crooked path through three sections that are one view range wide: a    *)
(* player in game at its far end, another who logs in at the near one, and  *)
(* a monster in between.                                                    *)
EXTENDS MonsterViews

MCGround == {<<0, 1>>, <<1, 1>>, <<2, 1>>, <<2, 2>>}
MCSpawn == <<0, 1>>
MCHome == <<1, 1>>
MCSeats == [p \in {"a"} |-> <<2, 2>>]
MCDens == [m \in {"m"} |-> <<1, 1>>]
MCOf == [t \in {"n"} |-> "m"]
MCCasts == [c \in {{"a", "b"}, {"a", "m"}, {"b", "m"}, {"a", "b", "m"}} |->
              CASE c = {"a", "b"} -> 2 [] c = {"a", "m"} -> 2 [] c = {"b", "m"} -> 3 [] OTHER -> 1]
=============================================================================
