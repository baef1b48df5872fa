-------------------------- MODULE MCControlChannel --------------------------
(***************************************************************************)
(* Small instances of the control path: one call against a server process  *)
(* that dies, that is stopped and started, or whose native calls fail; two *)
(* calls, with ids of their own or with one id, that share the cache; and  *)
(* the life cycle alone, with failing native calls and a stop between.     *)
(***************************************************************************)
EXTENDS ControlChannel, TLC

CONSTANTS c1, c2

Bounds(calls, starts, stops, faults, breaks, crashes, ticks) ==
    ("calls" :> calls) @@ ("starts" :> starts) @@ ("stops" :> stops)
        @@ ("faults" :> faults) @@ ("breaks" :> breaks)
        @@ ("crashes" :> crashes)
        @@ ("ticks" :> ticks)

MCBudgets == {Bounds(1, 2, 0, 0, 2, 1, 3), Bounds(1, 2, 1, 0, 1, 0, 3), Bounds(1, 1, 0, 2, 1, 0, 3),
              Bounds(2, 1, 0, 0, 1, 0, 1), Bounds(0, 2, 1, 2, 0, 0, 0)}

First == [id |-> 1, body |-> "set"]

MCInit ==
    /\ Init
    /\ wire[c1] = First
    /\ wire[c2] \in {[id |-> 2, body |-> "set"], [id |-> 1, body |-> "show"]}
    /\ budget["calls"] < 2 => wire[c2].id = 2

MCSpec == MCInit /\ [][Next]_vars

Symmetry == Permutations(Instance)
=============================================================================
