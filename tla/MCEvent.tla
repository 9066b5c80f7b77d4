------------------------------- MODULE MCEvent -------------------------------
(***************************************************************************)
(* Small instances of Event for TLC.  A behaviour is of one scene: Event   *)
(* with less to choose from, in the same state.                            *)
(***************************************************************************)
EXTENDS Event

CONSTANT Scenes

VARIABLE scene

Even == {<<200, 200>>}
Odd == {<<150, 300>>}
LimitWrites == {<<"max", 3>>}

OneEvent == INSTANCE Event WITH MaxEvents <- 1
TwoEvents == INSTANCE Event WITH Amounts <- {1}, GlobalWrites <- {}, DefaultMaxBet <- 1,
             MaxBets <- 2

SceneInit == Init /\ scene \in Scenes
SceneNext ==
    /\ \/ scene = "one event" /\ OneEvent!Next
       \/ scene = "two events" /\ TwoEvents!Next
    /\ UNCHANGED scene

SceneSpec == SceneInit /\ [][SceneNext]_<<vars, scene>>

Symmetry == Permutations(Players)
=============================================================================
