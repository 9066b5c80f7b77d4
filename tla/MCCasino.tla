------------------------------- MODULE MCCasino -------------------------------
(***************************************************************************)
(* Small instances of Casino for TLC.  A behaviour is of one scene: three  *)
(* bets whose payments run, wait in the queue or fail while the operator   *)
(* leaves the game alone, or two bets while he does not.                   *)
(***************************************************************************)
EXTENDS Casino

CONSTANTS Scenes

VARIABLE scene

Quiet == INSTANCE Casino WITH Mins <- {}, Chosen <- {}
Busy == INSTANCE Casino WITH MaxBets <- 2, MaxUnpaid <- 1, Numbers <- {50}

(* The game is registered once, and stays as it is.                        *)
Still == games # EmptyTable => games' = games /\ initDue' \in {initDue, Nobody}

SceneInit == CasinoInit /\ scene \in Scenes
SceneNext ==
    /\ \/ scene = "payments" /\ Quiet!CasinoNext /\ Still
       \/ scene = "operator" /\ Busy!CasinoNext
    /\ UNCHANGED scene

SceneSpec == SceneInit /\ [][SceneNext]_<<casinoVars, scene>>
=============================================================================
