------------------------------- MODULE MCHouse -------------------------------
(***************************************************************************)
(* Small instances of House for TLC.  Money, days and points together are  *)
(* too many states, so a behaviour is of one scene: House with less to     *)
(* choose from, in the same state.  In two of the scenes only p1 plays.    *)
(***************************************************************************)
EXTENDS House

CONSTANTS Scenes, p1

VARIABLE scene

Money == INSTANCE House WITH Names <- {}, GameIds <- {9}, PlayAllIds <- {9},
            Stakes <- {1000000}, Bets <- {1000000}, RewardTypes <- {}, ChestTypes <- {},
            Keys <- {}, TimeSteps <- {}
People == INSTANCE House WITH Stakes <- {1000000}, Deposits <- {}, Mins <- {}, Maxes <- {},
            MaxUnpaid <- 0, MaxIn <- 2000000, MaxOut <- 2010000,
            RewardTypes <- {}, ChestTypes <- {}, Keys <- {}
Loyalty == INSTANCE House WITH Stakes <- {100000, 5000000}, Deposits <- {}, Bets <- {},
            Mins <- {}, Maxes <- {}, TimeSteps <- {},
            MaxUnpaid <- 0, MaxIn <- 5100000, MaxOut <- 20000, MaxHoldings <- 5100000

(* Nobody but p1 plays, and no player refers another.                      *)
Alone ==
    /\ \A p \in Players \ {p1} : p \notin DOMAIN players' /\ due'[p] = due[p]
    /\ \A p \in DOMAIN players' : players'[p].referer \notin Players
    /\ \A id \in DOMAIN unpaid' : unpaid'[id].referer \notin Players

SceneInit == Init /\ scene \in Scenes
SceneNext ==
    /\ \/ scene = "money" /\ Money!Next /\ Alone
       \/ scene = "people" /\ People!Next
       \/ scene = "points" /\ Loyalty!Next /\ Alone
       \/ scene = "whole" /\ Next
    /\ UNCHANGED scene

SceneSpec == SceneInit /\ [][SceneNext]_<<vars, scene>>
=============================================================================
