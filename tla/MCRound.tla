------------------------------- MODULE MCRound -------------------------------
(***************************************************************************)
(* Small instances of RoundGame for TLC.  A behaviour is of one scene: an  *)
(* operator who sets the counter of rounds back while time passes bit by   *)
(* bit, or one who does not while all goes on fairly and the rings wrap.   *)
(***************************************************************************)
EXTENDS RoundGame

CONSTANTS p1

VARIABLE scene

sceneVars == <<vars, scene>>

(* Two outcomes; type 1 wins on the first, type 2 pays back less than its  *)
(* stake on it (bullfight), and triples on the second.                     *)
Odds == <<(1 :> 196 @@ 2 :> 60), (1 :> 0 @@ 2 :> 300)>>

Line(type, amount) == [type |-> type, amount |-> amount]
SingleAndDouble == {<<Line(1, 1)>>, <<Line(1, 1), Line(2, 1)>>}

Play == INSTANCE RoundGame WITH TimeSteps <- {1, 5}, MaxRound <- 3, MaxBets <- 3, HistorySize <- 2, ResultSize <- 2,
            GlobalWrites <- {<<"game", 0>>}
Live == INSTANCE RoundGame WITH TimeSteps <- {6}, GlobalWrites <- {}

(* The first bet is p1's: the players are alike, so nothing is missed.     *)
FirstIsP1 == LastBetId = 0 => \A b \in DOMAIN bets' : bets'[b].player = p1

SceneInit == Init /\ scene \in {"play", "live"}
SceneNext ==
    /\ \/ scene = "play" /\ Play!Next
       \/ scene = "live" /\ Live!Next
    /\ FirstIsP1
    /\ UNCHANGED scene

(* Fairness of RoundGame where all goes on.                                *)
InLive(A) == scene = "live" /\ A /\ UNCHANGED scene
SceneFairness ==
    /\ WF_sceneVars(InLive(\E d \in {6} : Live!Tick(d)))
    /\ WF_sceneVars(InLive(\E o \in Outcomes : Live!Reveal(o)))
    /\ WF_sceneVars(InLive(Live!RunRestart \/ Live!FailRestart))
    /\ \A p \in Players : WF_sceneVars(InLive(Live!RunPayment(p) \/ Live!FailPayment(p)))

SceneSpec == SceneInit /\ [][SceneNext]_sceneVars /\ SceneFairness

(* Both rings hold what happened last, over their wraps, as long as their  *)
(* indices and the rounds only go forward (round_based_contract.hpp:240,   *)
(* :281).                                                                  *)
RingsHoldTheLast == scene = "live" => RingsRecent

(* Every bet is paid, or its payment fails, unless the operator closes a   *)
(* round by hand: late or failed deferred calls only delay the reveal      *)
(* (round_based_contract.hpp:113-128, :200-290).                           *)
BetsAnswered == scene = "live" => Live!EveryBetAnswered
=============================================================================
