----------------------------- MODULE MCBlackjack -----------------------------
(***************************************************************************)
(* Small instances of Blackjack for TLC.  Every hand of two players in     *)
(* every order is too many states, so a behaviour is of one scene: the     *)
(* cards of one game of p1, or many games with one kind of card.           *)
(***************************************************************************)
EXTENDS Blackjack

CONSTANTS Scenes, p1

VARIABLE scene

sceneVars == <<vars, scene>>

Cards == INSTANCE Blackjack WITH Amounts <- {3}, Moves <- {"hit", "stand"},
            GlobalWrites <- {}, MaxGames <- 1, GameMaxTime <- 0
Games == INSTANCE Blackjack WITH CardPoints <- {10}, Moves <- {"hit", "surrender", "double"},
            GlobalWrites <- {<<"history", 0>>}
Hands == INSTANCE Blackjack WITH GlobalWrites <- {}, MaxGames <- 1, MaxHardCloses <- 0

(* Nobody but p1 plays.                                                    *)
Alone == DOMAIN games' \subseteq {p1}

(* The first game is p1's: the players are alike, so nothing is missed.    *)
FirstIsP1 == Global(globals, "game") = 0 => Alone

SceneInit == Init /\ scene \in Scenes
SceneNext ==
    /\ \/ scene = "cards" /\ Cards!Next /\ Alone
       \/ scene = "games" /\ Games!Next /\ FirstIsP1
       \/ scene = "hands" /\ Hands!Next /\ Alone
    /\ UNCHANGED scene

(* Fairness of Blackjack, for the game of p1.                              *)
SceneFairness ==
    /\ WF_sceneVars(scene = "cards" /\ Cards!Resolve(1) /\ UNCHANGED scene)
    /\ WF_sceneVars(scene = "cards" /\ (RunPay(p1) \/ RunHousePay(p1) \/ FailDeferred(p1))
                      /\ UNCHANGED scene)

SceneSpec == SceneInit /\ [][SceneNext]_sceneVars /\ SceneFairness

(* Where every action played is one that resolve accepts, none waits for   *)
(* ever, whatever hard closes, erased games and lost payments come between *)
(* (blackjack.cpp:166-189, :301-325).                                      *)
CardsAnswered == scene = "cards" => Cards!ActionsAnswered
=============================================================================
