-------------------------------- MODULE Wager --------------------------------
(***************************************************************************)
(* What a game promises about every bet it takes, whatever the game: a bet *)
(* is placed once, waits, is settled once, and is then paid once or, when  *)
(* the payment's transaction fails, lost.  A bet that waits may also be    *)
(* given up.  A player's settled bets are paid before more of his are      *)
(* settled.                                                                *)
(*                                                                         *)
(* The theorems at the end say that the promise is consistent; a game that *)
(* implements this specification has what they say of its own bets.        *)
(***************************************************************************)
EXTENDS TLAPS

CONSTANTS Players, Bets

VARIABLES
    open, \* the bets taken and not settled, by player
    due,  \* the bets settled whose payment is on its way, by player
    paid, \* the bets whose payment was made, by player
    lost  \* the bets given up, and those whose payment failed

vars == <<open, due, paid, lost>>

(* The bets player p ever placed, and those anybody placed.                *)
Placed(p) == open[p] \cup due[p] \cup paid[p] \cup lost[p]
Known == UNION {Placed(p) : p \in Players}

TypeOK ==
    /\ open \in [Players -> SUBSET Bets]
    /\ due \in [Players -> SUBSET Bets]
    /\ paid \in [Players -> SUBSET Bets]
    /\ lost \in [Players -> SUBSET Bets]

Init ==
    /\ open = [p \in Players |-> {}]
    /\ due = [p \in Players |-> {}]
    /\ paid = [p \in Players |-> {}]
    /\ lost = [p \in Players |-> {}]

(* Player p places the bets S; they may take the place of bets D of his,   *)
(* which are given up.                                                     *)
Place(p, S, D) ==
    /\ S \cap Known = {} /\ D \subseteq open[p]
    /\ open' = [open EXCEPT ![p] = (@ \ D) \cup S]
    /\ lost' = [lost EXCEPT ![p] = @ \cup D]
    /\ UNCHANGED <<due, paid>>

(* Player p is paid what is due and places the bets S in the same step.    *)
Renew(p, S) ==
    /\ S \cap Known = {}
    /\ open' = [open EXCEPT ![p] = @ \cup S]
    /\ paid' = [paid EXCEPT ![p] = @ \cup due[p]]
    /\ due' = [due EXCEPT ![p] = {}]
    /\ UNCHANGED lost

(* The operator gives up the bets D, of whichever players.                 *)
Drop(D) ==
    /\ open' = [p \in Players |-> open[p] \ D]
    /\ lost' = [p \in Players |-> lost[p] \cup (open[p] \cap D)]
    /\ UNCHANGED <<due, paid>>

Settle(S) ==
    /\ \A p \in Players : open[p] \cap S = {} \/ due[p] = {}
    /\ due' = [p \in Players |-> due[p] \cup (open[p] \cap S)]
    /\ open' = [p \in Players |-> open[p] \ S]
    /\ UNCHANGED <<paid, lost>>

Pay(p) ==
    /\ paid' = [paid EXCEPT ![p] = @ \cup due[p]]
    /\ due' = [due EXCEPT ![p] = {}]
    /\ UNCHANGED <<open, lost>>

Lose(p) ==
    /\ lost' = [lost EXCEPT ![p] = @ \cup due[p]]
    /\ due' = [due EXCEPT ![p] = {}]
    /\ UNCHANGED <<open, paid>>

Next ==
    \/ \E p \in Players, S \in SUBSET Bets, D \in SUBSET Bets : Place(p, S, D)
    \/ \E p \in Players, S \in SUBSET Bets : Renew(p, S)
    \/ \E D \in SUBSET Bets : Drop(D)
    \/ \E S \in SUBSET Bets : Settle(S)
    \/ \E p \in Players : Pay(p) \/ Lose(p)

Spec == Init /\ [][Next]_vars

-----------------------------------------------------------------------------
(* A bet is one player's, and it is open, due, paid or lost, never two of  *)
(* them: it is not settled again after it was paid, not paid to two.       *)
StagesApart ==
    \A p \in Players :
        /\ open[p] \cap (due[p] \cup paid[p] \cup lost[p]) = {}
        /\ due[p] \cap (paid[p] \cup lost[p]) = {}
        /\ paid[p] \cap lost[p] = {}
OneOwner == \A p, q \in Players : p # q => Placed(p) \cap Placed(q) = {}
OnePlace == StagesApart /\ OneOwner

(* No bet is ever forgotten, and what was paid or lost stays so.           *)
Forward ==
    \A p \in Players :
        /\ Placed(p) \subseteq Placed(p)'
        /\ paid[p] \subseteq paid'[p] /\ lost[p] \subseteq lost'[p]
        /\ open'[p] \cap (due[p] \cup paid[p] \cup lost[p]) = {}
NoReturn == [][Forward]_vars

-----------------------------------------------------------------------------
(* A bet of one player is not among those anybody else placed.             *)
LEMMA Elsewhere ==
    ASSUME NEW p \in Players, NEW S, S \cap Known = {}
    PROVE  S \cap Placed(p) = {}
  BY DEF Known

(* Wager's state is typed whatever the players and the bets.               *)
THEOREM WagerTypes == Spec => []TypeOK
<1>1. Init => TypeOK
  BY DEF Init, TypeOK
<1>2. TypeOK /\ [Next]_vars => TypeOK'
  <2> SUFFICES ASSUME TypeOK, [Next]_vars PROVE TypeOK'
    OBVIOUS
  <2> USE DEF TypeOK
  <2>1. ASSUME NEW p \in Players, NEW S \in SUBSET Bets, NEW D \in SUBSET Bets, Place(p, S, D)
        PROVE  TypeOK'
    BY <2>1 DEF Place
  <2>6. ASSUME NEW D \in SUBSET Bets, Drop(D) PROVE TypeOK'
    BY <2>6 DEF Drop
  <2>7. ASSUME NEW p \in Players, NEW S \in SUBSET Bets, Renew(p, S) PROVE TypeOK'
    BY <2>7 DEF Renew
  <2>2. ASSUME NEW S \in SUBSET Bets, Settle(S) PROVE TypeOK'
    BY <2>2 DEF Settle
  <2>3. ASSUME NEW p \in Players, Pay(p) PROVE TypeOK'
    BY <2>3 DEF Pay
  <2>4. ASSUME NEW p \in Players, Lose(p) PROVE TypeOK'
    BY <2>4 DEF Lose
  <2>5. CASE UNCHANGED vars
    BY <2>5 DEF vars
  <2> QED BY <2>1, <2>2, <2>3, <2>4, <2>5, <2>6, <2>7 DEF Next
<1> QED BY <1>1, <1>2, PTL DEF Spec

(* The one step that brings in bets brings in bets nobody placed before.   *)
LEMMA PlaceKeeps ==
    ASSUME TypeOK, OnePlace, NEW p \in Players, NEW S, NEW D, Place(p, S, D)
    PROVE  OnePlace'
<1>1. /\ open'[p] = (open[p] \ D) \cup S /\ lost'[p] = lost[p] \cup D
      /\ \A q \in Players \ {p} : open'[q] = open[q] /\ lost'[q] = lost[q]
      /\ due' = due /\ paid' = paid /\ D \subseteq open[p]
  BY DEF Place, TypeOK
<1>2. \A q \in Players : S \cap Placed(q) = {}
  BY Elsewhere DEF Place
<1>3. StagesApart'
  <2>1. \A q \in Players \ {p} : /\ open'[q] = open[q] /\ due'[q] = due[q]
                                 /\ paid'[q] = paid[q] /\ lost'[q] = lost[q]
    BY <1>1
  <2>2. /\ open'[p] \cap (due'[p] \cup paid'[p] \cup lost'[p]) = {}
        /\ due'[p] \cap (paid'[p] \cup lost'[p]) = {}
        /\ paid'[p] \cap lost'[p] = {}
    BY <1>1, <1>2 DEF StagesApart, OnePlace, Placed
  <2> QED BY <2>1, <2>2 DEF StagesApart, OnePlace
<1>4. OneOwner'
  <2>1. Placed(p)' = Placed(p) \cup S /\ \A q \in Players \ {p} : Placed(q)' = Placed(q)
    BY <1>1 DEF Placed
  <2> QED BY <1>2, <2>1 DEF OneOwner, OnePlace
<1> QED BY <1>3, <1>4 DEF OnePlace

LEMMA RenewKeeps ==
    ASSUME TypeOK, OnePlace, NEW p \in Players, NEW S, Renew(p, S)
    PROVE  OnePlace'
<1>1. /\ open'[p] = open[p] \cup S /\ due'[p] = {} /\ paid'[p] = paid[p] \cup due[p]
      /\ \A q \in Players \ {p} : open'[q] = open[q] /\ due'[q] = due[q] /\ paid'[q] = paid[q]
      /\ lost' = lost
  BY DEF Renew, TypeOK
<1>2. \A q \in Players : S \cap Placed(q) = {}
  BY Elsewhere DEF Renew
<1>3. StagesApart'
  <2>1. /\ open'[p] \cap (due'[p] \cup paid'[p] \cup lost'[p]) = {}
        /\ due'[p] \cap (paid'[p] \cup lost'[p]) = {}
        /\ paid'[p] \cap lost'[p] = {}
    BY <1>1, <1>2 DEF StagesApart, OnePlace, Placed
  <2> QED BY <1>1, <2>1 DEF StagesApart, OnePlace
<1>4. OneOwner'
  <2>1. Placed(p)' = Placed(p) \cup S /\ \A q \in Players \ {p} : Placed(q)' = Placed(q)
    BY <1>1 DEF Placed
  <2> QED BY <1>2, <2>1 DEF OneOwner, OnePlace
<1> QED BY <1>3, <1>4 DEF OnePlace

(* A step that moves bets between the stages of their player.              *)
LEMMA MoveKeeps ==
    ASSUME OnePlace, StagesApart', \A p \in Players : Placed(p)' = Placed(p)
    PROVE  OnePlace'
  BY DEF OnePlace, OneOwner

(* Every bet is open, due, paid or lost, and one player's: nothing is paid *)
(* twice, settled twice or paid to two.                                    *)
THEOREM WagerOnePlace == Spec => []OnePlace
<1>1. Init => OnePlace
  BY DEF Init, OnePlace, StagesApart, OneOwner, Placed
<1>2. TypeOK /\ OnePlace /\ [Next]_vars => OnePlace'
  <2> SUFFICES ASSUME TypeOK, OnePlace, [Next]_vars PROVE OnePlace'
    OBVIOUS
  <2>1. ASSUME NEW p \in Players, NEW S \in SUBSET Bets, NEW D \in SUBSET Bets, Place(p, S, D)
        PROVE  OnePlace'
    BY <2>1, PlaceKeeps
  <2>7. ASSUME NEW p \in Players, NEW S \in SUBSET Bets, Renew(p, S)
        PROVE  OnePlace'
    BY <2>7, RenewKeeps
  <2>6. ASSUME NEW D \in SUBSET Bets, Drop(D) PROVE OnePlace'
    <3>1. \A p \in Players : open'[p] = open[p] \ D /\ lost'[p] = lost[p] \cup (open[p] \cap D)
      BY <2>6 DEF Drop
    <3>2. due' = due /\ paid' = paid
      BY <2>6 DEF Drop
    <3>3. StagesApart'
      BY <3>1, <3>2 DEF StagesApart, OnePlace
    <3>4. \A p \in Players : Placed(p)' = Placed(p)
      BY <3>1, <3>2 DEF Placed
    <3> QED BY <3>3, <3>4, MoveKeeps
  <2>2. ASSUME NEW S \in SUBSET Bets, Settle(S) PROVE OnePlace'
    <3>1. \A p \in Players : open'[p] = open[p] \ S /\ due'[p] = due[p] \cup (open[p] \cap S)
      BY <2>2 DEF Settle
    <3>2. paid' = paid /\ lost' = lost
      BY <2>2 DEF Settle
    <3>3. StagesApart'
      BY <3>1, <3>2 DEF StagesApart, OnePlace
    <3>4. \A p \in Players : Placed(p)' = Placed(p)
      BY <3>1, <3>2 DEF Placed
    <3> QED BY <3>3, <3>4, MoveKeeps
  <2>3. ASSUME NEW p \in Players, Pay(p) PROVE OnePlace'
    <3>1. /\ due'[p] = {} /\ paid'[p] = paid[p] \cup due[p]
          /\ \A q \in Players \ {p} : due'[q] = due[q] /\ paid'[q] = paid[q]
          /\ open' = open /\ lost' = lost
      BY <2>3 DEF Pay, TypeOK
    <3>2. StagesApart'
      BY <3>1 DEF StagesApart, OnePlace
    <3>3. \A q \in Players : Placed(q)' = Placed(q)
      BY <3>1 DEF Placed
    <3> QED BY <3>2, <3>3, MoveKeeps
  <2>4. ASSUME NEW p \in Players, Lose(p) PROVE OnePlace'
    <3>1. /\ due'[p] = {} /\ lost'[p] = lost[p] \cup due[p]
          /\ \A q \in Players \ {p} : due'[q] = due[q] /\ lost'[q] = lost[q]
          /\ open' = open /\ paid' = paid
      BY <2>4 DEF Lose, TypeOK
    <3>2. StagesApart'
      BY <3>1 DEF StagesApart, OnePlace
    <3>3. \A q \in Players : Placed(q)' = Placed(q)
      BY <3>1 DEF Placed
    <3> QED BY <3>2, <3>3, MoveKeeps
  <2>5. CASE UNCHANGED vars
    BY <2>5 DEF vars, OnePlace, StagesApart, OneOwner, Placed
  <2> QED BY <2>1, <2>2, <2>3, <2>4, <2>5, <2>6, <2>7 DEF Next
<1> QED BY <1>1, <1>2, WagerTypes, PTL DEF Spec

(* No step loses a bet from sight, unpays it or reopens it.                *)
THEOREM WagerNoReturn == Spec => NoReturn
<1>1. TypeOK /\ OnePlace /\ [Next]_vars => [Forward]_vars
  <2> SUFFICES ASSUME TypeOK, OnePlace, Next PROVE Forward
    OBVIOUS
  <2> USE DEF Forward, Placed
  <2>1. ASSUME NEW p \in Players, NEW S \in SUBSET Bets, NEW D \in SUBSET Bets, Place(p, S, D)
        PROVE  Forward
    <3>1. /\ open'[p] = (open[p] \ D) \cup S /\ lost'[p] = lost[p] \cup D
          /\ \A q \in Players \ {p} : open'[q] = open[q] /\ lost'[q] = lost[q]
          /\ due' = due /\ paid' = paid /\ D \subseteq open[p]
      BY <2>1 DEF Place, TypeOK
    <3>2. \A q \in Players : S \cap Placed(q) = {}
      BY <2>1, Elsewhere DEF Place
    <3> QED BY <3>1, <3>2 DEF OnePlace, StagesApart
  <2>6. ASSUME NEW p \in Players, NEW S \in SUBSET Bets, Renew(p, S)
        PROVE  Forward
    <3>1. /\ open'[p] = open[p] \cup S /\ due'[p] = {} /\ paid'[p] = paid[p] \cup due[p]
          /\ \A q \in Players \ {p} : open'[q] = open[q] /\ due'[q] = due[q] /\ paid'[q] = paid[q]
          /\ lost' = lost
      BY <2>6 DEF Renew, TypeOK
    <3>2. \A q \in Players : S \cap Placed(q) = {}
      BY <2>6, Elsewhere DEF Renew
    <3> QED BY <3>1, <3>2 DEF OnePlace, StagesApart
  <2>5. ASSUME NEW D \in SUBSET Bets, Drop(D) PROVE Forward
    <3>1. \A p \in Players : open'[p] = open[p] \ D /\ lost'[p] = lost[p] \cup (open[p] \cap D)
      BY <2>5 DEF Drop
    <3>2. due' = due /\ paid' = paid
      BY <2>5 DEF Drop
    <3> QED BY <3>1, <3>2 DEF OnePlace, StagesApart
  <2>2. ASSUME NEW S \in SUBSET Bets, Settle(S) PROVE Forward
    <3>1. \A p \in Players : /\ open'[p] = open[p] \ S
                             /\ due'[p] = due[p] \cup (open[p] \cap S)
      BY <2>2 DEF Settle
    <3>2. paid' = paid /\ lost' = lost
      BY <2>2 DEF Settle
    <3> QED BY <3>1, <3>2 DEF OnePlace, StagesApart
  <2>3. ASSUME NEW p \in Players, Pay(p) PROVE Forward
    BY <2>3 DEF Pay, TypeOK, OnePlace, StagesApart
  <2>4. ASSUME NEW p \in Players, Lose(p) PROVE Forward
    BY <2>4 DEF Lose, TypeOK, OnePlace, StagesApart
  <2> QED BY <2>1, <2>2, <2>3, <2>4, <2>5, <2>6 DEF Next
<1> QED BY <1>1, WagerTypes, WagerOnePlace, PTL DEF Spec, NoReturn
=============================================================================
