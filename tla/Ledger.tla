-------------------------------- MODULE Ledger --------------------------------
(***************************************************************************)
(* What the casino as a whole promises about the money of a bet, from the  *)
(* stake to the payment: a bet is taken once, decided once, and then       *)
(* either the amount decided is sent to its player once, or the bet is     *)
(* void and nothing is sent for it, ever.  Bets are independent: any of    *)
(* them may be paid, or become void, before any other.                     *)
(***************************************************************************)
EXTENDS Integers

CONSTANTS Players, Bets

(* An amount that belongs to a bet and its player.                         *)
Entries == [bet : Bets, player : Players, amount : Nat]

VARIABLES
    open,   \* the stakes of the bets not decided, a set of entries
    owed,   \* the payouts decided and not paid, a set of entries
    paid,   \* the bets that were paid
    void,   \* the bets that will never be paid
    staked, \* the stakes taken, by player
    booked, \* the payouts in the books, by player
    sent    \* the money sent, by player

vars == <<open, owed, paid, void, staked, booked, sent>>

Known == {r.bet : r \in open \cup owed} \cup paid \cup void

Init ==
    /\ open = {} /\ owed = {} /\ paid = {} /\ void = {}
    /\ staked = [p \in Players |-> 0]
    /\ booked = [p \in Players |-> 0]
    /\ sent = [p \in Players |-> 0]

(* The stake r of a new bet is taken.                                      *)
Place(r) ==
    /\ r \in Entries /\ r.bet \notin Known
    /\ open' = open \cup {r}
    /\ staked' = [staked EXCEPT ![r.player] = @ + r.amount]
    /\ UNCHANGED <<owed, paid, void, booked, sent>>

(* The bet of the stake r gives its player d, whatever amount that is.     *)
Decide(r, d) ==
    /\ d \in Entries /\ d.bet = r.bet /\ d.player = r.player
    /\ open' = open \ {r}
    /\ owed' = owed \cup {d}
    /\ UNCHANGED <<paid, void, staked, booked, sent>>

(* What is owed is sent, and booked.                                       *)
Pay(d) ==
    /\ owed' = owed \ {d}
    /\ paid' = paid \cup {d.bet}
    /\ sent' = [sent EXCEPT ![d.player] = @ + d.amount]
    /\ booked' = [booked EXCEPT ![d.player] = @ + d.amount]
    /\ UNCHANGED <<open, void, staked>>

Void(d) ==
    /\ owed' = owed \ {d}
    /\ void' = void \cup {d.bet}
    /\ UNCHANGED <<open, paid, staked, booked, sent>>

Next ==
    \/ \E r \in open' : Place(r)
    \/ \E r \in open, d \in owed' : Decide(r, d)
    \/ \E d \in owed : Pay(d) \/ Void(d)

Spec == Init /\ [][Next]_vars
=============================================================================
