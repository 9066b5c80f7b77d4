------------------------------- MODULE Scratch -------------------------------
(***************************************************************************)
(* scratch: players buy cards of four types, one of which is on the table  *)
(* to be scratched, the rest kept for later.  The backend reveals the card *)
(* on the table; its reward is claimed by the player, or by his next       *)
(* transfer or play, which put the next card there.  The house pays within *)
(* the claiming transaction; the deferred receipt only tells the player.   *)
(*                                                                         *)
(* Left out: seed and signature (what is drawn is any draw), referers, the *)
(* time, the symbol of the token a card is paid in (prices and rewards are *)
(* amounts of it), and the wording of the receipt.  The counts of a new row of kept  *)
(* cards start at zero: the code adds to unset memory, which an action     *)
(* gets zeroed as long as the heap has not handed it out before.           *)
(***************************************************************************)
EXTENDS Tables, SequencesExt, FiniteSetsExt

CONSTANTS
    Players,      \* accounts that play
    Counts,       \* how many cards a transfer buys, as its memo says
    Draws,        \* what the signature can give: five times <<type digit, roll>>
    Prices,       \* prices: price of a card by its type (1000, 5000, 10000, 50000)
    GlobalWrites, \* the pairs <<key, value>> the operator passes to setglobal
    MinBet, MaxPayout, \* the limits in the house's token row of the game
    HistorySize,  \* BET_HISTORY_LEN, length of the ring of past cards (40)
    MaxBets, MaxCards \* bounds of the state space

CardTypes == 0 .. 3 \* CARD_TYPE_COUNT
Counters == {"bet", "history"}

\* every draw there is, and what the constants have to be
LineRolls == 0 .. 99999
AllDraws == [1 .. 5 -> (0 .. 19) \X LineRolls]
ScratchAssumption ==
    /\ Counts \subseteq Nat /\ Draws \subseteq AllDraws
    /\ Prices \in [CardTypes -> Nat \ {0}]
    /\ GlobalWrites \subseteq Counters \X Nat
    /\ MinBet \in Nat /\ MaxPayout \in Nat /\ HistorySize \in Nat \ {0}
    /\ MaxBets \in Nat /\ MaxCards \in Nat

VARIABLES
    globals,   \* table globals: the card counter and the history index
    active,    \* table activecard: player -> [id, card_type, price, reward, result]
    available, \* table cards: player -> how many cards of each type he keeps
    history,   \* table history: slot -> [id, player, card_type, reward, result]
    calls,     \* the pending deferred receipts, by sender id, the player
    paid, lost, \* history: cards claimed; no card is ever lost
    granted    \* history: how many cards each player bought or was given

rows == <<globals, active, available, history>>
ghosts == <<paid, lost, granted>>
vars == <<rows, calls, ghosts>>

-----------------------------------------------------------------------------
(* The tables of rewards, by type of line: times the price, and the number *)
(* the roll must be below for ten times that, and for that.                *)
Option(payout, bonus, win) == [payout |-> payout, bonus |-> bonus, win |-> win]
Rewards1 == <<Option(1, 500, 45500), Option(2, 50, 4550), Option(5, 20, 1820), Option(10, 10, 910),
              Option(20, 5, 455), Option(50, 2, 182), Option(100, 1, 91), Option(1000, 0, 0), Option(10000, 0, 0)>>
Rewards2First == <<Option(1, 0, 66667), Option(2, 0, 33333), Option(5, 0, 4000), Option(10, 0, 2000), Option(20, 0, 1000),
                   Option(50, 0, 800), Option(100, 0, 400), Option(1000, 0, 0), Option(10000, 0, 0), Option(40000, 0, 0)>>
Rewards2Later == <<Option(1, 0, 16667), Option(2, 0, 8333), Option(5, 0, 1000), Option(10, 0, 500), Option(20, 0, 250),
                   Option(50, 0, 200), Option(100, 0, 100), Option(1000, 0, 0), Option(10000, 0, 0), Option(40000, 0, 0)>>
Rewards4 == <<Option(1, 0, 50000), Option(2, 0, 20000), Option(4, 0, 5000), Option(6, 0, 100), Option(10, 0, 100),
              Option(20, 0, 20), Option(30, 0, 0), Option(100, 0, 0), Option(200, 0, 0), Option(20000, 0, 0)>>

(* card2_type, card4_type and the tenths of card 1: the type a digit gives. *)
Card2Type == <<0, 0, 0, 1, 1, 1, 1, 1, 1, 2, 2, 3, 3, 4, 4, 5, 6, 7, 8, 9>>
Card4Type == <<0, 0, 0, 0, 1, 1, 2, 2, 3, 3, 4, 4, 5, 5, 6, 6, 7, 7, 8, 9>>
LineType(type, digit) ==
    CASE type = 0 -> Max({0, (digit % 10) - 1})
      [] type = 1 -> Card2Type[digit + 1]
      [] type = 3 -> Card4Type[digit + 1]

LineTable(type, i) ==
    CASE type = 0 -> Rewards1
      [] type = 1 -> IF i = 1 THEN Rewards2First ELSE Rewards2Later
      [] type = 3 -> Rewards4

(* rewards3, card3_step: the options of each of the five steps, in tenths  *)
(* of the price, with the square each leads to.                            *)
Step(payout, square, win) == [payout |-> payout, square |-> square, win |-> win]
Steps == <<
    <<Step(10, 1, 10000), Step(0, 2, 47000), Step(40, 3, 48000), Step(0, 5, 98000), Step(30, 6, 100000)>>,
    <<Step(15, 7, 2000), Step(0, 9, 52000), Step(10, 10, 61000), Step(100, 11, 61500), Step(0, 12, 97700),
      Step(500, 13, 97800), Step(250, 14, 98000), Step(15, 15, 100000)>>,
    <<Step(0, 16, 50000), Step(50, 17, 52000), Step(0, 19, 100000)>>,
    <<Step(0, 21, 90000), Step(10, 22, 100000)>>,
    <<Step(0, 24, 99620), Step(500, 25, 99700), Step(200, 26, 100000)>> >>

-----------------------------------------------------------------------------
(* resolveCard1 to resolveCard4.  A line of the draw gives a type, an      *)
(* outcome and a reward; the result packs type and outcome of all lines.   *)
Hit == 1
Bonus == 2
Miss == 3
Line(type, outcome, reward) == [type |-> type, outcome |-> outcome, reward |-> reward]

TableLine(card, i, draw) ==
    LET type == LineType(card, draw[1])
        option == LineTable(card, i)[type + 1]
    IN  CASE draw[2] < option.bonus -> Line(type, Bonus, Prices[card] * option.payout * 10)
          [] draw[2] >= option.bonus /\ draw[2] < option.win -> Line(type, Hit, Prices[card] * option.payout)
          [] draw[2] >= option.bonus /\ draw[2] >= option.win -> Line(type, Miss, 0)

StepOf(i, roll) == Steps[i][Min({k \in DOMAIN Steps[i] : roll < Steps[i][k].win})]
StepLine(i, draw) ==
    LET now == StepOf(i, draw[i][2])
        before == IF i = 1 THEN 0 ELSE StepOf(i - 1, draw[i - 1][2]).square
    IN  Line(now.square - before, IF now.payout > 0 THEN Hit ELSE Miss, (Prices[2] * now.payout) \div 10)

Lines(card, draw) ==
    [i \in 1 .. 5 |-> IF card = 2 THEN StepLine(i, draw) ELSE TableLine(card, i, draw[i])]
RewardOf(lines) == FoldSeq(LAMBDA line, sum : line.reward + sum, 0, lines)

PackNarrow(lines) == FoldLeft(LAMBDA sum, line : (sum * 8 + line.type) * 4 + line.outcome, 0, lines) \* fault: three bits for a type
Pack(lines) == FoldLeft(LAMBDA sum, line : (sum * 16 + line.type) * 4 + line.outcome, 0, lines)

-----------------------------------------------------------------------------
NoCards == [t \in CardTypes |-> 0]
Kept(p) == IF p \in DOMAIN available THEN available[p] ELSE NoCards
AddCards(cards, type, n) == [t \in CardTypes |-> IF t = type THEN cards[t] + n ELSE cards[t]]
Held(cards) == FoldSet(LAMBDA t, sum : cards[t] + sum, 0, CardTypes)

Init ==
    /\ globals = EmptyTable /\ active = EmptyTable /\ available = EmptyTable
    /\ history = EmptyTable /\ calls = EmptyTable
    /\ paid = [p \in Players |-> {}] /\ lost = [p \in Players |-> {}]
    /\ granted = [p \in Players |-> 0]

InitGlobals ==
    /\ globals' = [k \in Counters |-> Global(globals, k)]
    /\ UNCHANGED <<active, available, history, calls, ghosts>>

SetGlobal(key, value) ==
    /\ globals' = Put(globals, key, value)
    /\ UNCHANGED <<active, available, history, calls, ghosts>>

(* secretsend: the operator gives one card of the first type to a player   *)
(* who has none of them.                                                   *)
SecretSend(p) ==
    /\ Kept(p)[0] = 0 /\ granted[p] < MaxCards
    /\ available' = Put(available, p, [Kept(p) EXCEPT ![0] = 1])
    /\ granted' = [granted EXCEPT ![p] = @ + 1]
    /\ UNCHANGED <<globals, active, history, calls, paid, lost>>

(* doClaim: the house pays the revealed card on the table and it goes; a   *)
(* card that is not revealed aborts the action it is part of.              *)
ClaimsAny(p) == TRUE                           \* fault: an unrevealed card is claimed
MayClaim(p) == p \in DOMAIN active => active[p].result # 0
Claimed(p) == IF p \in DOMAIN active THEN {active[p].id} ELSE {}

(* scratch_card: the next card on the table.                               *)
CardId == NextGlobal(globals, "bet")
Card(type) == [id |-> CardId, card_type |-> type, price |-> Prices[type], reward |-> 0, result |-> 0]
NextCard(p, type) ==
    /\ MayClaim(p)
    /\ CardId <= MaxBets
    /\ paid' = [paid EXCEPT ![p] = @ \cup Claimed(p)]
    /\ globals' = Put(globals, "bet", CardId)
    /\ active' = Put(active, p, Card(type))

(* transfer: p buys count cards of one type; the first goes to the table,  *)
(* which doClaim has just cleared.                                         *)
KeepAll(count) == count                        \* fault: count is not decremented
KeepRest(count) == count - 1
Transfer(p, type, count) ==
    /\ count > 0 /\ count <= 100 \* a transfer of nothing is refused
    /\ Prices[type] * count >= MinBet /\ Prices[type] * count <= MaxPayout
    /\ granted[p] + count <= MaxCards
    /\ NextCard(p, type)
    /\ IF KeepRest(count) > 0 THEN available' = Put(available, p, AddCards(Kept(p), type, KeepRest(count)))
                              ELSE UNCHANGED available
    /\ granted' = [granted EXCEPT ![p] = @ + count]
    /\ UNCHANGED <<history, calls, lost>>

(* play: a kept card goes to the table, of the type asked for or, if there *)
(* is none, of the first type there is.                                    *)
Others(p, type) == {t \in CardTypes : Kept(p)[t] > 0}
Played(p, type) == IF Kept(p)[type] > 0 THEN type ELSE Min(Others(p, type))
Play(p, type) ==
    /\ p \in DOMAIN available
    /\ Others(p, type) # {}
    /\ NextCard(p, Played(p, type))
    /\ available' = Put(available, p, AddCards(Kept(p), Played(p, type), -1))
    /\ UNCHANGED <<history, calls, lost, granted>>

(* claim: nothing else happens, and nothing at all without a card.         *)
Claim(p) ==
    /\ MayClaim(p)
    /\ paid' = [paid EXCEPT ![p] = @ \cup Claimed(p)]
    /\ active' = Erase(active, {p})
    /\ UNCHANGED <<globals, available, history, calls, lost, granted>>

(* reveal: the draw decides result and reward of the card on the table.    *)
HistorySlot == NextGlobalMod(globals, "history", HistorySize)
SenderFree(p) == p \notin DOMAIN calls
Reveal(p, draw) ==
    LET a == active[p]
        lines == Lines(a.card_type, draw)
        reward == RewardOf(lines)
        result == Pack(lines)
    IN  /\ p \in DOMAIN active
        /\ a.result = 0
        /\ SenderFree(p)
        /\ calls' = Put(calls, p, [id |-> a.id, price |-> a.price, reward |-> reward])
        /\ active' = Put(active, p, [id |-> a.id, card_type |-> a.card_type, price |-> a.price,
                                     reward |-> reward, result |-> result])
        /\ globals' = Put(globals, "history", HistorySlot)
        /\ history' = Put(history, HistorySlot, [id |-> a.id, player |-> p, card_type |-> a.card_type,
                                                 price |-> a.price, reward |-> reward, result |-> result])
        /\ UNCHANGED <<available, ghosts>>

(* receipt runs, or fails: it only notifies the player.                    *)
Receipt(p) ==
    /\ p \in DOMAIN calls
    /\ calls' = Erase(calls, {p})
    /\ UNCHANGED <<rows, ghosts>>

Next ==
    \/ InitGlobals
    \/ \E w \in GlobalWrites : SetGlobal(w[1], w[2])
    \/ \E p \in Players :
          \/ SecretSend(p) \/ Claim(p) \/ Receipt(p)
          \/ \E type \in CardTypes : Play(p, type) \/ \E count \in Counts : Transfer(p, type, count)
          \/ \E draw \in Draws : Reveal(p, draw)

Spec == Init /\ [][Next]_vars

-----------------------------------------------------------------------------
(* Every card bought or given is kept, on the table or claimed: purchases, *)
(* gifts, plays of another type and claims neither lose nor make cards.    *)
OnTable(p) == IF p \in DOMAIN active THEN 1 ELSE 0
CardsAccounted ==
    \A p \in Players : granted[p] = Held(Kept(p)) + OnTable(p) + Cardinality(paid[p])

(* The packed result, all that the history keeps of a card, tells its      *)
(* lines and so its reward; and no result looks like an unrevealed card.   *)
Places == <<64 * 64 * 64 * 64, 64 * 64 * 64, 64 * 64, 64, 1>>
Field(result, i) == (result \div Places[i]) % 64
Square(result, i) == FoldSet(LAMBDA j, sum : Field(result, j) \div 4 + sum, 0, 1 .. i)
Lookup(table, type) == IF type + 1 \in DOMAIN table THEN table[type + 1] ELSE Option(0, 0, 0)
ToldLine(card, result, i) ==
    LET option == Lookup(LineTable(card, i), Field(result, i) \div 4)
        tenths == {s.payout : s \in {t \in ToSet(Steps[i]) : t.square = Square(result, i)}}
    IN  CASE card = 2 -> (Prices[2] * Max(tenths \cup {0})) \div 10
          [] card # 2 /\ Field(result, i) % 4 = Bonus -> Prices[card] * option.payout * 10
          [] card # 2 /\ Field(result, i) % 4 = Hit -> Prices[card] * option.payout
          [] OTHER -> 0
Told(card, result) == FoldSet(LAMBDA i, sum : ToldLine(card, result, i) + sum, 0, 1 .. 5)
ResultTellsReward ==
    \A slot \in DOMAIN history :
        history[slot].result # 0 /\ history[slot].reward = Told(history[slot].card_type, history[slot].result)

(* What a card of each type returns over all type digits and rolls, 20     *)
(* times 100000 for each of its five lines, in prices.                     *)
Returned(o) == o.payout * (o.bonus * 10 + (IF o.win > o.bonus THEN o.win - o.bonus ELSE 0))
TableReturn(card, i) == MapThenSumSet(LAMBDA digit : Returned(LineTable(card, i)[LineType(card, digit) + 1]), 0 .. 19)
Width(i, k) == Steps[i][k].win - IF k = 1 THEN 0 ELSE Steps[i][k - 1].win
StepReturn(i) == MapThenSumSet(LAMBDA k : 2 * Steps[i][k].payout * Width(i, k), DOMAIN Steps[i])
CardReturn(card) == MapThenSumSet(LAMBDA i : IF card = 2 THEN StepReturn(i) ELSE TableReturn(card, i), 1 .. 5)

(* What the contract promises for each card that reached the table.        *)
Open(p) == IF p \in DOMAIN active /\ active[p].result = 0 THEN {active[p].id} ELSE {}
Due(p) == IF p \in DOMAIN active /\ active[p].result # 0 THEN {active[p].id} ELSE {}
W == INSTANCE Wager WITH
        Bets <- 1 .. MaxBets,
        open <- [p \in Players |-> Open(p)],
        due <- [p \in Players |-> Due(p)]

(* Every card is revealed once and claimed once, before the next one takes *)
(* its place.                                                              *)
WagerSpec == W!Spec
=============================================================================
