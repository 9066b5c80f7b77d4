------------------------------ MODULE Dispatch ------------------------------
(***************************************************************************)
(* What reaches the handlers of a game contract: EOSIO_ABI_EX and          *)
(* check_transfer (contracts.hpp).  The token contract notifies both sides *)
(* of a transfer; any other contract may notify the game of an action of   *)
(* its own called transfer, and anyone may call the game's actions.        *)
(***************************************************************************)
EXTENDS Integers, FiniteSets

CONSTANTS
    Self,       \* the game
    Players,
    Stake,      \* eosio.stake, which refunds
    Token,      \* eosio.token
    System,     \* eosio
    Impostor,   \* a contract with an action called transfer
    Amounts,    \* amounts of transfers
    MaxFunds    \* bound: what the game receives

\* what the constants have to be
DispatchAssumption ==
    /\ Amounts \subseteq Nat /\ MaxFunds \in Nat
    /\ Token \notin {Self, System, Impostor}

VARIABLES
    funds,    \* balance of the game at the token contract
    credited, \* what transfer has taken for stakes
    sent,     \* what the game paid out
    staked    \* what the system refunded

vars == <<funds, credited, sent, staked>>

People == Players \cup {Self, Stake}

\* fault: notifications of any contract are handled
RoutedAny(code, action) == (code = Self /\ action # "transfer") \/ action = "transfer"

(* apply of EOSIO_ABI_EX: the game's own actions but transfer, the token's *)
(* transfer, and the system's error reports.                               *)
Routed(code, action) ==
    \/ code = Self /\ action # "transfer"
    \/ code = Token /\ action = "transfer"
    \/ code = System /\ action = "onerror"

(* check_transfer: FALSE for what is none of the game's business, or the   *)
(* transaction aborts.                                                     *)
Ignored(t) == t.from = Self \/ t.to # Self \/ t.from = Stake
Aborts(t) ==
    ~Ignored(t) /\ ~(t.amount > 0 /\ ~t.no_memo /\ t.first.name = "transfer" /\ t.first.actor = t.from)

(* The transfer handler of the game, called with code and the data t.      *)
Handle(code, t) ==
    /\ Routed(code, "transfer") => ~Aborts(t)
    /\ credited' = IF Routed(code, "transfer") /\ ~Ignored(t) THEN credited + t.amount ELSE credited

Transfers == [from : People, to : People, amount : Amounts, no_memo : BOOLEAN,
              first : [name : {"transfer", "other"}, actor : Players]]

-----------------------------------------------------------------------------
Init == funds = 0 /\ credited = 0 /\ sent = 0 /\ staked = 0

(* A transfer of the token, which has the authority of its sender and does *)
(* not go to himself.                                                      *)
TokenTransfer(t) ==
    /\ t.from # t.to /\ t.amount > 0
    /\ t.from = Self => t.amount <= funds
    /\ IF Self \in {t.from, t.to} THEN Handle(Token, t) ELSE UNCHANGED credited
    /\ funds' = funds + (IF t.to = Self THEN t.amount ELSE 0) - (IF t.from = Self THEN t.amount ELSE 0)
    /\ funds' + sent <= MaxFunds
    /\ sent' = IF t.from = Self THEN sent + t.amount ELSE sent
    /\ staked' = IF t.from = Stake /\ t.to = Self THEN staked + t.amount ELSE staked

(* A notification of another contract, or a direct call.                   *)
OtherTransfer(code, t) ==
    /\ Handle(code, t)
    /\ UNCHANGED <<funds, sent, staked>>

Next == \E t \in Transfers : TokenTransfer(t) \/ \E code \in {Self, System, Impostor} : OtherTransfer(code, t)

Spec == Init /\ [][Next]_vars

-----------------------------------------------------------------------------
(* What the game takes for stakes is exactly what players have transferred *)
(* to it: nothing it paid itself, no refund, no other contract's word.     *)
StakesFunded == funds + sent = credited + staked
=============================================================================
