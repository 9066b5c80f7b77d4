------------------------------ MODULE Currency ------------------------------
(***************************************************************************)
(* A token as currency.hpp keeps it: the statistics of a symbol, and the   *)
(* balances of its holders.  No action sets the flags that freeze accounts *)
(* or ask for white lists, so what they guard always passes, and a         *)
(* transfer has the authority of its sender.  Nothing compares the supply  *)
(* with max_supply.                                                        *)
(***************************************************************************)
EXTENDS Tables, Functions

CONSTANTS
    Owners,
    Quantities, \* amounts asked for, any int64
    Half,       \* 2^62
    MaxIssues   \* bound: issues of a behaviour

\* what the constants have to be
CurrencyAssumption == Half \in Nat \ {0} /\ Quantities \subseteq Int /\ MaxIssues \in Nat

VARIABLES
    stat,    \* table stat: <<>>, or <<[supply, max_supply, issuer]>>
    account, \* tables accounts: holder -> balance
    issues   \* issues so far

vars == <<stat, account, issues>>

Wrap(n) == ((n + 2 * Half) % (4 * Half)) - 2 * Half
Valid(quantity) == -Half < quantity /\ quantity < Half

SubBalance(acc, owner, value) == [acc EXCEPT ![owner] = @ - value]
AddBalance(acc, owner, value) ==
    Put(acc, owner, IF owner \in DOMAIN acc THEN Wrap(acc[owner] + value) ELSE value)

CanSend(acc, owner, quantity) ==
    /\ Valid(quantity) /\ quantity > 0
    /\ owner \in DOMAIN acc /\ acc[owner] >= quantity

\* fault: the balance of the receiver is read before the sender's is written
SentStale(acc, from, to, quantity) ==
    [SubBalance(acc, from, quantity) EXCEPT ![to] = Wrap(acc[to] + quantity)]

Sent(acc, from, to, quantity) == AddBalance(SubBalance(acc, from, quantity), to, quantity)

-----------------------------------------------------------------------------
Init == stat = <<>> /\ account = EmptyTable /\ issues = 0

Create(issuer, maximum_supply) ==
    /\ stat = <<>>
    /\ stat' = <<[supply |-> 0, max_supply |-> maximum_supply, issuer |-> issuer]>>
    /\ UNCHANGED <<account, issues>>

(* issue, with the transfer it sends inline to another account: both       *)
(* happen or neither.                                                      *)
Issue(to, quantity) ==
    /\ stat # <<>>
    /\ Valid(quantity) /\ quantity > 0
    /\ issues < MaxIssues /\ issues' = issues + 1
    /\ stat' = [stat EXCEPT ![1].supply = Wrap(@ + quantity)]
    /\ LET issuer == stat[1].issuer
           issued == AddBalance(account, issuer, quantity)
       IN  IF to = issuer THEN account' = issued
           ELSE /\ CanSend(issued, issuer, quantity)
                /\ account' = Sent(issued, issuer, to, quantity)

Transfer(from, to, quantity) ==
    /\ stat # <<>>
    /\ CanSend(account, from, quantity)
    /\ account' = Sent(account, from, to, quantity)
    /\ UNCHANGED <<stat, issues>>

Next ==
    \/ \E issuer \in Owners, max \in Quantities : Create(issuer, max)
    \/ \E to \in Owners, q \in Quantities : Issue(to, q) \/ \E from \in Owners : Transfer(from, to, q)

Spec == Init /\ [][Next]_vars

-----------------------------------------------------------------------------
(* The balances add up to the supply, modulo what an int64 holds: nothing  *)
(* is made or lost by moving it, to another or to oneself.  As long as     *)
(* what was issued fits an int64 nobody owes anything.                     *)
SupplyHeld ==
    LET supply == IF stat = <<>> THEN 0 ELSE stat[1].supply
    IN  /\ Wrap(SumFunction(account)) = supply
        /\ issues * (Half - 1) < 2 * Half => \A o \in DOMAIN account : account[o] >= 0
=============================================================================
