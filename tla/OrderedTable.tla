---------------------------- MODULE OrderedTable ----------------------------
(***************************************************************************)
(* What a contract relies on when it uses a multi_index table in one       *)
(* action: rows under primary keys, each with a secondary key, and an      *)
(* iterator that moves in the order of either key.  Nothing of caches,     *)
(* handles or a second copy of the keys is left.                           *)
(***************************************************************************)
EXTENDS Tables

CONSTANTS
    Keys,      \* primary keys
    SecKeys    \* secondary keys, all that is kept of a row

\* what the constants have to be
TableAssumption == Keys \subseteq Nat /\ SecKeys \subseteq Int

VARIABLES
    rows, \* primary key -> secondary key of the row
    at    \* the iterator: [by, pk], pk = End past the last row

End == -1
Orders == {"primary", "secondary"}

-----------------------------------------------------------------------------
(* The order of rows with the keys t, and the first of some of them.       *)
Before(by, t, p, q) ==
    CASE by = "primary" -> p < q
      [] by = "secondary" -> t[p] < t[q] \/ (t[p] = t[q] /\ p < q)
Least(by, t, S) ==
    IF \E p \in S : \A q \in S \ {p} : Before(by, t, p, q)
    THEN CHOOSE p \in S : \A q \in S \ {p} : Before(by, t, p, q) ELSE End
Greatest(by, t, S) ==
    IF \E p \in S : \A q \in S \ {p} : Before(by, t, q, p)
    THEN CHOOSE p \in S : \A q \in S \ {p} : Before(by, t, q, p) ELSE End
KeyOf(by, t, p) == IF by = "primary" THEN p ELSE t[p]

LowerBound(by, t, key) == Least(by, t, {p \in DOMAIN t : KeyOf(by, t, p) >= key})
UpperBound(by, t, key) == Least(by, t, {p \in DOMAIN t : KeyOf(by, t, p) > key})
Successor(by, t, p) == Least(by, t, {q \in DOMAIN t : Before(by, t, p, q)})
Predecessor(by, t, p) ==
    Greatest(by, t, IF p = End THEN DOMAIN t ELSE {q \in DOMAIN t : Before(by, t, q, p)})
Found(by, t, key) ==
    LET p == LowerBound(by, t, key)
    IN  IF p # End /\ KeyOf(by, t, p) = key THEN p ELSE End

MoveTo(by, p) == at' = [by |-> by, pk |-> p]

Init == rows \in UNION {[K -> SecKeys] : K \in SUBSET Keys} /\ at = [by |-> "primary", pk |-> End]

Seek == \E by \in Orders, key \in Keys \cup SecKeys :
    /\ MoveTo(by, LowerBound(by, rows, key)) \/ MoveTo(by, UpperBound(by, rows, key)) \/ MoveTo(by, Found(by, rows, key))
    /\ UNCHANGED rows

Advance == at.pk # End /\ MoveTo(at.by, Successor(at.by, rows, at.pk)) /\ UNCHANGED rows
Retreat ==
    /\ Predecessor(at.by, rows, at.pk) # End
    /\ MoveTo(at.by, Predecessor(at.by, rows, at.pk))
    /\ UNCHANGED rows
ChangeOrder == at.pk # End /\ MoveTo("secondary", at.pk) /\ UNCHANGED rows

Insert == \E pk \in Keys \ DOMAIN rows, sec \in SecKeys :
    rows' = Put(rows, pk, sec) /\ MoveTo("primary", pk)
Write == at.pk # End /\ (\E sec \in SecKeys : rows' = Put(rows, at.pk, sec)) /\ UNCHANGED at
EraseHere ==
    /\ at.pk # End
    /\ rows' = Erase(rows, {at.pk})
    /\ MoveTo(at.by, Successor(at.by, rows, at.pk))

(* Through a key, beside the iterator.                                     *)
Store == (\E pk \in Keys, sec \in SecKeys : rows' = Put(rows, pk, sec)) /\ UNCHANGED at
Discard == (\E pk \in DOMAIN rows \ {at.pk} : rows' = Erase(rows, {pk})) /\ UNCHANGED at

Next == Seek \/ Advance \/ Retreat \/ ChangeOrder \/ Insert \/ Write \/ EraseHere \/ Store \/ Discard
Spec == Init /\ [][Next]_<<rows, at>>
=============================================================================
