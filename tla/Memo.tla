-------------------------------- MODULE Memo --------------------------------
(***************************************************************************)
(* param_reader.hpp, and how transfer of the round based games reads a     *)
(* memo with it: the game, the referer, and then pairs of a bet's type and *)
(* its amount while there is more.                                         *)
(*                                                                         *)
(* A memo is the sequence of its fields; a field is [num, name]: what atoi *)
(* makes of it, and what it says read as a name, or Nobody if it is empty. *)
(* A separator at the end makes the last field an empty one.  next_param   *)
(* finds no separator after the last field, and because the position not   *)
(* found is the largest number there is, goes on from the beginning.       *)
(***************************************************************************)
EXTENDS Integers, SequencesExt

CONSTANTS
    Fields,    \* the fields memos are made of
    MaxFields, \* bound: fields of a memo
    MaxReads,  \* fields that are read before the transaction runs out of time
    ByteSize,  \* 2^8
    Accounts,  \* names that are accounts
    IllFormed, \* what cannot be a name: name() aborts
    From,      \* who transfers
    House, Nobody

\* what the constants have to be
MemoAssumption ==
    /\ MaxFields \in Nat /\ MaxReads \in Nat /\ ByteSize \in Nat \ {0}
    /\ From # House /\ House \in Accounts /\ IllFormed \cap Accounts = {}

VARIABLES
    memo,    \* the parameters
    cursor,  \* the field at _last_pos
    state,   \* "head", "bets", "done" or "aborted"
    referer, \* what get_referer gave
    slip,    \* the bets read
    reads    \* fields read

vars == <<memo, cursor, state, referer, slip, reads>>

Empty == [num |-> 0, name |-> Nobody]
Memos == {m \in UNION {[1 .. n -> Fields] : n \in 1 .. MaxFields} : m # <<Empty>>}

-----------------------------------------------------------------------------
NextPos(at) == IF at < Len(memo) THEN at + 1 ELSE 1
NextParam(at) == memo[at]

\* fault: the end is not told from a last field
HasNextField(at) == at < Len(memo)

(* has_next: the position is not that of the end.                          *)
HasNext(at) == ~(at = Len(memo) /\ memo[at] = Empty)

(* rest: the fields from here on, as they are.                             *)
Rest(at) == SubSeq(memo, at, Len(memo))

\* fault: a player may name himself
RefererNamed(field) == IF field.name \in Accounts THEN field.name ELSE House

GetReferer(field) ==
    IF field.name # Nobody /\ field.name # From /\ field.name \in Accounts THEN field.name ELSE House

-----------------------------------------------------------------------------
Init ==
    /\ memo \in Memos /\ cursor = 1 /\ state = "head"
    /\ referer = Nobody /\ slip = <<>> /\ reads = 0

ReadHead ==
    /\ state = "head"
    /\ LET field == NextParam(NextPos(cursor))
       IN  IF field.name \in IllFormed
           THEN state' = "aborted" /\ UNCHANGED referer
           ELSE state' = "bets" /\ referer' = GetReferer(field)
    /\ cursor' = NextPos(NextPos(cursor))
    /\ reads' = reads + 2
    /\ UNCHANGED <<memo, slip>>

(* One more bet: its type becomes a uint8_t, its amount must be positive.  *)
ReadBet ==
    /\ state = "bets" /\ HasNext(cursor) /\ reads < MaxReads
    /\ LET bet_type == NextParam(cursor).num % ByteSize
           amount == NextParam(NextPos(cursor)).num
       IN  IF amount > 0
           THEN slip' = Append(slip, [bet_type |-> bet_type, amount |-> amount]) /\ UNCHANGED state
           ELSE state' = "aborted" /\ UNCHANGED slip
    /\ cursor' = NextPos(NextPos(cursor))
    /\ reads' = reads + 2
    /\ UNCHANGED <<memo, referer>>

Finish ==
    /\ state = "bets"
    /\ state' = IF ~HasNext(cursor) THEN "done" ELSE "aborted"
    /\ HasNext(cursor) => reads >= MaxReads
    /\ UNCHANGED <<memo, cursor, referer, slip, reads>>

Next == ReadHead \/ ReadBet \/ Finish

Spec == Init /\ [][Next]_vars

-----------------------------------------------------------------------------
(* A memo that is accepted was read from its beginning to its end, each    *)
(* field once: the bets are its pairs, and nothing of the game or the      *)
(* referer is taken for a bet although the reader starts over.             *)
Pairs == [i \in 1 .. (Len(memo) - 3) \div 2 |->
            [bet_type |-> memo[2 * i + 1].num % ByteSize, amount |-> memo[2 * i + 2].num]]
MemoReadOnce == state = "done" => slip = Pairs /\ Rest(cursor) = <<Empty>>

(* The referer is an account, and not the player himself.                  *)
RefererUsable == referer # Nobody => referer # From /\ referer \in Accounts
=============================================================================
