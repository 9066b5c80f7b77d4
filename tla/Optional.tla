------------------------------ MODULE Optional ------------------------------
(***************************************************************************)
(* eosio::optional: storage for one object and a flag.  The constructors   *)
(* and placement new make an object in the storage, reset destroys it when *)
(* the flag is set.  Reading one from a stream sets the flag and fills the *)
(* storage; if there was no object, there is none after it, only bytes.    *)
(*                                                                         *)
(* An optional is named by its place, which is free again when it goes out *)
(* of scope.  Nothing throws: an assertion that fails ends the transaction *)
(* with everything in its memory.                                          *)
(***************************************************************************)
EXTENDS Integers

CONSTANTS
    Optionals, \* the optionals of a program
    Values,
    Moved,     \* what is left of an object that was moved from
    MaxFilled  \* bound: how often an empty optional is read into

\* what the constants have to be
OptionalAssumption == MaxFilled \in Nat

VARIABLES
    box,     \* the optionals in scope -> [valid, value]
    objects, \* history: the objects made in a place, less those destroyed
    filled   \* history: how often an empty optional was read into

vars == <<box, objects, filled>>

None == [valid |-> FALSE, value |-> Moved]
Holding(v) == [valid |-> TRUE, value |-> v]

In(o) == o \in DOMAIN box
Valid(o) == In(o) /\ box[o].valid
Flag(o) == IF Valid(o) THEN 1 ELSE 0
With(o, content) == [x \in DOMAIN box \cup {o} |-> IF x = o THEN content ELSE box[x]]

(* new (ptr()) T( v ), and ~T().                                           *)
Count(o, n) == [objects EXCEPT ![o] = @ + n]

-----------------------------------------------------------------------------
Init == box = <<>> /\ objects = [o \in Optionals |-> 0] /\ filled = [o \in Optionals |-> 0]

(* The constructors: of nothing, of a value, of another optional, of one   *)
(* that is then reset.                                                     *)
Construct(o) == ~In(o) /\ box' = With(o, None) /\ UNCHANGED <<objects, filled>>
ConstructValue(o, v) ==
    ~In(o) /\ box' = With(o, Holding(v)) /\ objects' = Count(o, 1) /\ UNCHANGED filled
CopyOf(p) == IF Valid(p) THEN Holding(box[p].value) ELSE None
ConstructCopy(o, p) ==
    /\ ~In(o) /\ In(p)
    /\ box' = With(o, CopyOf(p)) /\ objects' = Count(o, Flag(p))
    /\ UNCHANGED filled
ConstructMove(o, p) ==
    /\ ~In(o) /\ In(p)
    /\ box' = [With(o, CopyOf(p)) EXCEPT ![p] = None]
    /\ objects' = [Count(o, Flag(p)) EXCEPT ![p] = @ - Flag(p)]
    /\ UNCHANGED filled

(* reset, and the destructor, which resets.                                *)
ResetIt(o) ==
    In(o) /\ box' = [box EXCEPT ![o] = None] /\ objects' = Count(o, -Flag(o)) /\ UNCHANGED filled
Destroy(o) ==
    /\ In(o)
    /\ box' = [x \in DOMAIN box \ {o} |-> box[x]] /\ objects' = Count(o, -Flag(o))
    /\ UNCHANGED filled

(* operator= of a value, and emplace: what was held is destroyed first.    *)
MadeOver(o) == 1                               \* fault: it is not
MadeAnew(o) == 1 - Flag(o)
AssignValue(o, v) ==
    /\ In(o)
    /\ box' = [box EXCEPT ![o] = Holding(v)] /\ objects' = Count(o, MadeAnew(o))
    /\ UNCHANGED filled

(* operator= of another optional: by the assignment of the objects, a new  *)
(* object, or reset.  One moved into an empty optional is not reset.       *)
AssignCopy(o, p) ==
    /\ o # p
    /\ \/ /\ Valid(o) /\ Valid(p)
          /\ box' = [box EXCEPT ![o].value = box[p].value]
          /\ UNCHANGED <<objects, filled>>
       \/ ~Valid(o) /\ Valid(p) /\ AssignValue(o, box[p].value)
       \/ In(p) /\ ~Valid(p) /\ ResetIt(o)
AssignMove(o, p) ==
    /\ o # p
    /\ \/ /\ Valid(o) /\ Valid(p)
          /\ box' = [box EXCEPT ![o].value = box[p].value, ![p] = None]
          /\ objects' = Count(p, -1)
          /\ UNCHANGED filled
       \/ /\ In(o) /\ ~Valid(o) /\ Valid(p)
          /\ box' = [box EXCEPT ![o] = Holding(box[p].value), ![p].value = Moved]
          /\ objects' = Count(o, MadeAnew(o))
          /\ UNCHANGED filled
       \/ In(p) /\ ~Valid(p) /\ ResetIt(o)

(* operator>>: a stream without a value leaves the optional as it was; one *)
(* with a value sets the flag, and writes over what the storage holds.     *)
Read(o, v) ==
    /\ In(o)
    /\ ~Valid(o) => filled[o] < MaxFilled
    /\ box' = [box EXCEPT ![o] = Holding(v)]
    /\ filled' = [filled EXCEPT ![o] = @ + 1 - Flag(o)]
    /\ UNCHANGED objects

Next == \E o \in Optionals :
    \/ Construct(o) \/ Destroy(o) \/ ResetIt(o)
    \/ \E v \in Values : ConstructValue(o, v) \/ AssignValue(o, v) \/ Read(o, v)
    \/ \E p \in Optionals : ConstructCopy(o, p) \/ ConstructMove(o, p) \/ AssignCopy(o, p) \/ AssignMove(o, p)

Spec == Init /\ [][Next]_vars

-----------------------------------------------------------------------------
(* The objects made and destroyed in a place keep up with the flag, through*)
(* constructors, copies, moves, assignments and resets: none is destroyed  *)
(* twice, or made over one still alive.  Exactly the reads into an empty   *)
(* optional come in between: each sets the flag without an object.         *)
LifetimesMatch == \A o \in Optionals : objects[o] + filled[o] = Flag(o)
=============================================================================
