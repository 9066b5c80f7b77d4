-------------------------------- MODULE Names --------------------------------
(***************************************************************************)
(* Names (types.hpp) and symbols (symbol.hpp).  A name packs its           *)
(* characters from the highest bits, 5 bits each and 4 for the last: it is *)
(* the sequence of these digits.  A string is a sequence of characters,    *)
(* '.', '1' to '5' and 'a' to 'z' by their digits, others as Other.        *)
(***************************************************************************)
EXTENDS Integers, SequencesExt

CONSTANTS
    Length,    \* characters of a name (13)
    Digits,    \* values of a character (32)
    LastDigits \* values of the last one (16)

\* what the constants have to be
NamesAssumption == Length \in Nat \ {0, 1} /\ LastDigits \in 1 .. Digits

Dot == 0
Other == Digits
Names == {n \in [1 .. Length -> 0 .. Digits - 1] : n[Length] < LastDigits}

(* char_to_symbol: whatever no name holds reads as a dot.                  *)
CharToSymbol(c) == IF c = Other THEN Dot ELSE c

StringToName(str) == [i \in 1 .. Length |->
    LET c == IF i <= Len(str) THEN CharToSymbol(str[i]) ELSE Dot
    IN  IF i < Length THEN c ELSE c % LastDigits]

(* to_string: the dots at the end go, unless there is nothing else.        *)
Trimmed(str) == SubSeq(str, 1, Max({0} \cup {i \in DOMAIN str : str[i] # Dot}))
NameString(n) == IF Trimmed(n) = <<>> THEN n ELSE Trimmed(n)

\* fault: the last dot counts although nothing follows it
LastDot(n) == LET dots == {i \in DOMAIN n : n[i] = Dot} IN IF dots = {} THEN 0 ELSE Max(dots)

(* name_suffix: what follows the last dot that a character follows.        *)
LastActualDot(n) ==
    LET seen[i \in 0 .. Length] ==
            IF i = 0 THEN [dot |-> 0, actual |-> 0]
            ELSE IF n[i] = Dot /\ i < Length THEN [seen[i - 1] EXCEPT !.dot = i]
            ELSE IF n[i] # Dot THEN [seen[i - 1] EXCEPT !.actual = seen[i - 1].dot]
            ELSE seen[i - 1]
    IN  seen[Length].actual

NameSuffix(n) ==
    LET dot == LastActualDot(n)
    IN  [i \in 1 .. Length |-> IF i + dot <= Length THEN n[i + dot] ELSE Dot]

-----------------------------------------------------------------------------
(* A symbol has up to 7 characters: "A" stands for the letters, "." for    *)
(* none.  string_to_symbol leaves a gap where a letter should be.          *)
StringToSymbol(str, size) == [i \in 1 .. size |->
    IF i <= Len(str) /\ str[i] = "A" THEN "A" ELSE "."]

(* symbol_name_length: up to the first gap.                                *)
SymbolNameLength(sym) ==
    LET gaps == {i \in DOMAIN sym : sym[i] = "."} IN IF gaps = {} THEN Len(sym) ELSE Min(gaps) - 1

(* is_valid_symbol: letters up to a gap, of which there is at least one,   *)
(* and nothing after it.                                                   *)
IsValidSymbol(sym) ==
    LET n == SymbolNameLength(sym)
    IN  /\ n > 0 /\ \A i \in 1 .. n : sym[i] = "A"
        /\ \A i \in n + 1 .. Len(sym) : sym[i] = "."

-----------------------------------------------------------------------------
(* A name is its string and comes back from it; the suffix is the string   *)
(* after its last dot.                                                     *)
NameComesBack(n) ==
    LET str == NameString(n)
        dots == {i \in DOMAIN str : str[i] = Dot}
    IN  /\ StringToName(str) = n
        /\ n # [i \in 1 .. Length |-> Dot] =>
              NameString(NameSuffix(n)) = (IF dots = {} THEN str ELSE SubSeq(str, Max(dots) + 1, Len(str)))

(* A string that names can hold is not changed by becoming a name, but for *)
(* the dots at its end; any other is another name's.                       *)
StringComesBack(str) ==
    (Trimmed(NameString(StringToName(str))) = Trimmed(str)) =
        (Other \notin ToSet(str) /\ (Len(str) = Length => str[Length] < LastDigits))

(* A string gives a valid symbol exactly if it starts with letters and     *)
(* nothing but what is dropped follows them.                               *)
SymbolComesBack(str, size) ==
    IsValidSymbol(StringToSymbol(str, size)) =
        \E n \in 1 .. Len(str) : \A i \in DOMAIN str : (str[i] = "A") = (i <= n)
=============================================================================
