------------------------------- MODULE MCParts -------------------------------
(***************************************************************************)
(* Small instances for TLC of the parts under the contracts: those of      *)
(* Library, and the SDK's memory and values.                               *)
(***************************************************************************)
EXTENDS Library, TLC

CONSTANTS
    RightReallocs,                \* whether realloc is only asked for what it does right
    MaxPages, Sizes, ReallocSizes, \* Heap
    Abort                         \* no result

VARIABLES
    mem, used,
    input \* a value, for the parts that are functions

heap == <<mem, used>>
all == <<library, heap, input>>

(* Values of constants: what may be asked of a token, and the fields of    *)
(* memos, of which p1 is the player, r somebody else, and ill is no name.  *)
CONSTANTS p1, r, ill
TokenQuantities == -1 .. 5
MemoFields == {[num |-> 0, name |-> Nobody], [num |-> 7, name |-> Token], [num |-> 0, name |-> p1],
               [num |-> 5, name |-> r], [num |-> 1, name |-> Token], [num |-> 2, name |-> ill]}

H == INSTANCE Heap WITH InitialSize <- 8, PageSize <- 8, Slack <- 2, FirstPage <- 2, Heaps <- 16

(* Widths and bases that keep every number in what TLC can count with.     *)
Group == 4
Word == 64
Digits == 4
S == INSTANCE Codec WITH WordBytes <- 8
N == INSTANCE Names WITH Length <- 4, LastDigits <- 2
A == INSTANCE Assets WITH Half <- 128
T == INSTANCE Times WITH Milli <- 3, Second <- 4, interval <- 2, epoch <- 10, Word <- 16
P == INSTANCE FixedPoint WITH Bits <- 4

(* The constants of the instances are what their modules ask for.          *)
ASSUME PartsAssumption ==
    /\ LibraryAssumption /\ TableAssumption /\ LimitAssumption /\ H!HeapAssumption /\ Money!CurrencyAssumption
    /\ Boxes!OptionalAssumption /\ Reader!MemoAssumption /\ Notices!DispatchAssumption /\ FaucetAssumption
    /\ S!CodecAssumption /\ N!NamesAssumption
    /\ A!AssetsAssumption /\ T!TimesAssumption /\ P!FixedPointAssumption

-----------------------------------------------------------------------------
(* The values that are packed: of every kind of type, and a row made of    *)
(* several.                                                                *)
Unsigned == [kind |-> "unsigned"]
Text == [kind |-> "text"]
Listed(kind, of) == [kind |-> kind, of |-> of, size |-> 2]
Row == [kind |-> "tuple", fields |-> <<[kind |-> "raw", size |-> 2], [kind |-> "bool"],
                                       Listed("vector", Listed("optional", Unsigned))>>]
Map == [kind |-> "map", key |-> Unsigned, of |-> Text]
Some == {0, 1, Group, Group * Group, Word - 1}
Texts == {<<>>, <<1>>, <<7, 0>>, <<1, 2, 3, 4, 5>>}

Packed ==
    {<<Unsigned, n>> : n \in 0 .. Word - 1} \cup {<<Text, s>> : s \in Texts}
    \cup {<<Listed("set", Unsigned), s>> : s \in SUBSET Some}
    \cup {<<Listed(kind, Unsigned), <<a, b>>>> : kind \in {"array", "carray"}, a \in Some, b \in Some}
    \cup {<<Map, m>> : m \in UNION {[ks -> Texts] : ks \in SUBSET {0, 5, Word - 2}}}
    \cup {<<Row, <<<<5, 6>>, flag, os>>>> : flag \in BOOLEAN, os \in {<<>>, <<<<>>>>, <<<<0>>, <<>>, <<Word - 1>>>>}}

Strings == UNION {[1 .. n -> 0 .. Digits] : n \in 0 .. 4}
SymbolStrings == UNION {[1 .. n -> {"A", "other"}] : n \in 0 .. 4}
Symbols == {[precision |-> p, valid |-> TRUE, contract |-> c] : p \in 0 .. 2, c \in {Token, Impostor}}
AssetAmounts == {-127, -126, -64, -33, -10, -3, -1, 0, 1, 2, 3, 7, 9, 10, 12, 25, 63, 64, 65, 100, 127}
SomeWords(k, n) == [w \in 1 .. n |-> [i \in 1 .. k |-> (w - 1) * k + i]]
Fixed == [bits : {4}, q : 0 .. 3, val : -8 .. 7]

(* What a property of values is about, by part.                            *)
Inputs ==
    CASE part = "codec" -> Packed
      [] part = "signed" -> -(Word \div 2) .. Word \div 2 - 1
      [] part = "key256" -> 0 .. S!KeyBytes
      [] part = "names" -> N!Names
      [] part = "strings" -> Strings
      [] part = "symbols" -> SymbolStrings
      [] part = "keys" -> {s \in {1, 2, 4, 8} \X (1 .. 16) \X {8, 12, 13, 16} : s[1] * s[2] <= s[3]}
      [] part = "assets" -> [amount : AssetAmounts, symbol : Symbols]
      [] part = "times" -> -20 .. 200
      [] part = "fixed" -> Fixed
      [] OTHER -> {<<>>}

-----------------------------------------------------------------------------
PartsInit ==
    /\ LibraryInit
    /\ input \in Inputs
    /\ IF part = "heap" THEN H!Init ELSE mem = <<>> /\ used = <<>>

(* realloc is right unless it grows a block that is not the last one over  *)
(* the end of what its heap has handed out.                                *)
OverTheEnd(p, size) ==
    LET in == mem.heaps[H!HeapOf(mem, p)]
        end == in.start + in.offset
    IN  p + mem.marks[p - 1].size # end /\ p + H!Adjusted(size) > end

HeapNext ==
    \/ \E size \in Sizes : H!DoMalloc(size)
    \/ \E p \in DOMAIN used : H!DoFree(p) \/ \E size \in ReallocSizes :
            (RightReallocs => ~OverTheEnd(p, size)) /\ H!DoRealloc(p, size)

PartsNext ==
    \/ LibraryNext /\ UNCHANGED <<heap, input>>
    \/ part = "heap" /\ HeapNext /\ UNCHANGED <<library, input>>

PartsSpec == PartsInit /\ [][PartsNext]_all

-----------------------------------------------------------------------------
(* Blocks that are handed out do not overlap (eosiolib.cpp:300-380).       *)
BlocksDisjoint == part = "heap" => H!BlocksDisjoint

(* The memory: blocks are apart, markers lead through the heaps, what is   *)
(* free in a row is found (eosiolib.cpp); and what optionals make and      *)
(* destroy keeps up with their flags, but for the reads that set the flag  *)
(* of an empty one (optional.hpp:28-159, :437).                            *)
StorageSafe == Boxes!LifetimesMatch /\ (part = "heap" => H!HeapSafe /\ H!NullMeansFull)

(* What is packed, named or made a key comes back.                         *)
ValuesComeBack ==
    /\ part = "codec" => S!ComesBack(input[1], input[2])
    /\ part = "signed" => S!SignedComesBack(input)
    /\ part = "key256" => S!KeyStreamed([i \in 1 .. S!KeyBytes |-> IF i = input THEN 9 ELSE 0])
    /\ part = "names" => N!NameComesBack(input)
    /\ part = "strings" => N!StringComesBack(input)
    /\ part = "symbols" => N!SymbolComesBack(input, 4)
    /\ part = "keys" => S!KeyComesBack(SomeWords(input[1], input[2]), input[3])

(* Amounts, times and fixed point numbers: an amount that does not fit     *)
(* aborts, and any other comes out exact, but for the least divided by -1; *)
(* times round down; a fixed point number that fits comes out exact, and   *)
(* one that does not is not noticed, as different points are not when two  *)
(* are compared (asset.hpp, time.hpp, fixedpoint.hpp).                     *)
NumbersExact ==
    /\ part = "assets" =>
          /\ A!PrintedRight(input)
          /\ \A b \in [amount : AssetAmounts, symbol : Symbols] : A!AssetsExact(input, b)
    /\ part = "times" => T!SlotsRoundDown(input)
    /\ part = "fixed" =>
          /\ \A x \in Fixed : P!FixedExact(input, x) /\ P!ComparedRight(input, x)
          /\ \A q \in 0 .. 7 : P!WidenedExact(input, q)
          /\ input.q = 0 => \A n \in 0 .. 15, q \in 0 .. 3 : P!DividedExact(n, input.val % 16, q)
=============================================================================
