-------------------------------- MODULE Codec --------------------------------
(***************************************************************************)
(* How values become bytes and back (datastream.hpp, varint.hpp, and the   *)
(* stream operators of optional): rows of tables, arguments of actions and *)
(* inline actions all go through it.                                       *)
(*                                                                         *)
(* A type is a record with its kind and the types it is made of.  The      *)
(* primitives, keys and checksums, copied as they lie in memory, are the   *)
(* kind "raw".  Reading returns the position after the value, or aborts at *)
(* the end of the buffer.                                                  *)
(***************************************************************************)
EXTENDS Integers, SequencesExt

CONSTANTS
    Group, \* 2^7, the values of one byte of a variable length integer
    Word,  \* 2^32
    WordBytes \* sizeof(word_t) of a fixed_key (16)

\* what the constants have to be
CodecAssumption ==
    /\ Group \in Nat \ {0, 1} /\ Word \in Nat /\ WordBytes \in Nat \ {0}
    /\ \E n \in 1 .. Word : Word = 4 * n

Aborted == [ok |-> FALSE, value |-> <<>>, pos |-> 0]
Got(value, pos) == [ok |-> TRUE, value |-> value, pos |-> pos]

-----------------------------------------------------------------------------
(* unsigned_int: groups from the lowest, each but the last flagged.        *)
RECURSIVE PackUnsigned(_)
PackUnsigned(n) == IF n < Group THEN <<n>> ELSE <<Group + (n % Group)>> \o PackUnsigned(n \div Group)

\* fault: the groups are read highest first
GroupsHighFirst(buf, pos, weight, v) ==
    IF pos >= Len(buf) THEN Aborted
    ELSE IF buf[pos + 1] < Group \/ pos + 1 >= Len(buf) THEN Got(buf[pos + 1] % Group, pos + 1)
    ELSE Got(((buf[pos + 1] % Group) * Group + (buf[pos + 2] % Group)) % Word, pos + 2)

RECURSIVE Groups(_, _, _, _)
Groups(buf, pos, weight, v) ==
    IF pos >= Len(buf) THEN Aborted
    ELSE LET byte == buf[pos + 1]
             sum == (v + (byte % Group) * weight) % Word
         IN  IF byte >= Group THEN Groups(buf, pos + 1, (weight * Group) % Word, sum)
             ELSE Got(sum, pos + 1)

UnpackUnsigned(buf, pos) == Groups(buf, pos, 1, 0)

(* signed_int: the sign goes to the lowest bit.  The decoder also flips    *)
(* the lowest bit of numbers whose highest bit was set.                    *)
PackSigned(n) == PackUnsigned(IF n >= 0 THEN 2 * n ELSE -2 * n - 1)
Flip(n) == IF n % 2 = 0 THEN n + 1 ELSE n - 1
UnpackSigned(buf, pos) ==
    LET got == UnpackUnsigned(buf, pos)
        v == got.value
        half == (IF v >= Word \div 2 THEN Flip(v \div 2) ELSE v \div 2) + (v % 2)
    IN  IF ~got.ok THEN Aborted ELSE Got(IF v % 2 = 1 THEN -half ELSE half, got.pos)

-----------------------------------------------------------------------------
(* Raw bytes; the end of the buffer aborts.                                *)
Raw(buf, pos, size) == IF Len(buf) - pos < size THEN Aborted ELSE Got(SubSeq(buf, pos + 1, pos + size), pos + size)
To(got, Made(_)) == IF got.ok THEN Got(Made(got.value), got.pos) ELSE Aborted

PackBool(v) == IF v THEN <<1>> ELSE <<0>>
UnpackBool(buf, pos) == To(Raw(buf, pos, 1), LAMBDA b : b[1] # 0)

(* A key256 is two words of 16 bytes: it is written and read as if that    *)
(* were its size in bytes, over a key of zeroes.                           *)
KeyWords == 2
KeyBytes == 32
PackKey(v) == SubSeq(v, 1, KeyWords)
UnpackKey(buf, pos) ==
    To(Raw(buf, pos, KeyWords), LAMBDA b : [i \in 1 .. KeyBytes |-> IF i <= KeyWords THEN b[i] ELSE 0])

PackText(v) == PackUnsigned(Len(v)) \o v
UnpackText(buf, pos) ==
    LET count == UnpackUnsigned(buf, pos)
    IN  IF count.ok THEN Raw(buf, count.pos, count.value) ELSE Aborted

-----------------------------------------------------------------------------
RECURSIVE Pack(_, _), Unpack(_, _, _), UnpackAll(_, _, _)

(* A std::array is its items; a vector, a C array and a set have their     *)
(* number first.                                                           *)
PackItems(t, items) == FlattenSeq([i \in DOMAIN items |-> Pack(t.of, items[i])])
PackCounted(t, items) == PackUnsigned(Len(items)) \o PackItems(t, items)

InOrder(keys) == SetToSortSeq(keys, LAMBDA a, b : a < b)
PackSet(t, v) == PackCounted(t, InOrder(v))
PackMap(t, v) ==
    LET keys == InOrder(DOMAIN v)
    IN  PackUnsigned(Len(keys))
            \o FlattenSeq([i \in DOMAIN keys |-> Pack(t.key, keys[i]) \o Pack(t.of, v[keys[i]])])

PackTuple(t, v) == FlattenSeq([i \in DOMAIN v |-> Pack(t.fields[i], v[i])])
PackOptional(t, v) == IF v = <<>> THEN <<0>> ELSE <<1>> \o Pack(t.of, v[1])

Pack(t, v) ==
    CASE t.kind = "raw" -> v
      [] t.kind = "bool" -> PackBool(v)
      [] t.kind = "unsigned" -> PackUnsigned(v)
      [] t.kind = "signed" -> PackSigned(v)
      [] t.kind = "text" -> PackText(v)
      [] t.kind = "key256" -> PackKey(v)
      [] t.kind = "array" -> PackItems(t, v)
      [] t.kind \in {"vector", "carray"} -> PackCounted(t, v)
      [] t.kind = "set" -> PackSet(t, v)
      [] t.kind = "map" -> PackMap(t, v)
      [] t.kind = "tuple" -> PackTuple(t, v)
      [] t.kind = "optional" -> PackOptional(t, v)

-----------------------------------------------------------------------------
Copies(t, n) == [i \in 1 .. n |-> t.of]
Pairs(t, n) == [i \in 1 .. 2 * n |-> IF i % 2 = 1 THEN t.key ELSE t.of]

Types(t, n) == IF t.kind = "map" THEN Pairs(t, n) ELSE Copies(t, n)
Counted(t, buf, pos) ==
    LET count == UnpackUnsigned(buf, pos)
    IN  IF count.ok THEN UnpackAll(Types(t, count.value), buf, count.pos) ELSE Aborted

(* A C array also compares the number; a map keeps the first value of a    *)
(* key.                                                                    *)
UnpackArray(t, buf, pos) == UnpackAll(Copies(t, t.size), buf, pos)
UnpackCArray(t, buf, pos) ==
    LET got == Counted(t, buf, pos) IN IF got.ok /\ Len(got.value) = t.size THEN got ELSE Aborted
UnpackSet(t, buf, pos) == To(Counted(t, buf, pos), ToSet)
First(pairs) ==
    [k \in {pairs[i] : i \in {j \in DOMAIN pairs : j % 2 = 1}} |->
        pairs[1 + CHOOSE i \in DOMAIN pairs :
                    i % 2 = 1 /\ pairs[i] = k /\ \A j \in 1 .. i - 1 : j % 2 = 1 => pairs[j] # k]]
UnpackMap(t, buf, pos) == To(Counted(t, buf, pos), First)

UnpackOptional(t, buf, pos) ==
    LET flag == Raw(buf, pos, 1)
    IN  IF ~flag.ok THEN Aborted
        ELSE IF flag.value[1] = 0 THEN Got(<<>>, flag.pos)
        ELSE To(Unpack(t.of, buf, flag.pos), LAMBDA v : <<v>>)

Unpack(t, buf, pos) ==
    CASE t.kind = "raw" -> Raw(buf, pos, t.size)
      [] t.kind = "bool" -> UnpackBool(buf, pos)
      [] t.kind = "unsigned" -> UnpackUnsigned(buf, pos)
      [] t.kind = "signed" -> UnpackSigned(buf, pos)
      [] t.kind = "text" -> UnpackText(buf, pos)
      [] t.kind = "key256" -> UnpackKey(buf, pos)
      [] t.kind = "array" -> UnpackArray(t, buf, pos)
      [] t.kind = "carray" -> UnpackCArray(t, buf, pos)
      [] t.kind = "vector" -> Counted(t, buf, pos)
      [] t.kind = "set" -> UnpackSet(t, buf, pos)
      [] t.kind = "map" -> UnpackMap(t, buf, pos)
      [] t.kind = "tuple" -> UnpackAll(t.fields, buf, pos)
      [] t.kind = "optional" -> UnpackOptional(t, buf, pos)

UnpackAll(types, buf, pos) ==
    IF types = <<>> THEN Got(<<>>, pos)
    ELSE LET first == Unpack(Head(types), buf, pos)
             rest == UnpackAll(Tail(types), buf, first.pos)
         IN  IF first.ok THEN To(rest, LAMBDA vs : <<first.value>> \o vs) ELSE Aborted

-----------------------------------------------------------------------------
(* What was packed comes back whatever follows it in the buffer, and a     *)
(* buffer that was cut short is refused and never misread.                 *)
ComesBack(t, v) ==
    LET bytes == Pack(t, v)
    IN  /\ Unpack(t, bytes \o <<1, 0>>, 0) = Got(v, Len(bytes))
        /\ \A n \in 0 .. Len(bytes) - 1 : ~Unpack(t, SubSeq(bytes, 1, n), 0).ok

(* A signed_int comes back only below 2^30: beyond, the decoder is wrong.  *)
SignedComesBack(n) ==
    (UnpackSigned(PackSigned(n), 0).value = n) = (n \in -(Word \div 4) .. Word \div 4 - 1)

(* A key256 comes back only if nothing but its first two bytes is set.     *)
KeyStreamed(key) ==
    (Unpack([kind |-> "key256"], Pack([kind |-> "key256"], key), 0).value = key)
        = (\A i \in KeyWords + 1 .. KeyBytes : key[i] = 0)
-----------------------------------------------------------------------------
(* fixed_key: a key of Size bytes, kept in words of WordBytes bytes, made  *)
(* from smaller words and taken apart into bytes again.  A word is the     *)
(* sequence of its bytes from the highest.                                 *)

NumWords(size) == (size + WordBytes - 1) \div WordBytes
PaddedBytes(size) == NumWords(size) * WordBytes - size

\* fault: the last word is left where it is
Unshifted(word, bytes) == word

Zeroes(n) == [i \in 1 .. n |-> 0]
Shifted(word, bytes) == SubSeq(word \o Zeroes(bytes), bytes + 1, bytes + WordBytes)

(* set_from_word_sequence: each word is put below those before it.  The    *)
(* rest of the last one is moved up by a byte for each word that is        *)
(* missing but one, however long the words are.                            *)
SetFromWordSequence(arr, size) ==
    LET k == Len(arr[1])
        num == WordBytes \div k
        Or(temp, w) == [i \in 1 .. WordBytes |-> IF i > WordBytes - k THEN w[i - WordBytes + k] ELSE temp[i]]
        full == Len(arr) \div num
        left == num - (Len(arr) % num)
        Put[n \in 0 .. num, word \in 0 .. full] ==
            IF n = 0 THEN Zeroes(WordBytes)
            ELSE Or(IF n = 1 THEN Put[0, word] ELSE Shifted(Put[n - 1, word], k), arr[word * num + n])
        rest == Shifted(Put[num - left, full], k)
    IN  [word \in 1 .. NumWords(size) |->
            IF word <= full THEN Put[num, word - 1]
            ELSE IF word > full + 1 \/ left = num THEN Zeroes(WordBytes)
            ELSE IF left > 1 THEN Shifted(rest, left - 1) ELSE rest]

(* extract_as_byte_array: the lowest bytes of the last word.               *)
ExtractAsByteArray(data, size) ==
    [i \in 1 .. size |->
        LET word == (i - 1) \div WordBytes + 1
            at == ((i - 1) % WordBytes) + 1
        IN  data[word][IF word = Len(data) THEN at + PaddedBytes(size) ELSE at]]

-----------------------------------------------------------------------------
(* A key made of words gives their bytes back, followed by zeroes, unless  *)
(* bytes are out of place: those of a last word that is not full lag       *)
(* behind, and the last word of the key is read after its padding.         *)
BytesOf(arr, size) == SubSeq(FlattenSeq(arr) \o Zeroes(size), 1, size)
Lag(k, n) == IF (n * k) % WordBytes = 0 THEN 0 ELSE (k - 1) * ((WordBytes - ((n * k) % WordBytes)) \div k - 1)
InPlace(k, n, size) ==
    Lag(k, n) = (IF n * k > WordBytes * (NumWords(size) - 1) THEN PaddedBytes(size) ELSE 0)
KeyComesBack(arr, size) ==
    (ExtractAsByteArray(SetFromWordSequence(arr, size), size) = BytesOf(arr, size))
        = InPlace(Len(arr[1]), Len(arr), size)
=============================================================================
