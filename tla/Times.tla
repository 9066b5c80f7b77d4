-------------------------------- MODULE Times --------------------------------
(***************************************************************************)
(* Points in time (time.hpp): microseconds since 1970, whole seconds, and  *)
(* the slots of blocks.                                                    *)
(***************************************************************************)
EXTENDS Integers

CONSTANTS
    Milli,    \* microseconds of a millisecond (1000)
    Second,   \* milliseconds of a second (1000)
    interval, \* block_interval_ms (500)
    epoch,    \* block_timestamp_epoch, in milliseconds
    Word      \* 2^32

\* what the constants have to be
TimesAssumption ==
    /\ {Milli, Second, interval, Word} \subseteq Nat \ {0} /\ epoch \in Nat

Wrap(n) == n % Word
Truncated(n, by) == IF n < 0 THEN -((-n) \div by) ELSE n \div by

seconds(s) == s * Second * Milli
SecSinceEpoch(micro) == Wrap(Truncated(micro, Second * Milli))

\* fault: to the nearest slot
SlotNearest(micro) == Wrap(Truncated(Truncated(micro, Milli) - epoch + interval \div 2, interval))

(* block_timestamp: from a time_point, from whole seconds, and back.       *)
SlotOf(micro) == Wrap(Truncated(Truncated(micro, Milli) - epoch, interval))
SlotOfSeconds(sec) == Wrap(Truncated(sec * Second - epoch, interval))
TimePoint(slot) == (slot * interval + epoch) * Milli

Overflows(slot) == Word - 1 - slot < 1
NextSlot(slot) == slot + 1

-----------------------------------------------------------------------------
(* The slot of a time is the last one not after it, from the year 2000 as  *)
(* long as slots last; whole seconds fall in the slot of their time.       *)
SlotsRoundDown(micro) ==
    LET slot == SlotOf(micro)
    IN  micro \in epoch * Milli .. TimePoint(Word) - 1 =>
            /\ TimePoint(slot) <= micro
            /\ ~Overflows(slot) => micro < TimePoint(NextSlot(slot))
            /\ seconds(SecSinceEpoch(micro)) >= epoch * Milli =>
                   SlotOfSeconds(SecSinceEpoch(micro)) = SlotOf(seconds(SecSinceEpoch(micro)))
=============================================================================
