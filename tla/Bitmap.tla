-------------------------------- MODULE Bitmap --------------------------------
(***************************************************************************)
(* utils/bitmap.hpp on words of W bits.  Position 0 is the leftmost bit.   *)
(* A word is the number it is as an unsigned integer; the right shift of   *)
(* the signed 1000...0 copies the sign bit, and the result is converted    *)
(* back to an unsigned word.                                               *)
(***************************************************************************)
EXTENDS Integers, FiniteSets, FiniteSetsExt, Bitwise

CONSTANT W   \* 64

ASSUME WAssumption == W \in Nat \ {0}

Position == 0 .. W - 1
Word     == 0 .. 2 ^ W - 1

\* __builtin_popcountll and __builtin_ffsll, which counts from the right and
\* from 1
BitsFromRight(bits) == {j \in Position : (bits \div 2 ^ j) % 2 = 1}

count_bits(bits) == Cardinality(BitsFromRight(bits))
ffs(bits) == IF bits = 0 THEN 0 ELSE 1 + Min(BitsFromRight(bits))

set_upper_bit___unsigned == 2 ^ W - 1 - (2 ^ W - 1) \div 2
set_upper_bit___signed   == set_upper_bit___unsigned - 2 ^ W

set_bit_at_the_given_location(pos) == set_upper_bit___unsigned \div 2 ^ pos

is_bit_set_at_the_position(bitmap, pos) ==
    (bitmap & set_bit_at_the_given_location(pos)) # 0

\* The overload with a bitmap
SetBit(bitmap, pos) == bitmap | set_bit_at_the_given_location(pos)

ShiftRight(signed, n) == (signed \div 2 ^ n) % 2 ^ W

fill_the_left_side_until_before_the_given_position(pos) ==
    IF pos = 0 THEN 0 ELSE ShiftRight(set_upper_bit___signed, pos - 1)

\* Mutation: the mask is shifted as an unsigned word, so it is a single bit.
MutFillUntil(pos) == set_upper_bit___unsigned \div 2 ^ pos

fill_the_left_side_until_the_given_position(pos) ==
    ShiftRight(set_upper_bit___signed, pos)

find_the_largest(bits) == W - ffs(bits)

find_the_largest_among_or_less_than(bitmap, pos) ==
    LET smallers == bitmap & fill_the_left_side_until_the_given_position(pos)
    IN  IF smallers = 0 THEN -1 ELSE find_the_largest(smallers)

\* <<second largest, first largest>>
find_the_two_largest_among_or_less_than(bitmap, pos) ==
    LET smallers == bitmap & fill_the_left_side_until_the_given_position(pos)
        largest  == find_the_largest(smallers)
        others   == (2 ^ W - 1 - set_bit_at_the_given_location(largest)) & smallers
    IN  IF smallers = 0 THEN <<-1, -1>>
        ELSE IF count_bits(smallers) = 1 THEN <<-1, largest>>
        ELSE <<find_the_largest(others), largest>>

find_the_largest_among_less_than(bitmap, pos) ==
    LET smallers == bitmap & fill_the_left_side_until_before_the_given_position(pos)
    IN  IF smallers = 0 THEN -1 ELSE find_the_largest(smallers)
===============================================================================
