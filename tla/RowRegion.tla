------------------------------ MODULE RowRegion ------------------------------
(***************************************************************************)
(* The region of one row in Serval (row_region.hpp) at the level of its    *)
(* words: core_bitmap_, and for each core transaction_bitmap_ and slots_,  *)
(* in which a version is found by counting bits.  Module Serval has sets   *)
(* in their place; here it is checked that the words find what the sets    *)
(* would.                                                                  *)
(*                                                                         *)
(* A core appends its transactions in ascending order.  Cores append       *)
(* concurrently, but each to its own array, and the bit of a core is set   *)
(* by an atomic or, so an append is one step.                              *)
(***************************************************************************)
EXTENDS Bitmap, SequencesExt

CONSTANT NumEpochs   \* NUM_EPOCH

ASSUME EpochsAssumption == NumEpochs \in Nat

\* 64 logical cores and 64 transactions for each, of one word's bits
Cores == Position
Txs   == Position

(***************************************************************************)
(* filed is a history variable: the transactions <<core, tx>> that have    *)
(* appended in this epoch.  popped: the last version handed to master_     *)
(* with its number, as pop_final_state returns them.                       *)
(***************************************************************************)
VARIABLES epoch, core_bitmap_, transaction_bitmap_, slots_, popped, filed

vars == <<epoch, core_bitmap_, transaction_bitmap_, slots_, popped, filed>>

None == <<0, 0, 0>>

\* A version is named by its epoch, its core and its transaction.
Init ==
    /\ epoch = 1
    /\ core_bitmap_ = 0
    /\ transaction_bitmap_ = [c \in Cores |-> 0]
    /\ slots_ = [c \in Cores |-> <<>>]
    /\ popped = <<-1, None>>
    /\ filed = {}

\* PerCoreVersionArray::get, for a version that is there
get(c, tx) ==
    slots_[c][count_bits(transaction_bitmap_[c]
                         & fill_the_left_side_until_the_given_position(tx))]

\* <<found, core, tx>>
identify_visible_version(core, tx) ==
    LET two == find_the_two_largest_among_or_less_than(core_bitmap_, core)
        second_core == two[1]
        first_core  == two[2]
        LatestOf(c) == <<TRUE, c, find_the_largest(transaction_bitmap_[c])>>
        first_tx == find_the_largest_among_less_than(transaction_bitmap_[core], tx)
    IN  IF first_core = -1 THEN <<FALSE, 0, 0>>
        ELSE IF first_core # core THEN LatestOf(first_core)
        ELSE IF first_tx # -1 THEN <<TRUE, core, first_tx>>
        ELSE IF second_core # -1 THEN LatestOf(second_core)
        ELSE <<FALSE, 0, 0>>

is_dirty == core_bitmap_ # 0

is_first_write(core) == ~is_bit_set_at_the_position(core_bitmap_, core)

\* An array after its versions are freed
do_gc_and_initialize_tx_bitmap == [bits |-> 0, slots |-> <<>>]

\* PerCoreVersionArray::append: slots_.insert at begin() + length(), then
\* update_transaction_bitmap
AppendToArray(array, version, tx) ==
    [bits  |-> SetBit(array.bits, tx),
     slots |-> InsertAt(array.slots, count_bits(array.bits) + 1, version)]

\* RowRegion::append
append(core, tx) ==
    /\ \A f \in filed : f[1] = core => f[2] < tx
    /\ LET old == IF is_first_write(core) THEN do_gc_and_initialize_tx_bitmap
                  ELSE [bits |-> transaction_bitmap_[core], slots |-> slots_[core]]
           new == AppendToArray(old, <<epoch, core, tx>>, tx)
       IN  /\ transaction_bitmap_' = [transaction_bitmap_ EXCEPT ![core] = new.bits]
           /\ slots_' = [slots_ EXCEPT ![core] = new.slots]
    /\ core_bitmap_' = core_bitmap_ | set_bit_at_the_given_location(core)
    /\ filed' = filed \cup {<<core, tx>>}
    /\ UNCHANGED <<epoch, popped>>

\* Mutation: the first version of the array is taken instead of the last.
MutPopLatest(core) ==
    <<find_the_largest(transaction_bitmap_[core]), Head(slots_[core])>>

\* The number and the version.  The bit stays.
pop_latest(core) ==
    <<find_the_largest(transaction_bitmap_[core]), Last(slots_[core])>>

\* Mutation: the bits of the last epoch stay.
MutInitializeCoreBitmap == core_bitmap_

initialize_core_bitmap == 0

\* The first write to the row in a later epoch.  The arrays stay as they are but
\* for the popped version.
initialize_the_row ==
    /\ epoch < NumEpochs /\ is_dirty
    /\ LET core == find_the_largest(core_bitmap_)   \* pop_final_state
       IN  /\ popped' = pop_latest(core)
           /\ slots_' = [slots_ EXCEPT ![core] = Front(@)]
    /\ core_bitmap_' = initialize_core_bitmap
    /\ filed' = {}
    /\ epoch' = epoch + 1
    /\ UNCHANGED transaction_bitmap_

Next == (\E c \in Cores, t \in Txs : append(c, t)) \/ initialize_the_row

Spec == Init /\ [][Next]_vars
-------------------------------------------------------------------------------
(***************************************************************************)
(* Properties                                                              *)
(***************************************************************************)

\* The order of the serial numbers core * 64 + tx
Earlier(f, g) == f[1] < g[1] \/ (f[1] = g[1] /\ f[2] < g[2])

LastOf(S) == CHOOSE f \in S : \A g \in S : f = g \/ Earlier(g, f)

\* A reader with any core and transaction, the first and the last bit of the
\* words included, is led by masks, shifts and bit counts to the version of the
\* last transaction of this epoch before its own, or told that there is none;
\* never to a version that an earlier epoch left in an array.
VisibleIsPredecessor ==
    is_dirty => \A core \in Cores, tx \in Txs :
        LET before == {f \in filed : Earlier(f, <<core, tx>>)}
            found  == identify_visible_version(core, tx)
        IN  IF before = {} THEN ~found[1]
            ELSE /\ <<found[2], found[3]>> = LastOf(before)
                 /\ found[1] /\ get(found[2], found[3]) = <<epoch>> \o LastOf(before)

\* The version that becomes master_ is that of the last transaction of the
\* epoch that appended to the row, and the number returned with it is its own.
FinalStateIsLast ==
    [][popped' # popped =>
         popped' = <<LastOf(filed)[2], <<epoch>> \o LastOf(filed)>>]_vars

PositionsOf(bits) == {p \in Position : W - 1 - p \in BitsFromRight(bits)}
LargestIn(S) == IF S = {} THEN -1 ELSE Max(S)

\* On every word the functions that Serval and Cheetah use to search bitmaps
\* are what they are for sets of positions; count_bits of a mask is the rank by
\* which Cheetah's count_prefix_sum and Serval's get index their vectors.
BitmapsActAsSets ==
    \A c \in Cores, p \in Position :
        LET bits   == transaction_bitmap_[c]
            S      == PositionsOf(bits)
            upto   == {q \in S : q <= p}
            before == {q \in S : q < p}
        IN  /\ is_bit_set_at_the_position(bits, p) <=> p \in S
            /\ count_bits(bits & fill_the_left_side_until_before_the_given_position(p))
                 = Cardinality(before)
            /\ bits # 0 => /\ find_the_largest(bits) = Max(S)
                           /\ find_the_largest_among_or_less_than(bits, p) = LargestIn(upto)
                           /\ find_the_largest_among_less_than(bits, p) = LargestIn(before)
                           /\ find_the_two_largest_among_or_less_than(bits, p)
                                = <<LargestIn(upto \ {LargestIn(upto)}), LargestIn(upto)>>
===============================================================================
