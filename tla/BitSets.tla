------------------------------ MODULE BitSets ------------------------------
(***************************************************************************)
(* BitSet: a set of location ids in chunks of W bits.  A chunk is the set  *)
(* of its raised bits, so that & is \cap, | is \cup and &! is \.  Chunk    *)
(* number c of the code is data[c + 1] here.                               *)
(***************************************************************************)
EXTENDS Integers, Sequences

CONSTANT W   \* BITS_PER_CHUNK

ASSUME WidthAssumption == W \in Nat \ {0}

Bit == 0 .. W - 1
Chunk == SUBSET Bit

ChunkOf(i) == i \div W
BitOf(i) == i % W

get_chunk(data, c) == IF c < Len(data) THEN data[c + 1] ELSE {}

test(data, i) == BitOf(i) \in get_chunk(data, ChunkOf(i))

\* the set of ids a bitset stands for
Elems(data) == {i \in 0 .. (W * Len(data) - 1) : test(data, i)}

len_needed_for_capacity(cap) == IF cap % W = 0 THEN cap \div W ELSE cap \div W + 1

pad_trailing_zeroes(data, len) ==
    [c \in 1 .. (IF len > Len(data) THEN len ELSE Len(data)) |-> get_chunk(data, c - 1)]

\* Lowering a bit beyond the last chunk does nothing; raising one there
\* extends the bitset with empty chunks.
set_to(data, i, val) ==
    IF ~val /\ ChunkOf(i) >= Len(data) THEN data
    ELSE [pad_trailing_zeroes(data, ChunkOf(i) + 1) EXCEPT ![ChunkOf(i) + 1] =
              IF val THEN @ \cup {BitOf(i)} ELSE @ \ {BitOf(i)}]

\* the bitset that raising the ids of S one by one in an empty one leads to
from_iter(S) ==
    LET top == CHOOSE i \in S : \A j \in S : j <= i
    IN  [c \in 1 .. (IF S = {} THEN 0 ELSE ChunkOf(top) + 1) |->
            {k \in Bit : W * (c - 1) + k \in S}]
=============================================================================
