------------------------------- MODULE BitOps -------------------------------
(***************************************************************************)
(* The operations of BitSet the coordinator's loops do not write out, on   *)
(* two bitsets that any sequence of calls has made.  What differs from     *)
(* operations on sets is the length: a bitset has as many chunks as it     *)
(* happens to have, zero chunks at its end included.                       *)
(***************************************************************************)
EXTENDS BitSets, SequencesExt

CONSTANT MaxChunks   \* bound on the length of both

VARIABLES a, b

opsVars == <<a, b>>

-----------------------------------------------------------------------------
(* Iterators *)

BitsUp == [k \in 1 .. W |-> k - 1]
Ids(c, chunk) == LET raised == SelectSeq(BitsUp, LAMBDA k : k \in chunk)
                 IN  [i \in DOMAIN raised |-> W * c + raised[i]]

\* chunk by chunk, and bit by bit from the lowest
iter_sparse(data) == FlattenSeq([c \in DOMAIN data |-> Ids(c - 1, data[c])])

\* The second operand is read at chunk 0 only, and what is yielded is the
\* position after the bit.
fetch_chunk(d, e, c) == IF c < Len(d) /\ e # <<>> THEN d[c + 1] \cap e[1] ELSE {}
iter_and(d, e) ==
    FlattenSeq([c \in DOMAIN d |-> LET ids == Ids(c - 1, fetch_chunk(d, e, c - 1))
                                   IN  [i \in DOMAIN ids |-> ids[i] + 1]])

-----------------------------------------------------------------------------
(* Questions *)

is_empty(data) == \A c \in DOMAIN data : data[c] = {}

\* loops over two bitsets end with the shorter
Common(d, e) == DOMAIN d \cap DOMAIN e

intersects_with(d, e) == \E c \in Common(d, e) : d[c] \cap e[c] # {}

\* Mutant: the chunks only the other has are not looked at.
SupersetOfCommon(d, e) == \A c \in Common(d, e) : e[c] \subseteq d[c]

is_superset(d, e) == Len(d) >= Len(e) /\ \A c \in Common(d, e) : e[c] \subseteq d[c]

\* what set_to returns
was_set(data, i) == ChunkOf(i) < Len(data) /\ BitOf(i) \in data[ChunkOf(i) + 1]

-----------------------------------------------------------------------------
(* Changes *)

strip_trailing_zeroes(data) ==
    LET used == {c \in DOMAIN data : data[c] # {}}
    IN  SubSeq(data, 1, IF used = {} THEN 0 ELSE CHOOSE c \in used : \A d \in used : d <= c)

from_chunks(chunks) == strip_trailing_zeroes(chunks)
from_chunk(chunk) == IF chunk = {} THEN <<>> ELSE <<chunk>>
with_capacity(cap) == [c \in 1 .. len_needed_for_capacity(cap) |-> {}]

difference_with(d, e) == [c \in DOMAIN d |-> IF c \in DOMAIN e THEN d[c] \ e[c] ELSE d[c]]

\* A longer operand is appended whole, its first chunks once more.
or_with(d, e) ==
    LET both == [c \in DOMAIN d |-> IF c \in DOMAIN e THEN d[c] \cup e[c] ELSE d[c]]
    IN  IF Len(e) > Len(d) THEN both \o e ELSE both

-----------------------------------------------------------------------------
Init == a = <<>> /\ b = <<>>

Becomes(data) ==
    \/ a' = data /\ UNCHANGED b
    \/ b' = data /\ UNCHANGED a

Next ==
    \/ \E i \in 0 .. W * MaxChunks - 1, val \in BOOLEAN :
            \/ a' = set_to(a, i, val) /\ UNCHANGED b
            \/ b' = set_to(b, i, val) /\ UNCHANGED a
    \/ \E cap \in 0 .. W * MaxChunks :
            \/ a' = pad_trailing_zeroes(a, len_needed_for_capacity(cap)) /\ UNCHANGED b
            \/ Becomes(with_capacity(cap))
    \/ a' = strip_trailing_zeroes(a) /\ UNCHANGED b
    \/ \E chunk \in Chunk : Becomes(from_chunk(chunk))
    \/ Becomes(from_chunks(b))
    \/ a' = difference_with(a, b) /\ UNCHANGED b
    \/ Len(or_with(a, b)) <= MaxChunks /\ a' = or_with(a, b) /\ UNCHANGED b

-----------------------------------------------------------------------------
(***************************************************************************)
(* Whatever lengths two bitsets have come to have, the operations answer   *)
(* and do what they would on the sets of their ids, with these exceptions: *)
(* a shorter bitset is never a superset, a longer operand of or_with must  *)
(* have nothing raised to leave the result right, and iter_and is right    *)
(* only in that it yields nothing when its second operand is empty, as the *)
(* one exhaust_rules gives it is.                                          *)
(***************************************************************************)
OperationsExact ==
    /\ ToSet(iter_sparse(a)) = Elems(a)
    /\ \A i \in 2 .. Len(iter_sparse(a)) : iter_sparse(a)[i - 1] < iter_sparse(a)[i]
    /\ is_empty(a) <=> Elems(a) = {}
    /\ intersects_with(a, b) <=> Elems(a) \cap Elems(b) # {}
    /\ is_superset(a, b) => Elems(b) \subseteq Elems(a)
    /\ Elems(b) \subseteq Elems(a) /\ Len(a) >= Len(b) => is_superset(a, b)
    /\ is_empty(b) => iter_and(a, b) = <<>>
    /\ Elems(difference_with(a, b)) = Elems(a) \ Elems(b)
    /\ Len(a) >= Len(b) \/ is_empty(b) => Elems(or_with(a, b)) = Elems(a) \cup Elems(b)
    /\ Elems(strip_trailing_zeroes(a)) = Elems(a)
    /\ strip_trailing_zeroes(a) = <<>> \/ Last(strip_trailing_zeroes(a)) # {}
    /\ \A i \in 0 .. W * (MaxChunks + 1) : was_set(a, i) <=> i \in Elems(a)
=============================================================================
