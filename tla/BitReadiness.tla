---------------------------- MODULE BitReadiness ----------------------------
(***************************************************************************)
(* Readiness and memory bits as the coordinator really keeps them: bitsets *)
(* of whatever length they happen to have, which the loops over chunks     *)
(* (izip!) only follow to the end of the shortest.  Who calls when, the    *)
(* lock and the guards on values are Proto's matter; here any location may *)
(* become ready and any rule whose bits allow it may fire.                 *)
(***************************************************************************)
EXTENDS ProtoDef, BitSets

\* Location ids are numbers, as LocId is, and there are finitely many.
ASSUME LocIdAssumption ==
    /\ Loc \subseteq Nat /\ Loc # {}
    /\ \A S \in SUBSET Loc : S # {} => \E top \in S : \A i \in S : i <= top

VARIABLES
    ready_bits,    \* ProtoActive.ready
    memory_bits    \* ProtoW.memory_bits

vars == <<ready_bits, memory_bits>>

max_loc_id == CHOOSE i \in Loc : \A j \in Loc : j <= i

ToCapacity(data) == pad_trailing_zeroes(data, len_needed_for_capacity(max_loc_id))

(***************************************************************************)
(* The bitsets of a rule as build_rules leaves them.  Those in which it    *)
(* lowers bits again, for a cell that puts to itself, keep the chunks they *)
(* have grown to.                                                          *)
(***************************************************************************)
Built(S, touched) == ToCapacity(pad_trailing_zeroes(from_iter(S), Len(from_iter(touched))))

ready_chunks(r) == ToCapacity(from_iter(guard_ready(r)))
full_chunks(r) == ToCapacity(from_iter(guard_full(r)))
vals_chunks(r) == Built(assign_vals(r), UNION {mg(a) : a \in Actions(r)})
mask_chunks(r) == Built(assign_mask(r), UNION {(mg(a) \cup {a.putter}) \cap Memo : a \in Actions(r)})

\* izip! stops with the shortest of its iterators.
Shortest(datas) == CHOOSE n \in {Len(d) : d \in datas} : \A d \in datas : n <= Len(d)

\* Mutants: full cells are not noticed; readiness of putters is kept.
IsReadyHalf(r) ==
    \A c \in 1 .. Shortest({ready_bits, memory_bits, ready_chunks(r), full_chunks(r)}) :
        LET should_be_pos == ready_chunks(r)[c] \cap full_chunks(r)[c]
        IN  should_be_pos \subseteq ready_bits[c] \cap memory_bits[c]
SubtractFirstChunk(r) ==
    [c \in DOMAIN ready_bits |->
        IF c = 1 THEN ready_bits[c] \ ready_chunks(r)[c] ELSE ready_bits[c]]

is_ready(r) ==
    \A c \in 1 .. Shortest({ready_bits, memory_bits, ready_chunks(r), full_chunks(r)}) :
        LET should_be_pos == ready_chunks(r)[c] \cap full_chunks(r)[c]
            should_be_neg == ready_chunks(r)[c] \ full_chunks(r)[c]
        IN  /\ should_be_pos \subseteq ready_bits[c] \cap memory_bits[c]
            /\ should_be_neg \subseteq ready_bits[c] \ memory_bits[c]

assign_memory_bits(r) ==
    [c \in DOMAIN memory_bits |->
        IF c <= Shortest({vals_chunks(r), mask_chunks(r)})
        THEN (memory_bits[c] \cup vals_chunks(r)[c] \cup mask_chunks(r)[c])
                \ (mask_chunks(r)[c] \ vals_chunks(r)[c])
        ELSE memory_bits[c]]

subtract_readiness(r) ==
    [c \in DOMAIN ready_bits |->
        IF c <= Len(ready_chunks(r)) THEN ready_bits[c] \ ready_chunks(r)[c]
        ELSE ready_bits[c]]

-----------------------------------------------------------------------------
\* finish: the readiness bits are not padded, the memory bits are.
Init ==
    /\ ready_bits = from_iter(Memo)
    /\ memory_bits = ToCapacity(<<>>)

Arrive(x) ==
    /\ ready_bits' = set_to(ready_bits, x, TRUE)
    /\ UNCHANGED memory_bits

Leave(t) ==
    /\ ready_bits' = set_to(ready_bits, t, FALSE)
    /\ UNCHANGED memory_bits

Fire(r) ==
    /\ is_ready(r)
    /\ memory_bits' = assign_memory_bits(r)
    /\ ready_bits' = subtract_readiness(r)

Next ==
    \/ \E x \in Loc : Arrive(x)
    \/ \E t \in Port : Leave(t)
    \/ \E r \in RuleId : Fire(r)

Spec == Init /\ [][Next]_vars

-----------------------------------------------------------------------------
Sets == INSTANCE Readiness WITH ready <- Elems(ready_bits), full <- Elems(memory_bits)

(***************************************************************************)
(* is_ready on chunks answers what is_ready on sets does (its comment:     *)
(* "Returns TRUE if the given memory and readiness bitsets satisfy the     *)
(* guard of the provided rule").                                           *)
(***************************************************************************)
GuardExact == \A r \in RuleId : is_ready(r) <=> Sets!is_ready(r)

(***************************************************************************)
(* The chunked bits take the steps of the plain sets, whichever port or    *)
(* cell comes and goes in whichever order.                                 *)
(***************************************************************************)
ImplementsSets == Sets!Spec

(***************************************************************************)
(* Layouts for which this is so (StructureProofs): the padding reaches the *)
(* largest id, and some memory cell shares its chunk, so that the          *)
(* readiness bits have full length from the start.                         *)
(***************************************************************************)
GoodLayout ==
    /\ max_loc_id % W # 0
    /\ \E m \in Memo : ChunkOf(m) = ChunkOf(max_loc_id)
=============================================================================
