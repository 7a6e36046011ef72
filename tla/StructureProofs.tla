--------------------------- MODULE StructureProofs ---------------------------
(***************************************************************************)
(* Bitsets: where the largest id is no multiple of the chunk width and     *)
(* shares its chunk with a memory cell, all bitsets of a connector have    *)
(* the same length, and the coordinator's loops over chunks do what the    *)
(* other modules say of sets, for any chunk width.                         *)
(* Storage: StorageSound for any addresses, types and layouts.             *)
(***************************************************************************)
EXTENDS BitReadiness, Storage, TLAPS


USE LocIdAssumption, WidthAssumption

-----------------------------------------------------------------------------
(* Division *)

LEMMA DivMod ==
    ASSUME NEW i \in Nat
    PROVE  /\ ChunkOf(i) \in Nat /\ BitOf(i) \in Bit
           /\ i = W * ChunkOf(i) + BitOf(i)
BY Z3 DEF ChunkOf, BitOf, Bit

LEMMA DivUnique ==
    ASSUME NEW q \in Nat, NEW k \in Bit
    PROVE  /\ W * q + k \in Nat
           /\ ChunkOf(W * q + k) = q /\ BitOf(W * q + k) = k
<1> DEFINE i == W * q + k
<1>1. i \in Nat BY DEF Bit
<1>2. /\ ChunkOf(i) \in Nat /\ BitOf(i) \in Bit
      /\ i = W * ChunkOf(i) + BitOf(i)
  BY <1>1, DivMod
<1>3. \A c \in Nat, b \in Bit : W * c + b = W * q + k => c = q /\ b = k
  BY Z3 DEF Bit
<1> QED BY <1>1, <1>2, <1>3

LEMMA ChunkMonotone ==
    ASSUME NEW i \in Nat, NEW n \in Nat
    PROVE  ChunkOf(i) < n <=> i <= W * n - 1
<1>1. ChunkOf(i) \in Nat /\ BitOf(i) \in Bit /\ i = W * ChunkOf(i) + BitOf(i) BY DivMod
<1>2. \A q \in Nat, p \in Nat : q < p => W * q + W <= W * p BY Z3
<1>3. CASE ChunkOf(i) < n
  <2>1. W * ChunkOf(i) + W <= W * n BY <1>1, <1>2, <1>3
  <2>2. W * ChunkOf(i) \in Int /\ W * n \in Int BY <1>1
  <2> QED BY <1>1, <1>3, <2>1, <2>2 DEF Bit
<1>4. CASE ~(ChunkOf(i) < n)
  <2>1. W * n <= W * ChunkOf(i)
    <3>1. CASE n = ChunkOf(i) BY <1>1, <3>1
    <3>2. CASE n < ChunkOf(i)
      <4>1. W * n + W <= W * ChunkOf(i) BY <1>1, <1>2, <3>2
      <4>2. W * ChunkOf(i) \in Int /\ W * n \in Int BY <1>1
      <4> QED BY <4>1, <4>2
    <3> QED BY <1>1, <1>4, <3>1, <3>2
  <2>2. W * ChunkOf(i) \in Int /\ W * n \in Int BY <1>1
  <2> QED BY <1>1, <1>4, <2>1, <2>2 DEF Bit
<1> QED BY <1>3, <1>4

LEMMA ChunkOrder ==
    ASSUME NEW i \in Nat, NEW j \in Nat, i <= j
    PROVE  ChunkOf(i) <= ChunkOf(j)
<1>1. ChunkOf(i) \in Nat /\ ChunkOf(j) \in Nat BY DivMod
<1>2. j <= W * (ChunkOf(j) + 1) - 1 BY <1>1, ChunkMonotone
<1>3. W * (ChunkOf(j) + 1) \in Int BY <1>1
<1>4. ChunkOf(i) < ChunkOf(j) + 1 BY <1>1, <1>2, <1>3, ChunkMonotone
<1> QED BY <1>1, <1>4

-----------------------------------------------------------------------------
(* Bitsets and the sets they stand for *)

Bits == Seq(Chunk)

LEMMA InElems ==
    ASSUME NEW data \in Bits, NEW i \in Nat
    PROVE  i \in Elems(data) <=>
                ChunkOf(i) < Len(data) /\ BitOf(i) \in data[ChunkOf(i) + 1]
<1>0. Len(data) \in Nat BY DEF Bits
<1>1. Len(data) \in Nat /\ ChunkOf(i) \in Nat BY <1>0, DivMod
<1>2. W * Len(data) \in Int BY <1>1
<1>3. i \in 0 .. (W * Len(data) - 1) <=> ChunkOf(i) < Len(data)
  BY <1>1, <1>2, ChunkMonotone
<1> QED BY <1>1, <1>3 DEF Elems, test, get_chunk

LEMMA ElemsAreNat == ASSUME NEW data \in Bits PROVE Elems(data) \subseteq Nat
<1>1. W * Len(data) \in Int BY DEF Bits
<1> QED BY <1>1 DEF Elems

\* A chunk holds the ids it should.
LEMMA ChunkContents ==
    ASSUME NEW data \in Bits, NEW c \in 1 .. Len(data), NEW k \in Bit
    PROVE  k \in data[c] <=> W * (c - 1) + k \in Elems(data)
<1>1. Len(data) \in Nat BY DEF Bits
<1>2. c - 1 \in Nat /\ c - 1 < Len(data) /\ (c - 1) + 1 = c BY <1>1
<1>3. /\ W * (c - 1) + k \in Nat
      /\ ChunkOf(W * (c - 1) + k) = c - 1 /\ BitOf(W * (c - 1) + k) = k
  BY <1>2, DivUnique
<1> QED BY <1>2, <1>3, InElems

-----------------------------------------------------------------------------
(* The common length *)

N == ChunkOf(max_loc_id) + 1

LEMMA Largest ==
    /\ max_loc_id \in Loc /\ \A i \in Loc : i <= max_loc_id
    /\ N \in Nat \ {0}
    /\ \A i \in Loc : i \in Nat /\ ChunkOf(i) < N
<1>1. max_loc_id \in Loc /\ \A i \in Loc : i <= max_loc_id BY DEF max_loc_id
<1>2. N \in Nat \ {0} BY <1>1, DivMod DEF N
<1>3. \A i \in Loc : ChunkOf(i) <= ChunkOf(max_loc_id) /\ ChunkOf(i) \in Nat
  BY <1>1, ChunkOrder, DivMod
<1> QED BY <1>1, <1>2, <1>3, DivMod DEF N

LEMMA PaddedLength ==
    ASSUME GoodLayout
    PROVE  len_needed_for_capacity(max_loc_id) = N
BY DEF GoodLayout, len_needed_for_capacity, N, ChunkOf

LEMMA PadEmpty ==
    ASSUME NEW data \in Bits, NEW n \in Nat
    PROVE  /\ pad_trailing_zeroes(data, n) \in Bits
           /\ Len(pad_trailing_zeroes(data, n)) = (IF n > Len(data) THEN n ELSE Len(data))
           /\ Elems(pad_trailing_zeroes(data, n)) = Elems(data)
<1> DEFINE m == IF n > Len(data) THEN n ELSE Len(data)
           d == pad_trailing_zeroes(data, n)
<1>1. Len(data) \in Nat /\ m \in Nat /\ Len(data) <= m BY DEF Bits
<1>2. d = [c \in 1 .. m |-> get_chunk(data, c - 1)] BY DEF pad_trailing_zeroes
<1>3. \A c \in 1 .. m : get_chunk(data, c - 1) = IF c <= Len(data) THEN data[c] ELSE {}
  BY <1>1 DEF get_chunk
<1>4. \A c \in 1 .. m : get_chunk(data, c - 1) \in Chunk
  <2> TAKE c \in 1 .. m
  <2>1. CASE c <= Len(data)
    <3>1. c \in 1 .. Len(data) BY <1>1, <2>1
    <3> QED BY <1>3, <2>1, <3>1 DEF Bits
  <2>2. CASE ~(c <= Len(data)) BY <1>3, <2>2 DEF Chunk
  <2> QED BY <2>1, <2>2
<1>5. d \in Bits /\ Len(d) = m BY <1>1, <1>2, <1>4 DEF Bits
<1>6. \A i \in Nat : i \in Elems(d) <=> i \in Elems(data)
  <2> TAKE i \in Nat
  <2>1. ChunkOf(i) \in Nat BY DivMod
  <2>2. i \in Elems(d) <=> ChunkOf(i) < m /\ BitOf(i) \in d[ChunkOf(i) + 1]
    BY <1>5, InElems
  <2>3. i \in Elems(data) <=> ChunkOf(i) < Len(data) /\ BitOf(i) \in data[ChunkOf(i) + 1]
    BY InElems
  <2>4. ChunkOf(i) < m => d[ChunkOf(i) + 1] =
            IF ChunkOf(i) < Len(data) THEN data[ChunkOf(i) + 1] ELSE {}
    BY <1>1, <1>2, <1>3, <2>1
  <2> QED BY <1>1, <2>1, <2>2, <2>3, <2>4
<1>7. Elems(d) = Elems(data) BY <1>5, <1>6, ElemsAreNat
<1> QED BY <1>5, <1>7

LEMMA FromIter ==
    ASSUME NEW S \in SUBSET Loc
    PROVE  /\ from_iter(S) \in Bits
           /\ Len(from_iter(S)) <= N
           /\ \A i \in S : ChunkOf(i) < Len(from_iter(S))
           /\ Elems(from_iter(S)) = S
<1> DEFINE top == CHOOSE i \in S : \A j \in S : j <= i
           m == IF S = {} THEN 0 ELSE ChunkOf(top) + 1
           d == from_iter(S)
<1>1. S # {} => top \in S /\ \A j \in S : j <= top OBVIOUS
<1>2. S \subseteq Nat OBVIOUS
<1>3. m \in Nat /\ m <= N
  <2>1. CASE S = {} BY <2>1, Largest
  <2>2. CASE S # {}
    <3>1. top \in Loc /\ m = ChunkOf(top) + 1 BY <1>1, <2>2
    <3>2. ChunkOf(top) < N /\ N \in Nat BY <3>1, Largest
    <3>3. ChunkOf(top) \in Nat BY <3>1, Largest, DivMod
    <3> HIDE DEF m, top
    <3> QED BY <3>1, <3>2, <3>3
  <2> QED BY <2>1, <2>2
<1>4. d = [c \in 1 .. m |-> {k \in Bit : W * (c - 1) + k \in S}]
  BY DEF from_iter
<1>5. d \in Bits /\ Len(d) = m BY <1>3, <1>4 DEF Bits, Chunk
<1>6. \A i \in S : ChunkOf(i) < m
  <2> TAKE i \in S
  <2>1. top \in Nat /\ i \in Nat /\ i <= top /\ m = ChunkOf(top) + 1 BY <1>1, <1>2
  <2>2. ChunkOf(i) <= ChunkOf(top) /\ ChunkOf(i) \in Nat /\ ChunkOf(top) \in Nat
    BY <2>1, ChunkOrder, DivMod
  <2> QED BY <2>1, <2>2
<1>7. \A i \in Nat : i \in Elems(d) <=> i \in S
  <2> TAKE i \in Nat
  <2>1. ChunkOf(i) \in Nat /\ BitOf(i) \in Bit /\ i = W * ChunkOf(i) + BitOf(i) BY DivMod
  <2>2. i \in Elems(d) <=> ChunkOf(i) < m /\ BitOf(i) \in d[ChunkOf(i) + 1] BY <1>5, InElems
  <2>3. ChunkOf(i) < m => d[ChunkOf(i) + 1] = {k \in Bit : W * ChunkOf(i) + k \in S}
    <3>1. ASSUME ChunkOf(i) < m
          PROVE  /\ ChunkOf(i) + 1 \in 1 .. m /\ (ChunkOf(i) + 1) - 1 = ChunkOf(i)
      BY <1>3, <2>1, <3>1
    <3> QED BY <1>4, <3>1
  <2> QED BY <1>6, <2>1, <2>2, <2>3
<1>8. Elems(d) = S BY <1>2, <1>5, <1>7, ElemsAreNat
<1> QED BY <1>3, <1>5, <1>6, <1>8

-----------------------------------------------------------------------------
(* The bitsets of a rule *)

LEMMA RuleParts ==
    ASSUME NEW r \in RuleId
    PROVE  /\ guard_ready(r) \subseteq Loc /\ guard_full(r) \subseteq guard_ready(r)
           /\ assign_vals(r) \subseteq Loc /\ assign_mask(r) \subseteq Loc
           /\ UNION {mg(a) : a \in Actions(r)} \subseteq Loc
           /\ UNION {(mg(a) \cup {a.putter}) \cap Memo : a \in Actions(r)} \subseteq Loc
<1>1. \A a \in Actions(r) : a.putter \in Space /\ a.getters \subseteq Memo \cup PoGe
  <2> DEFINE RuleDef == [guard : Formula, actions : Seq(ActionDef)]
  <2>1. Rules \in Seq(RuleDef) BY RuleAssumption
  <2>2. r \in 1 .. Len(Rules) BY <2>1 DEF RuleId
  <2>3. Rules[r] \in RuleDef
    <3> HIDE DEF RuleDef
    <3> QED BY <2>1, <2>2
  <2>4. Rules[r].actions \in Seq(ActionDef) BY <2>3
  <2>5. Actions(r) \subseteq ActionDef BY <2>4 DEF Actions
  <2> QED BY <2>5 DEF ActionDef
<1> QED BY <1>1 DEF guard_ready, guard_full, assign_vals, assign_mask, mg, Loc, Space

LEMMA Padded ==
    ASSUME GoodLayout, NEW data \in Bits, Len(data) <= N
    PROVE  /\ ToCapacity(data) \in Bits /\ Len(ToCapacity(data)) = N
           /\ Elems(ToCapacity(data)) = Elems(data)
<1>1. Len(data) \in Nat BY DEF Bits
<1>2. N \in Nat BY Largest
<1>3. ToCapacity(data) = pad_trailing_zeroes(data, N) BY PaddedLength DEF ToCapacity
<1> QED BY <1>1, <1>2, <1>3, PadEmpty

LEMMA Collected ==
    ASSUME GoodLayout, NEW S \in SUBSET Loc
    PROVE  /\ ToCapacity(from_iter(S)) \in Bits /\ Len(ToCapacity(from_iter(S))) = N
           /\ Elems(ToCapacity(from_iter(S))) = S
BY FromIter, Padded

LEMMA Grown ==
    ASSUME GoodLayout, NEW S \in SUBSET Loc, NEW touched \in SUBSET Loc
    PROVE  /\ Built(S, touched) \in Bits /\ Len(Built(S, touched)) = N
           /\ Elems(Built(S, touched)) = S
<1> DEFINE d == pad_trailing_zeroes(from_iter(S), Len(from_iter(touched)))
<1>1. from_iter(S) \in Bits /\ Len(from_iter(S)) <= N /\ Elems(from_iter(S)) = S
  BY FromIter
<1>2. from_iter(touched) \in Bits /\ Len(from_iter(touched)) <= N BY FromIter
<1>3. Len(from_iter(touched)) \in Nat BY <1>2 DEF Bits
<1>4. d \in Bits /\ Len(d) <= N /\ Elems(d) = S BY <1>1, <1>2, <1>3, PadEmpty
<1>5. Built(S, touched) = ToCapacity(d) BY DEF Built
<1> QED BY <1>4, <1>5, Padded

LEMMA RuleChunks ==
    ASSUME GoodLayout, NEW r \in RuleId
    PROVE  /\ ready_chunks(r) \in Bits /\ Len(ready_chunks(r)) = N
           /\ Elems(ready_chunks(r)) = guard_ready(r)
           /\ full_chunks(r) \in Bits /\ Len(full_chunks(r)) = N
           /\ Elems(full_chunks(r)) = guard_full(r)
           /\ vals_chunks(r) \in Bits /\ Len(vals_chunks(r)) = N
           /\ Elems(vals_chunks(r)) = assign_vals(r)
           /\ mask_chunks(r) \in Bits /\ Len(mask_chunks(r)) = N
           /\ Elems(mask_chunks(r)) = assign_mask(r)
<1>1. /\ guard_ready(r) \subseteq Loc /\ guard_full(r) \subseteq Loc
  BY RuleParts
<1>2. /\ ready_chunks(r) \in Bits /\ Len(ready_chunks(r)) = N
      /\ Elems(ready_chunks(r)) = guard_ready(r)
  BY <1>1, Collected DEF ready_chunks
<1>3. /\ full_chunks(r) \in Bits /\ Len(full_chunks(r)) = N
      /\ Elems(full_chunks(r)) = guard_full(r)
  BY <1>1, Collected DEF full_chunks
<1>4. /\ vals_chunks(r) \in Bits /\ Len(vals_chunks(r)) = N
      /\ Elems(vals_chunks(r)) = assign_vals(r)
  BY RuleParts, Grown DEF vals_chunks
<1>5. /\ mask_chunks(r) \in Bits /\ Len(mask_chunks(r)) = N
      /\ Elems(mask_chunks(r)) = assign_mask(r)
  BY RuleParts, Grown DEF mask_chunks
<1> QED BY <1>2, <1>3, <1>4, <1>5

LEMMA ShortestIsN ==
    ASSUME NEW D, D # {}, \A d \in D : Len(d) = N
    PROVE  Shortest(D) = N
<1>1. {Len(d) : d \in D} = {N} OBVIOUS
<1>2. N <= N BY Largest
<1> QED BY <1>1, <1>2 DEF Shortest

-----------------------------------------------------------------------------
(* All bitsets keep the common length. *)

FullLength ==
    /\ ready_bits \in Bits /\ Len(ready_bits) = N
    /\ memory_bits \in Bits /\ Len(memory_bits) = N

LEMMA SameRule ==
    ASSUME NEW r \in RuleId
    PROVE  /\ Sets!guard_ready(r) = guard_ready(r) /\ Sets!guard_full(r) = guard_full(r)
           /\ Sets!assign_vals(r) = assign_vals(r) /\ Sets!assign_mask(r) = assign_mask(r)
BY DEF Sets!guard_ready, guard_ready, Sets!guard_full, guard_full, Sets!assign_vals,
       assign_vals, Sets!assign_mask, assign_mask, Sets!Actions, Actions, Sets!mg, mg,
       Sets!SelfPut, SelfPut

LEMMA SameGuard ==
    ASSUME GoodLayout, FullLength, NEW r \in RuleId
    PROVE  is_ready(r) <=> Sets!is_ready(r)
<1> DEFINE R == ready_chunks(r)
           F == full_chunks(r)
<1>1. /\ R \in Bits /\ Len(R) = N /\ Elems(R) = guard_ready(r)
      /\ F \in Bits /\ Len(F) = N /\ Elems(F) = guard_full(r)
  BY RuleChunks
<1>2. N \in Nat BY Largest
<1>3. Shortest({ready_bits, memory_bits, R, F}) = N
  BY <1>1, ShortestIsN DEF FullLength
<1>4. \A c \in 1 .. N, k \in Bit :
        /\ k \in R[c] <=> W * (c - 1) + k \in guard_ready(r)
        /\ k \in F[c] <=> W * (c - 1) + k \in guard_full(r)
        /\ k \in ready_bits[c] <=> W * (c - 1) + k \in Elems(ready_bits)
        /\ k \in memory_bits[c] <=> W * (c - 1) + k \in Elems(memory_bits)
  BY <1>1, ChunkContents DEF FullLength
<1>5. \A c \in 1 .. N : R[c] \subseteq Bit /\ F[c] \subseteq Bit
  BY <1>1 DEF Bits, Chunk
<1> HIDE DEF R, F
<1>6. ASSUME Sets!is_ready(r) PROVE is_ready(r)
  <2>1. /\ guard_ready(r) \subseteq Elems(ready_bits)
        /\ guard_full(r) \subseteq Elems(memory_bits)
        /\ guard_ready(r) \cap Elems(memory_bits) \subseteq guard_full(r)
    BY <1>6, SameRule DEF Sets!is_ready
  <2>2. \A c \in 1 .. N : /\ R[c] \cap F[c] \subseteq ready_bits[c] \cap memory_bits[c]
                          /\ R[c] \ F[c] \subseteq ready_bits[c] \ memory_bits[c]
    BY <1>4, <1>5, <2>1
  <2> QED BY <1>3, <2>2 DEF is_ready, R, F
<1>7. ASSUME is_ready(r) PROVE Sets!is_ready(r)
  <2>1. \A c \in 1 .. N : /\ R[c] \cap F[c] \subseteq ready_bits[c] \cap memory_bits[c]
                          /\ R[c] \ F[c] \subseteq ready_bits[c] \ memory_bits[c]
    BY <1>3, <1>7 DEF is_ready, R, F
  <2>2. \A i \in guard_ready(r) :
            /\ i \in Elems(ready_bits)
            /\ i \in guard_full(r) <=> i \in Elems(memory_bits)
    <3> TAKE i \in guard_ready(r)
    <3>1. i \in Loc BY RuleParts
    <3>2. i \in Nat /\ ChunkOf(i) < N BY <3>1, Largest
    <3>3. ChunkOf(i) \in Nat /\ BitOf(i) \in Bit /\ i = W * ChunkOf(i) + BitOf(i)
      BY <3>2, DivMod
    <3>4. PICK c \in 1 .. N : c = ChunkOf(i) + 1 /\ c - 1 = ChunkOf(i) BY <1>2, <3>2, <3>3
    <3>5. W * (c - 1) + BitOf(i) = i BY <3>3, <3>4
    <3> QED BY <1>4, <2>1, <3>3, <3>5
  <2> QED BY <2>2, RuleParts, SameRule DEF Sets!is_ready
<1> QED BY <1>6, <1>7

-----------------------------------------------------------------------------
(* Steps.  Each keeps the length and does to the sets what Readiness says. *)

LEMMA InitStep ==
    ASSUME GoodLayout, Init
    PROVE  FullLength /\ Sets!Init
<1>1. /\ from_iter(Memo) \in Bits /\ Len(from_iter(Memo)) <= N
      /\ \A i \in Memo : ChunkOf(i) < Len(from_iter(Memo))
      /\ Elems(from_iter(Memo)) = Memo
  BY FromIter DEF Loc
<1>2. Len(from_iter(Memo)) = N
  <2>1. PICK m \in Memo : ChunkOf(m) = ChunkOf(max_loc_id) BY DEF GoodLayout
  <2>2. ChunkOf(max_loc_id) < Len(from_iter(Memo)) BY <1>1, <2>1
  <2>3. ChunkOf(max_loc_id) \in Nat /\ Len(from_iter(Memo)) \in Nat
    BY <1>1, Largest, DivMod DEF Bits
  <2> QED BY <1>1, <2>2, <2>3 DEF N
<1>3. <<>> \in Bits /\ Len(<<>>) <= N /\ Elems(<<>>) = {}
  <2>1. <<>> \in Bits /\ Len(<<>>) = 0 BY DEF Bits
  <2>2. \A i \in Nat : i \notin Elems(<<>>)
    <3> TAKE i \in Nat
    <3>1. ~(ChunkOf(i) < 0) BY DivMod
    <3> QED BY <2>1, <3>1, InElems
  <2> QED BY <2>1, <2>2, Largest, ElemsAreNat
<1>4. /\ ToCapacity(<<>>) \in Bits /\ Len(ToCapacity(<<>>)) = N
      /\ Elems(ToCapacity(<<>>)) = {}
  BY <1>3, Padded
<1> QED BY <1>1, <1>2, <1>4 DEF Init, FullLength, Sets!Init

LEMMA SetTo ==
    ASSUME NEW data \in Bits, Len(data) = N, NEW x \in Loc, NEW val \in BOOLEAN
    PROVE  /\ set_to(data, x, val) \in Bits /\ Len(set_to(data, x, val)) = N
           /\ Elems(set_to(data, x, val)) =
                    IF val THEN Elems(data) \cup {x} ELSE Elems(data) \ {x}
<1> DEFINE q == ChunkOf(x)
           b == BitOf(x)
           pad == pad_trailing_zeroes(data, q + 1)
           new == IF val THEN pad[q + 1] \cup {b} ELSE pad[q + 1] \ {b}
           d == set_to(data, x, val)
<1>1. x \in Nat /\ q \in Nat /\ q < N /\ b \in Bit /\ N \in Nat /\ x = W * q + b
  BY Largest, DivMod
<1>2. pad \in Bits /\ Len(pad) = N /\ Elems(pad) = Elems(data)
  <2>1. q + 1 \in Nat /\ ~(q + 1 > N) BY <1>1
  <2> QED BY <2>1, PadEmpty
<1>3. d = [pad EXCEPT ![q + 1] = new]
  BY <1>1 DEF set_to
<1>4. q + 1 \in 1 .. N BY <1>1
<1>5. new \in Chunk
  <2>1. pad[q + 1] \in Chunk BY <1>2, <1>4 DEF Bits
  <2> QED BY <1>1, <2>1 DEF Chunk
<1>6. d \in Bits /\ Len(d) = N
  <2> HIDE DEF pad, new, d, q
  <2>1. pad \in [1 .. N -> Chunk] BY <1>2 DEF Bits
  <2>2. d \in [1 .. N -> Chunk] BY <1>3, <1>5, <2>1
  <2> QED BY <1>1, <2>2 DEF Bits
<1>7. \A i \in Nat : i \in Elems(d) <=> IF i = x THEN val ELSE i \in Elems(data)
  <2> TAKE i \in Nat
  <2>1. ChunkOf(i) \in Nat /\ BitOf(i) \in Bit /\ i = W * ChunkOf(i) + BitOf(i) BY DivMod
  <2>2. i \in Elems(d) <=> ChunkOf(i) < N /\ BitOf(i) \in d[ChunkOf(i) + 1] BY <1>6, InElems
  <2>3. i \in Elems(data) <=> ChunkOf(i) < N /\ BitOf(i) \in pad[ChunkOf(i) + 1]
    BY <1>2, InElems
  <2>4. ChunkOf(i) < N => d[ChunkOf(i) + 1] =
            IF ChunkOf(i) = q THEN new ELSE pad[ChunkOf(i) + 1]
    <3>1. ASSUME ChunkOf(i) < N PROVE ChunkOf(i) + 1 \in 1 .. Len(pad)
      BY <1>1, <1>2, <2>1, <3>1
    <3>2. DOMAIN pad = 1 .. Len(pad) BY <1>2 DEF Bits
    <3>3. ChunkOf(i) + 1 = q + 1 <=> ChunkOf(i) = q BY <1>1, <2>1
    <3> HIDE DEF pad, new, d, q
    <3> QED BY <1>3, <3>1, <3>2, <3>3
  <2>5. i = x <=> ChunkOf(i) = q /\ BitOf(i) = b BY <1>1, <2>1
  <2>6. ChunkOf(i) = q => (BitOf(i) \in new <=>
            IF BitOf(i) = b THEN val ELSE BitOf(i) \in pad[ChunkOf(i) + 1])
    OBVIOUS
  <2> HIDE DEF pad, new, d, q, b
  <2> QED BY <1>1, <2>2, <2>3, <2>4, <2>5, <2>6
<1>8. Elems(d) \subseteq Nat /\ Elems(data) \subseteq Nat BY <1>6, ElemsAreNat
<1>9. Elems(d) = IF val THEN Elems(data) \cup {x} ELSE Elems(data) \ {x}
  <2> HIDE DEF d
  <2> QED BY <1>1, <1>7, <1>8
<1> QED BY <1>6, <1>9

\* Chunk by chunk, a bitset of length N turns into another.
LEMMA Chunkwise ==
    ASSUME NEW data \in Bits, Len(data) = N, NEW f,
           NEW T, f = [c \in 1 .. N |-> f[c]],
           \A c \in 1 .. N : f[c] \subseteq Bit,
           \A c \in 1 .. N, k \in Bit : k \in f[c] <=> W * (c - 1) + k \in T,
           \A i \in T : i \in Nat /\ ChunkOf(i) < N
    PROVE  f \in Bits /\ Len(f) = N /\ Elems(f) = T
<1>1. N \in Nat BY Largest
<1>2. f \in [1 .. N -> Chunk] BY DEF Chunk
<1>3. f \in Bits /\ Len(f) = N BY <1>1, <1>2 DEF Bits
<1>4. \A i \in Nat : i \in Elems(f) <=> i \in T
  <2> TAKE i \in Nat
  <2>1. ChunkOf(i) \in Nat /\ BitOf(i) \in Bit /\ i = W * ChunkOf(i) + BitOf(i) BY DivMod
  <2>2. i \in Elems(f) <=> ChunkOf(i) < N /\ BitOf(i) \in f[ChunkOf(i) + 1] BY <1>3, InElems
  <2>3. ASSUME ChunkOf(i) < N PROVE BitOf(i) \in f[ChunkOf(i) + 1] <=> i \in T
    <3>1. ChunkOf(i) + 1 \in 1 .. N /\ (ChunkOf(i) + 1) - 1 = ChunkOf(i) BY <1>1, <2>1, <2>3
    <3> QED BY <2>1, <3>1
  <2> QED BY <2>2, <2>3
<1> QED BY <1>3, <1>4, ElemsAreNat

LEMMA FireStep ==
    ASSUME GoodLayout, FullLength, NEW r \in RuleId, Fire(r)
    PROVE  FullLength' /\ Sets!Fire(r)
<1> DEFINE ready == Elems(ready_bits)
           full == Elems(memory_bits)
           V == vals_chunks(r)
           M == mask_chunks(r)
           R == ready_chunks(r)
<1>1. /\ R \in Bits /\ Len(R) = N /\ Elems(R) = guard_ready(r)
      /\ V \in Bits /\ Len(V) = N /\ Elems(V) = assign_vals(r)
      /\ M \in Bits /\ Len(M) = N /\ Elems(M) = assign_mask(r)
  BY RuleChunks
<1>2. N \in Nat BY Largest
<1>3. \A c \in 1 .. N, k \in Bit :
        /\ k \in R[c] <=> W * (c - 1) + k \in guard_ready(r)
        /\ k \in V[c] <=> W * (c - 1) + k \in assign_vals(r)
        /\ k \in M[c] <=> W * (c - 1) + k \in assign_mask(r)
        /\ k \in ready_bits[c] <=> W * (c - 1) + k \in ready
        /\ k \in memory_bits[c] <=> W * (c - 1) + k \in full
  BY <1>1, ChunkContents DEF FullLength
<1>4. \A c \in 1 .. N : /\ R[c] \subseteq Bit /\ V[c] \subseteq Bit /\ M[c] \subseteq Bit
                        /\ ready_bits[c] \subseteq Bit /\ memory_bits[c] \subseteq Bit
  BY <1>1 DEF FullLength, Bits, Chunk
<1>5. DOMAIN ready_bits = 1 .. N /\ DOMAIN memory_bits = 1 .. N
  BY DEF FullLength, Bits
<1>6. \A i \in ready \cup full : i \in Nat /\ ChunkOf(i) < N
  BY ElemsAreNat, InElems DEF FullLength
<1>7. \A i \in assign_vals(r) \cup assign_mask(r) : i \in Nat /\ ChunkOf(i) < N
  BY RuleParts, Largest
<1>8. Shortest({V, M}) = N BY <1>1, ShortestIsN
<1>9. memory_bits' = [c \in 1 .. N |-> (memory_bits[c] \cup V[c] \cup M[c]) \ (M[c] \ V[c])]
  <2>1. \A c \in 1 .. N : c <= N BY <1>2
  <2> QED BY <1>5, <1>8, <2>1 DEF Fire, assign_memory_bits
<1>10. ready_bits' = [c \in 1 .. N |-> ready_bits[c] \ R[c]]
  <2>1. \A c \in 1 .. N : c <= N BY <1>2
  <2> QED BY <1>1, <1>5, <2>1 DEF Fire, subtract_readiness
<1> HIDE DEF V, M, R
<1>11. /\ memory_bits' \in Bits /\ Len(memory_bits') = N
       /\ Elems(memory_bits') =
                (full \cup assign_vals(r)) \ (assign_mask(r) \ assign_vals(r))
  <2> DEFINE T == (full \cup assign_vals(r)) \ (assign_mask(r) \ assign_vals(r))
  <2>1. \A i \in T : i \in Nat /\ ChunkOf(i) < N BY <1>6, <1>7
  <2>2. \A c \in 1 .. N, k \in Bit : k \in (memory_bits')[c] <=> W * (c - 1) + k \in T
    <3> TAKE c \in 1 .. N, k \in Bit
    <3>1. (memory_bits')[c] = (memory_bits[c] \cup V[c] \cup M[c]) \ (M[c] \ V[c]) BY <1>9
    <3> QED BY <1>3, <3>1
  <2>3. \A c \in 1 .. N : (memory_bits')[c] \subseteq Bit BY <1>4, <1>9
  <2>4. memory_bits' = [c \in 1 .. N |-> (memory_bits')[c]] BY <1>9
  <2> HIDE DEF T
  <2>5. memory_bits' \in Bits /\ Len(memory_bits') = N /\ Elems(memory_bits') = T
    BY <2>1, <2>2, <2>3, <2>4, Chunkwise DEF FullLength
  <2> QED BY <2>5 DEF T
<1>12. /\ ready_bits' \in Bits /\ Len(ready_bits') = N
       /\ Elems(ready_bits') = ready \ guard_ready(r)
  <2> DEFINE T == ready \ guard_ready(r)
  <2>1. \A i \in T : i \in Nat /\ ChunkOf(i) < N BY <1>6
  <2>2. \A c \in 1 .. N, k \in Bit : k \in (ready_bits')[c] <=> W * (c - 1) + k \in T
    BY <1>3, <1>10
  <2>3. \A c \in 1 .. N : (ready_bits')[c] \subseteq Bit BY <1>4, <1>10
  <2>4. ready_bits' = [c \in 1 .. N |-> (ready_bits')[c]] BY <1>10
  <2> HIDE DEF T
  <2>5. ready_bits' \in Bits /\ Len(ready_bits') = N /\ Elems(ready_bits') = T
    BY <2>1, <2>2, <2>3, <2>4, Chunkwise DEF FullLength
  <2> QED BY <2>5 DEF T
<1>13. Sets!is_ready(r) BY SameGuard DEF Fire
<1>14. FullLength' BY <1>11, <1>12 DEF FullLength, Bits
<1> QED BY <1>11, <1>12, <1>13, <1>14, SameRule DEF Sets!Fire

LEMMA StepKeeps ==
    ASSUME GoodLayout, FullLength, [Next]_vars
    PROVE  FullLength' /\ [Sets!Next]_(Sets!vars)
<1>1. CASE UNCHANGED vars
  <2>1. FullLength' BY <1>1 DEF FullLength, Bits, vars
  <2>2. UNCHANGED Sets!vars BY <1>1 DEF vars, Sets!vars
  <2> QED BY <2>1, <2>2
<1>2. ASSUME NEW x \in Loc, Arrive(x) PROVE FullLength' /\ Sets!Arrive(x)
  <2>1. /\ ready_bits' \in Bits /\ Len(ready_bits') = N
        /\ Elems(ready_bits') = Elems(ready_bits) \cup {x}
    BY <1>2, SetTo DEF Arrive, FullLength
  <2>2. memory_bits' = memory_bits BY <1>2 DEF Arrive
  <2> QED BY <2>1, <2>2 DEF FullLength, Bits, Sets!Arrive
<1>3. ASSUME NEW t \in Port, Leave(t) PROVE FullLength' /\ Sets!Leave(t)
  <2>1. t \in Loc BY DEF Port, Loc
  <2>2. /\ ready_bits' \in Bits /\ Len(ready_bits') = N
        /\ Elems(ready_bits') = Elems(ready_bits) \ {t}
    BY <1>3, <2>1, SetTo DEF Leave, FullLength
  <2>3. memory_bits' = memory_bits BY <1>3 DEF Leave
  <2> QED BY <2>2, <2>3 DEF FullLength, Bits, Sets!Leave
<1>4. ASSUME NEW r \in RuleId, Fire(r) PROVE FullLength' /\ Sets!Fire(r)
  BY <1>4, FireStep
<1>5. ASSUME Next PROVE FullLength' /\ Sets!Next
  BY <1>2, <1>3, <1>4, <1>5 DEF Next, Sets!Next, Sets!Loc, Sets!Port, Sets!RuleId, Loc, Port, RuleId
<1> QED BY <1>1, <1>5

-----------------------------------------------------------------------------
(***************************************************************************)
(* is_ready never overlooks a chunk: in every reachable state its answer   *)
(* on bitsets is that on sets.                                             *)
(***************************************************************************)
THEOREM GuardsAreExact ==
    ASSUME GoodLayout
    PROVE  Spec => []GuardExact
<1>1. Init => FullLength BY InitStep
<1>2. FullLength /\ [Next]_vars => FullLength' BY StepKeeps
<1>3. FullLength => GuardExact BY SameGuard DEF GuardExact
<1> QED BY <1>1, <1>2, <1>3, PTL DEF Spec

(***************************************************************************)
(* The bitsets implement the sets, step by step.                           *)
(***************************************************************************)
THEOREM ChunksImplementSets ==
    ASSUME GoodLayout
    PROVE  Spec => ImplementsSets
<1>1. Init => FullLength /\ Sets!Init BY InitStep
<1>2. FullLength /\ [Next]_vars => FullLength' /\ [Sets!Next]_(Sets!vars) BY StepKeeps
<1> QED BY <1>1, <1>2, PTL DEF Spec, ImplementsSets, Sets!Spec

-----------------------------------------------------------------------------
(* Storage *)


TypeOK ==
    /\ heap \in [StorePtr -> Layout \cup {None}] /\ owned \in [StorePtr -> TypeId \cup {None}]
    /\ free \in [Layout -> SUBSET StorePtr] /\ prepared \subseteq Layout
    /\ type_info \subseteq TypeId /\ live \subseteq StorePtr
    /\ shrunk \in BOOLEAN /\ broken \in BOOLEAN /\ fault \in BOOLEAN

\* an address on a free list is on that of its layout; this is what lets an
\* address be found by layout and given back with the right one
WellFiled == \A l \in Layout : \A p \in free[l] : heap[p] = l

\* the inductive invariant
Sound == TypeOK /\ (~shrunk => WellFiled) /\ StorageSound

USE DEF StorageSound, Accounted, FreePtrs

LEMMA InitSound == ASSUME StorageInit PROVE Sound
  BY StorageAssumption DEF StorageInit, Sound, TypeOK, WellFiled

\* an address that alloc can give out is in use for nothing
LEMMA AllocFresh ==
    ASSUME Sound, ~shrunk, NEW t \in TypeId, NEW p \in StorePtr, Alloc(t, p)
    PROVE  owned[p] = None /\ p \notin live
  BY StorageAssumption DEF Sound, TypeOK, WellFiled, Alloc

\* what alloc leaves behind, whether a value is put there or not
LEMMA AllocAccounts ==
    ASSUME Sound, NEW t \in TypeId, NEW p \in StorePtr, Alloc(t, p),
           live' \in {live, live \cup {p}}, broken' \in BOOLEAN
    PROVE  /\ TypeOK' /\ (~shrunk' => WellFiled' /\ Accounted')
           /\ ~shrunk => fault' = fault /\ owned' = [owned EXCEPT ![p] = t]
  <1> DEFINE l == LayoutOf[t]
  <1>1. l \in Layout /\ l # None /\ t # None
    BY StorageAssumption
  <1>2. TypeOK'
    BY <1>1 DEF Sound, TypeOK, Alloc
  <1>3. SUFFICES ASSUME ~shrunk
                 PROVE  WellFiled' /\ Accounted' /\ fault' = fault
    BY <1>2 DEF Alloc
  <1>4. owned[p] = None /\ p \notin live
    BY <1>3, AllocFresh
  <1>5. heap' = [heap EXCEPT ![p] = l] /\ heap'[p] = l
    BY <1>1, <1>3 DEF Sound, TypeOK, WellFiled, Alloc
  <1>6. free' = [free EXCEPT ![l] = @ \ {p}]
    BY <1>1, <1>3 DEF Sound, TypeOK, WellFiled, Alloc
  <1>7. \A q \in StorePtr : q \in FreePtrs' <=> q \in FreePtrs /\ q # p
    <2>1. \A m \in Layout : m # l => p \notin free[m]
      BY <1>1, <1>3, StorageAssumption DEF Sound, TypeOK, WellFiled, Alloc
    <2>2. \A m \in Layout : free'[m] = free[m] \ {p}
      BY <1>6, <2>1 DEF Sound, TypeOK
    <2> QED BY <2>2
  <1>8. WellFiled'
    <2> SUFFICES ASSUME NEW m \in Layout, NEW q \in free'[m] PROVE heap'[q] = m
      BY DEF WellFiled
    <2>1. q \in free[m] /\ q \in StorePtr
      BY <1>1, <1>6 DEF Sound, TypeOK
    <2>2. heap[q] = m
      BY <1>3, <2>1 DEF Sound, WellFiled
    <2>3. q # p
      BY <1>7, <2>1
    <2> QED BY <1>5, <2>1, <2>2, <2>3 DEF Sound, TypeOK
  <1>9. ASSUME NEW q \in StorePtr
        PROVE  /\ heap'[q] # None <=> owned'[q] # None \/ q \in FreePtrs'
               /\ owned'[q] # None => /\ q \notin FreePtrs'
                                      /\ heap'[q] = LayoutOf[owned'[q]]
                                      /\ owned'[q] \in type_info'
                                      /\ LayoutOf[owned'[q]] \in prepared'
               /\ q \in live' => owned'[q] # None
    <2>1. CASE q = p
      BY <1>1, <1>5, <1>7, <2>1 DEF Sound, TypeOK, Alloc
    <2>2. CASE q # p
      BY <1>3, <1>5, <1>7, <2>2 DEF Sound, TypeOK, Alloc
    <2> QED BY <2>1, <2>2
  <1>10. fault' = fault
    BY <1>4 DEF Sound, TypeOK, Alloc
  <1> QED BY <1>8, <1>9, <1>10

LEMMA MoveInSound ==
    ASSUME Sound, NEW t \in TypeId, NEW p \in StorePtr, MoveIn(t, p)
    PROVE  Sound'
  <1>1. Alloc(t, p) /\ live' = live \cup {p} /\ broken' = broken
    BY DEF MoveIn
  <1>2. /\ TypeOK' /\ (~shrunk' => WellFiled' /\ Accounted')
        /\ ~shrunk => fault' = fault /\ owned' = [owned EXCEPT ![p] = t]
    BY <1>1, AllocAccounts DEF Sound, TypeOK
  <1>3. shrunk' = shrunk /\ t # None
    BY <1>1, StorageAssumption DEF Alloc
  <1>4. ~shrunk /\ ~broken => live' = {q \in StorePtr : owned'[q] # None}
    BY <1>1, <1>2, <1>3 DEF Sound, TypeOK
  <1> QED BY <1>1, <1>2, <1>3, <1>4 DEF Sound

LEMMA CloneInSound ==
    ASSUME Sound, NEW t \in TypeId, NEW p \in StorePtr, CloneIn(t, p)
    PROVE  Sound'
  <1>1. CASE t \in Clonable
    BY <1>1, MoveInSound DEF CloneIn, MoveIn, Sound, TypeOK
  <1>2. CASE t \notin Clonable
    <2>1. Alloc(t, p) /\ live' = live /\ broken'
      BY <1>2 DEF CloneIn
    <2>2. TypeOK' /\ (~shrunk' => WellFiled' /\ Accounted')
      BY <2>1, AllocAccounts DEF CloneIn, Sound, TypeOK
    <2> QED BY <2>1, <2>2 DEF Sound
  <1> QED BY <1>1, <1>2

LEMMA InnerFreeSound ==
    ASSUME Sound, NEW p \in StorePtr, InnerFree(p)
    PROVE  Sound'
  <1> DEFINE l == LayoutOf[owned[p]]
  <1>1. l \in Layout /\ owned[p] \in TypeId
    BY StorageAssumption DEF Sound, TypeOK, InnerFree
  <1>2. TypeOK'
    <2>1. free' \in [Layout -> SUBSET StorePtr] /\ fault' \in BOOLEAN
      <3>1. CASE l \in prepared
        BY <1>1, <3>1 DEF Sound, TypeOK, InnerFree
      <3>2. CASE l \notin prepared
        BY <3>2 DEF Sound, TypeOK, InnerFree
      <3> QED BY <3>1, <3>2
    <2>2. owned' \in [StorePtr -> TypeId \cup {None}] /\ live' \subseteq StorePtr
      BY DEF Sound, TypeOK, InnerFree
    <2> QED BY <2>1, <2>2 DEF Sound, TypeOK, InnerFree
  <1>3. SUFFICES ASSUME ~shrunk
                 PROVE  WellFiled' /\ StorageSound'
    BY <1>2 DEF Sound, InnerFree
  <1>4. heap[p] = l /\ l \in prepared /\ heap[p] # None
    BY <1>1, <1>3 DEF Sound, InnerFree
  <1>5. free' = [free EXCEPT ![l] = @ \cup {p}] /\ fault' = fault
    BY <1>4 DEF InnerFree
  <1>6. \A q \in StorePtr : q \in FreePtrs' <=> q \in FreePtrs \/ q = p
    BY <1>1, <1>5 DEF Sound, TypeOK
  <1>7. WellFiled'
    BY <1>1, <1>3, <1>4, <1>5 DEF Sound, TypeOK, WellFiled, InnerFree
  <1>8. Accounted'
    BY <1>3, <1>4, <1>6 DEF Sound, TypeOK, InnerFree
  <1>9. ~broken => ~fault' /\ live' = {q \in StorePtr : owned'[q] # None}
    BY <1>3, <1>5 DEF Sound, TypeOK, InnerFree
  <1> QED BY <1>7, <1>8, <1>9 DEF InnerFree

LEMMA ShrinkToFitSound == ASSUME Sound, ShrinkToFit PROVE Sound'
  <1>1. TypeOK'
    BY DEF Sound, TypeOK, ShrinkToFit
  <1>2. SUFFICES ASSUME ~shrunk, \A p \in StorePtr : owned[p] = None
                 PROVE  WellFiled' /\ StorageSound'
    BY <1>1 DEF Sound, TypeOK, ShrinkToFit
  <1>3. FreePtrs' = {}
    BY DEF ShrinkToFit
  <1>4. WellFiled'
    BY DEF WellFiled, ShrinkToFit
  <1>5. \A p \in StorePtr : heap'[p] = None
    BY <1>2 DEF Sound, TypeOK, ShrinkToFit
  <1>6. fault' = fault
    BY <1>2 DEF Sound, TypeOK, WellFiled, Misfiled, ShrinkToFit
  <1> QED BY <1>2, <1>3, <1>4, <1>5, <1>6 DEF Sound, ShrinkToFit

LEMMA DropStorageSound == ASSUME Sound, DropStorage PROVE Sound'
  <1>1. TypeOK'
    BY DEF Sound, TypeOK, DropStorage
  <1>2. SUFFICES ASSUME ~shrunk
                 PROVE  WellFiled' /\ StorageSound'
    BY <1>1 DEF Sound, DropStorage
  <1>3. FreePtrs' = {} /\ WellFiled'
    BY DEF WellFiled, DropStorage
  <1>4. \A p \in StorePtr : heap'[p] = None /\ owned'[p] = None
    BY <1>2 DEF Sound, TypeOK, DropStorage
  <1>5. live' = {}
    BY <1>2 DEF Sound, TypeOK, DropStorage
  <1>6. ~broken => fault' = fault
    BY <1>2 DEF Sound, TypeOK, WellFiled, Misfiled, DropStorage
  <1> QED BY <1>2, <1>3, <1>4, <1>5, <1>6 DEF Sound, DropStorage

(***************************************************************************)
(* For any addresses, types and layouts, memory.rs loses no address, uses  *)
(* none for two values, gives none back with a wrong layout and drops only *)
(* values, with the exceptions StorageSound names: no free list can hand   *)
(* out an address that is in use.                                          *)
(***************************************************************************)
THEOREM StorageIsSound == StorageSpec => []StorageSound
  <1>1. StorageInit => Sound
    BY InitSound
  <1>2. Sound /\ [StorageNext]_storageVars => Sound'
    <2> SUFFICES ASSUME Sound, [StorageNext]_storageVars PROVE Sound'
      OBVIOUS
    <2>1. ASSUME NEW t \in TypeId, NEW p \in StorePtr, MoveIn(t, p) PROVE Sound'
      BY <2>1, MoveInSound
    <2>2. ASSUME NEW t \in TypeId, NEW p \in StorePtr, CloneIn(t, p) PROVE Sound'
      BY <2>2, CloneInSound
    <2>3. ASSUME NEW p \in StorePtr, MoveOut(p) \/ ForgetInside(p) \/ DropInside(p) PROVE Sound'
      BY <2>3, InnerFreeSound DEF MoveOut, ForgetInside, DropInside
    <2>4. CASE ShrinkToFit
      BY <2>4, ShrinkToFitSound
    <2>5. CASE DropStorage
      BY <2>5, DropStorageSound
    <2>6. CASE UNCHANGED storageVars
      BY <2>6 DEF Sound, TypeOK, WellFiled, storageVars
    <2> QED BY <2>1, <2>2, <2>3, <2>4, <2>5, <2>6 DEF StorageNext
  <1>3. Sound => StorageSound
    BY DEF Sound
  <1> QED BY <1>1, <1>2, <1>3, PTL DEF StorageSpec
=============================================================================
