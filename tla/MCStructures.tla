---------------------------- MODULE MCStructures ----------------------------
(***************************************************************************)
(* The parts around the coordinator, one in each behaviour: the chunks of  *)
(* readiness and memory bits, the operations of BitSet on two bitsets of   *)
(* any history, the storage of memory values, guards, and the builder with *)
(* those who claim the ports of what it builds.                            *)
(***************************************************************************)
EXTENDS MCBits, MCClaims, Storage

VARIABLES structure, a, b,
          guard, func_defs, phase, content, answer

bitVars == <<ready_bits, memory_bits>>
opVars == <<a, b>>
guardVars == <<guard, func_defs, phase, content, answer>>

Bitset == INSTANCE BitOps WITH MaxChunks <- 3

\* two types of one layout, one of which cannot be cloned, and one of another
Layouts == [word |-> "small", handle |-> "small", block |-> "large"]

\* guards of a rule with putters 0, 1 and 5, over cell 3, which it does not
\* touch, and getter 4
Joined(op, args) == [op |-> op, args |-> args, terms |-> <<>>]
OnTerms(op, terms) == [op |-> op, args |-> <<>>, terms |-> terms]
Value(l) == [of |-> "Value", loc |-> l]
Whether(f) == [of |-> "Boolean", formula |-> f]
Null == [op |-> "MemIsNull", args |-> <<>>, terms |-> <<>>, loc |-> 3]
Called(name) == [op |-> "Func", args |-> <<>>, terms |-> <<>>, name |-> name]
Equal == OnTerms("ValueEq", <<Value(0), Value(3)>>)
Atoms == {Null, Equal, OnTerms("TermVal", <<Value(1)>>), Called("f"),
          OnTerms("ValueEq", <<Value(1), Whether(Equal)>>),
          OnTerms("ValueEq", <<Whether(Null), Whether(OnTerms("TermVal", <<Value(1)>>))>>)}
Wrong == {Joined("True", <<>>), Called("g"), OnTerms("ValueEq", <<Value(0), Value(1)>>),
          OnTerms("ValueEq", <<Value(0), Value(4)>>), OnTerms("ValueEq", <<Value(5), Value(5)>>),
          OnTerms("ValueEq", <<Whether(Null), Value(1)>>), OnTerms("TermVal", <<Whether(Called("f"))>>)}
Ops == {"And", "Or", "None"}
Flat == {Joined(op, s) : op \in Ops, s \in {<<x>> : x \in Atoms} \cup {<<x, y>> : x \in Atoms, y \in Atoms}}
Nested == {Joined(op, <<Joined(below, <<x>>), y>>) : op \in Ops, below \in Ops, x \in Atoms, y \in Atoms}
          \cup {Joined("Or", <<Null, y>>) : y \in Flat}

Guard == INSTANCE Formulas WITH stage <- phase,
            Space <- {0, 1, 3, 5}, Memo <- {3}, Needed <- {0, 1, 5},
            TypeOf <- 0 :> "word" @@ 1 :> "bool" @@ 3 :> "word" @@ 4 :> "word" @@ 5 :> "opaque",
            Data <- [word |-> {"x", "y"}, bool |-> {"T", "F"}, opaque |-> {"x"}],
            Comparable <- {"word", "bool"},
            Promised <- {"f"}, Guards <- Atoms \cup Wrong \cup Flat \cup Nested

\* what is not looked at stands still, a definition and a guard among it
StructuresInit ==
    /\ structure \in {"bits", "operations", "storage", "guard", "claims"}
    /\ Init /\ Bitset!Init /\ StorageInit /\ Guard!Init /\ ClaimsInit
    /\ structure # "guard" => guard = Null
    /\ structure # "claims" => def = Sync

StructuresNext ==
    \/ structure = "bits" /\ Next
       /\ UNCHANGED <<structure, opVars, storageVars, guardVars, claimsVars>>
    \/ structure = "operations" /\ Bitset!Next
       /\ UNCHANGED <<structure, bitVars, storageVars, guardVars, claimsVars>>
    \/ structure = "storage" /\ StorageNext
       /\ UNCHANGED <<structure, bitVars, opVars, guardVars, claimsVars>>
    \/ structure = "guard" /\ Guard!Next
       /\ UNCHANGED <<structure, bitVars, opVars, storageVars, claimsVars>>
    \/ structure = "claims" /\ ClaimsNext
       /\ UNCHANGED <<structure, bitVars, opVars, storageVars, guardVars>>

StructuresSpec ==
    StructuresInit
    /\ [][StructuresNext]_<<structure, bitVars, opVars, storageVars, guardVars, claimsVars>>

(***************************************************************************)
(* The operations of BitSet are right on bitsets of any two lengths, as    *)
(* far as BitOps says.                                                     *)
(***************************************************************************)
OperationsExact == Bitset!OperationsExact

(***************************************************************************)
(* Well-formed guards answer, and what they mean: Formulas.                *)
(***************************************************************************)
GuardsAnswer == Guard!GuardsAnswer
=============================================================================
