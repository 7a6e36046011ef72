----------------------------- MODULE StepSets -----------------------------
(***************************************************************************)
(* What rules do, as sets of steps: a step is a triple of a state, the     *)
(* port that fires, None if the step is silent, and the state it leads to. *)
(***************************************************************************)
EXTENDS Naturals, FiniteSets, Sequences

CONSTANT None

\* the states silent steps lead to: they are in every set that has s and that
\* no silent step leaves
SilentlyFrom(s, steps) ==
    LET ends   == {s} \cup {x[3] : x \in steps}
        closed == {S \in SUBSET ends : s \in S /\ \A x \in steps : x[2] = None /\ x[1] \in S => x[3] \in S}
    IN  {t \in ends : \A S \in closed : t \in S}

\* port steps that may be preceded by silent ones
PortSteps(steps) ==
    LET fires == {x \in steps : x[2] # None} IN
    UNION {LET S == SilentlyFrom(s, steps) IN {<<s, x[2], x[3]>> : x \in {y \in fires : y[1] \in S}}
             : s \in {x[1] : x \in steps}}

SilentlyAcyclic(steps) == \A x \in steps : x[2] = None => x[1] \notin SilentlyFrom(x[3], steps)

\* steps of A followed by steps of B, as one step
Sequenced(A, B) == UNION {{<<a[1], b[2], b[3]>> : b \in {c \in B : c[1] = a[3]}} : a \in A}

\* the elements of rs at the indices in kept, in their order
Place(kept, i) == Cardinality({j \in kept : j <= i})
Select(rs, kept) == [n \in 1 .. Cardinality(kept) |-> rs[CHOOSE i \in kept : Place(kept, i) = n]]
=============================================================================
