----------------------------- MODULE Readiness -----------------------------
(***************************************************************************)
(* The bits by which the coordinator selects rules, as plain sets: which   *)
(* locations are ready and which memory cells are full.  Proto keeps       *)
(* exactly this state; BitReadiness keeps it in chunks of machine words.   *)
(***************************************************************************)
EXTENDS ProtoDef

VARIABLES
    ready,   \* ProtoActive.ready
    full     \* ProtoW.memory_bits

vars == <<ready, full>>

Init == ready = Memo /\ full = {}

is_ready(r) ==
    /\ guard_ready(r) \subseteq ready
    /\ guard_full(r) \subseteq full
    /\ (guard_ready(r) \cap full) \subseteq guard_full(r)

\* a port enters, or a firing or a finalizer is done with a memory cell
Arrive(x) ==
    /\ ready' = ready \cup {x}
    /\ UNCHANGED full

\* a call times out
Leave(t) ==
    /\ ready' = ready \ {t}
    /\ UNCHANGED full

Fire(r) ==
    /\ is_ready(r)
    /\ full' = (full \cup assign_vals(r)) \ (assign_mask(r) \ assign_vals(r))
    /\ ready' = ready \ guard_ready(r)

Next ==
    \/ \E x \in Loc : Arrive(x)
    \/ \E t \in Port : Leave(t)
    \/ \E r \in RuleId : Fire(r)

Spec == Init /\ [][Next]_vars
=============================================================================
