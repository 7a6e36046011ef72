----------------------------- MODULE Connector -----------------------------
(***************************************************************************)
(* What a connector promises to the threads at its ports, whatever the     *)
(* machinery behind it: offers and wants wait at the ports, and a firing   *)
(* is one indivisible step that hands every putter's value to all the      *)
(* getters its rule pairs it with.                                         *)
(***************************************************************************)
EXTENDS ProtoDef

CONSTANTS Data, None

VARIABLES
    offer,   \* the value each putter offers, or None
    want,    \* what each getter waits for: "data", "signal" or "none"
    mem,     \* the value each memory cell holds, or None
    given    \* the value handed to each getter and not yet collected

vars == <<offer, want, mem, given>>

Init ==
    /\ offer = [p \in PoPu |-> None]
    /\ want = [g \in PoGe |-> "none"]
    /\ mem = [m \in Memo |-> None]
    /\ given = [g \in PoGe |-> None]

Offer(p) ==
    /\ offer[p] = None
    /\ \E v \in Data : offer' = [offer EXCEPT ![p] = v]
    /\ UNCHANGED <<want, mem, given>>

Withdraw(p) ==
    /\ offer[p] # None
    /\ offer' = [offer EXCEPT ![p] = None]
    /\ UNCHANGED <<want, mem, given>>

Want(g) ==
    /\ want[g] = "none" /\ given[g] = None
    /\ \E w \in {"data", "signal"} : want' = [want EXCEPT ![g] = w]
    /\ UNCHANGED <<offer, mem, given>>

Unwant(g) ==
    /\ want[g] # "none"
    /\ want' = [want EXCEPT ![g] = "none"]
    /\ UNCHANGED <<offer, mem, given>>

Collect(g) ==
    /\ given[g] # None
    /\ given' = [given EXCEPT ![g] = None]
    /\ UNCHANGED <<offer, want, mem>>

Value(s) == IF s \in PoPu THEN offer[s] ELSE mem[s]

Holds(x) == CASE x.op = "MemIsNull" -> mem[x.loc] = None
              [] x.op = "ValueEq"   -> Value(x.a) = Value(x.b)

\* And is negated in the code that evaluates guards, so it is here.
Passes(f) == CASE f.op = "True" -> TRUE
               [] f.op = "None" -> ~\E x \in f.atoms : Holds(x)
               [] f.op = "And"  -> ~\A x \in f.atoms : Holds(x)
               [] f.op = "Or"   -> \E x \in f.atoms : Holds(x)

Firable(r) ==
    /\ \A a \in Actions(r) :
        /\ Value(a.putter) # None
        /\ \A g \in pg(a) : want[g] # "none"
        /\ \A m \in mg(a) \ {a.putter} : mem[m] = None
    /\ Passes(Rules[r].guard)

\* the value that rule r hands to getter x
Supply(r, x) == Value((CHOOSE a \in Actions(r) : x \in a.getters).putter)

Fire(r) ==
    /\ Firable(r)
    /\ offer' = [p \in PoPu |-> IF p \in guard_ready(r) THEN None ELSE offer[p]]
    /\ want' = [g \in PoGe |-> IF g \in guard_ready(r) THEN "none" ELSE want[g]]
    /\ mem' = [m \in Memo |-> IF m \in assign_vals(r) THEN Supply(r, m)
                              ELSE IF m \in assign_mask(r) THEN None ELSE mem[m]]
    /\ given' = [g \in PoGe |-> IF g \in guard_ready(r) /\ want[g] = "data"
                                THEN Supply(r, g) ELSE given[g]]

Firing == \E r \in RuleId : Fire(r)

Next ==
    \/ \E p \in PoPu : Offer(p) \/ Withdraw(p)
    \/ \E g \in PoGe : Want(g) \/ Unwant(g) \/ Collect(g)
    \/ Firing

Spec == Init /\ [][Next]_vars

\* A connector in which some rule can fire does not stay put.
FairSpec == Spec /\ WF_vars(Firing)
=============================================================================
