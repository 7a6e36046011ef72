---------------------------- MODULE Exploration ----------------------------
(***************************************************************************)
(* graveyard4/rba_builder.rs: before there were rules to compose, the      *)
(* states of a connector were explored one by one, where a memory variable *)
(* may be unknown.  rba_build finds the states and the branches of each,   *)
(* internal_close what is reached from a state in one or more steps.       *)
(***************************************************************************)
EXTENDS Naturals, FiniteSets

CONSTANTS Var,       \* indices of memory variables, 0 .. NUM_MEMS - 1
          Programs,  \* sets of guarded commands
          None

VARIABLES program,   \* the commands
          start,     \* the state to start from
          search,    \* "build" or "close"
          states,    \* found so far (res in internal_close)
          todo,      \* found and not yet looked at
          opts       \* the branches of the states looked at

exploreVars == <<program, start, search, states, todo, opts>>

-----------------------------------------------------------------------------
(* A state is a function from Var to "T", "F" or "?", which is not known.   *)
(* A command is a record of input, a state it looks for, involved, a port, *)
(* and output, which for each variable is "T", "F", "G" to keep it or "U"  *)
(* to make it unknown.                                                     *)

WellFormed ==
    \A p \in Programs : \A g \in p :
        g.input \in [Var -> {"T", "F", "?"}] /\ g.output \in [Var -> {"T", "F", "G", "U"}]

compatible(P, Q) == \A i \in Var : "?" \in {P[i], Q[i]} \/ P[i] = Q[i]

apply_to(output, P) == [i \in Var |-> CASE output[i] = "G" -> P[i]
                                        [] output[i] = "U" -> "?"
                                        [] OTHER           -> output[i]]

-----------------------------------------------------------------------------
Init ==
    /\ program \in Programs
    /\ start = [i \in Var |-> "F"]
    /\ search \in {"build", "close"}
    /\ states = IF search = "build" THEN {start} ELSE {}
    /\ todo = {start}
    /\ opts = {}

Applicable(P) == {g \in program : compatible(g.input, P)}
Branches(P) == {[port |-> g.involved, dest |-> apply_to(g.output, P)] : g \in Applicable(P)}
Dests(P) == {o.dest : o \in Branches(P)}

\* one turn of either loop, with the state taken from a stack or from a set
Explore ==
    \E P \in todo :
        /\ todo' = (todo \ {P}) \cup (Dests(P) \ states)
        /\ states' = states \cup Dests(P)
        /\ opts' = IF search = "build" THEN opts \cup {[state |-> P, options |-> Branches(P)]}
                   ELSE opts
        /\ UNCHANGED <<program, start, search>>

Next == Explore

-----------------------------------------------------------------------------
(* What the commands do when every variable has a value *)

Valued == [Var -> {"T", "F"}]
Covers(P, v) == \A i \in Var : P[i] \in {"?", v[i]}
Outcomes(g, v) == {w \in Valued : \A i \in Var :
                        g.output[i] \in {w[i], "U"} \/ (g.output[i] = "G" /\ w[i] = v[i])}
ValuedSteps(v) == UNION {{<<g.involved, w>> : w \in Outcomes(g, v)}
                            : g \in {h \in program : Covers(h.input, v)}}

\* values reached in one or more steps: those in every set of values that has
\* what a step from start leads to and that no step leaves
Reached ==
    LET next(v)  == {x[2] : x \in ValuedSteps(v)}
        closed   == {S \in SUBSET Valued : \A v \in S \cup {start} : next(v) \subseteq S}
    IN  {w \in Valued : \A S \in closed : w \in S}

Finished == todo = {}

(***************************************************************************)
(* What can happen is found: each step from values that are found is a     *)
(* branch of the state that covers them; and if no command forgets a       *)
(* value, nothing else is found.                                           *)
(***************************************************************************)
FoundAll ==
    Finished =>
        LET known == IF search = "build" THEN Reached \cup {start} ELSE Reached IN
        /\ \A v \in known : \E P \in states : Covers(P, v)
        /\ search = "build" =>
            /\ {o.state : o \in opts} = states
            /\ \A o \in opts, v \in Valued : Covers(o.state, v) =>
                    \A x \in ValuedSteps(v) :
                        \E br \in o.options : br.port = x[1] /\ Covers(br.dest, x[2])
        /\ (\A g \in program, i \in Var : g.output[i] # "U") => states = known

(***************************************************************************)
(* The search ends.                                                        *)
(***************************************************************************)
Terminates == <>Finished
=============================================================================
