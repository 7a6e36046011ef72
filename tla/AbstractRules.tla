--------------------------- MODULE AbstractRules ---------------------------
(***************************************************************************)
(* graveyard6/rbpa.rs, the version of Rbpa before it: guards and           *)
(* assignments are predicates over all memory variables with a third       *)
(* value X, rules are merged after each removal, and variables no guard    *)
(* looks at are masked.  The ids of the rules a rule was made from are     *)
(* left out.                                                               *)
(***************************************************************************)
EXTENDS StepSets

CONSTANTS Var,        \* indices of memory variables, 0 .. StateSet::LEN - 1
          Automata,   \* rule sequences to project
          AtomicPorts \* the atomic_ports arguments

VARIABLES original,   \* the automaton, ports that are not atomic hidden
          linear,     \* whether silent steps of it never return to a state
          rba,        \* its rules
          relevant,   \* the mask: variables that matter
          stage,      \* where normalize is
          changed,    \* what the running merge_rules will return
          faithful    \* history: try_merge has been faithful so far

abstractVars == <<original, linear, rba, relevant, stage, changed, faithful>>

-----------------------------------------------------------------------------
(* Predicates: functions from Var to "T", "F" or "X" (unspecified) *)

Generic(v) == v = "X"
mismatches(v, w) == v # w /\ ~Generic(v) /\ ~Generic(w)

\* the order of specificity
Below(P, Q) == \A i \in Var : P[i] = Q[i] \/ Generic(P[i])
partial_cmp(P, Q) == CASE P = Q      -> "Equal"
                       [] P # Q /\ Below(P, Q) -> "Less"
                       [] P # Q /\ Below(Q, P) -> "Greater"
                       [] OTHER      -> None

Clash(P, Q) == \E i \in Var : mismatches(P[i], Q[i])

\* Q where P leaves a variable unspecified
make_specific_wrt(P, Q) == [i \in Var |-> IF Generic(P[i]) THEN Q[i] ELSE P[i]]

MkRule(guard, port, assign) ==
    [guard |-> guard, port |-> port, assign |-> make_specific_wrt(assign, guard)]

-----------------------------------------------------------------------------
(* Rules *)

apply(r, P) == IF Clash(r.guard, P) THEN None
               ELSE make_specific_wrt(r.assign, make_specific_wrt(r.guard, P))

is_silent(r) == r.port = None

no_effect(r) == /\ is_silent(r)
                /\ ~Clash(r.guard, r.assign)
                /\ Below(r.assign, r.guard)

\* the first rule's output must not contradict the second one's input, and a
\* rule fires at most one port
can_precede(r1, r2) == ~Clash(r1.assign, r2.guard) /\ (is_silent(r1) \/ is_silent(r2))

\* Mutant: the second rule's requirements are forgotten.
ComposedUnguarded(r1, r2) ==
    IF ~can_precede(r1, r2) THEN None
    ELSE MkRule(r1.guard, r2.port, make_specific_wrt(r2.assign, r1.assign))

composed(r1, r2) ==
    IF ~can_precede(r1, r2) THEN None
    ELSE MkRule([i \in Var |-> IF Generic(r1.guard[i]) /\ Generic(r1.assign[i]) THEN r2.guard[i]
                               ELSE r1.guard[i]],
                IF is_silent(r1) THEN r2.port ELSE r1.port,
                [i \in Var |-> IF ~Generic(r2.guard[i]) \/ ~Generic(r2.assign[i]) THEN r2.assign[i]
                               ELSE IF Generic(r1.assign[i]) THEN r1.guard[i] ELSE r1.assign[i]])

\* One rule for two, None if there is none.  The ports are not looked at.
try_merge(r1, r2) ==
    LET g == partial_cmp(r1.guard, r2.guard)
        a == partial_cmp(r1.assign, r2.assign)
        differ == {i \in Var : r1.guard[i] # r2.guard[i]}
    IN  CASE g # None /\ a # None /\ a \in {"Equal", g} /\ g # "Greater" -> r1
          [] g = "Greater" /\ a \in {"Equal", g} -> r2
          [] g = None /\ a = "Equal" /\ Cardinality(differ) = 1 ->
                MkRule([i \in Var |-> IF i \in differ THEN "X" ELSE r1.guard[i]], r1.port, r1.assign)
          [] OTHER -> None

-----------------------------------------------------------------------------
Pred == [Var -> {"T", "F", "X"}]

Rule == [guard : Pred, assign : Pred,
         port : {None} \cup UNION {{rs[i].port : i \in DOMAIN rs} : rs \in Automata}]

\* rules are made by MkRule, so that what they require they also assign
WellFormed ==
    /\ Automata \subseteq Seq(Rule)
    /\ \A rs \in Automata : \A i \in DOMAIN rs :
          make_specific_wrt(rs[i].assign, rs[i].guard) = rs[i].assign
    /\ None \notin Pred /\ None \notin Rule

-----------------------------------------------------------------------------
(* The meaning of rules: steps between states, seen through the mask *)

mask(P, vs) == [i \in Var |-> IF i \in vs THEN P[i] ELSE "X"]
Concrete == [Var -> {"T", "F"}]

RuleSteps(r, vs) == {<<P, r.port, apply(r, P)>> :
                       P \in {Q \in {mask(Q, vs) : Q \in Concrete} : apply(r, Q) # None}}
StepsOfAll(rs, vs) == UNION {RuleSteps(rs[i], vs) : i \in DOMAIN rs}

AtomicSteps(rs, vs) == PortSteps(StepsOfAll(rs, vs))

-----------------------------------------------------------------------------
\* project: ports that are not atomic are hidden
Hide(rs, ports) == [i \in DOMAIN rs |-> IF rs[i].port \in ports THEN rs[i]
                                        ELSE [rs[i] EXCEPT !.port = None]]

Init ==
    /\ \E rs \in Automata, ports \in AtomicPorts : original = Hide(rs, ports)
    /\ linear = SilentlyAcyclic(StepsOfAll(original, Var))
    /\ rba = original
    /\ relevant = Var
    /\ stage = "silent" /\ changed = FALSE /\ faithful = TRUE

SilentIdx == {i \in DOMAIN rba : is_silent(rba[i])}

\* A silent rule goes; unless it has no effect, what it makes of every other
\* rule is added and rules are merged.
RemoveSilentRule ==
    /\ stage = "silent" /\ SilentIdx # {}
    /\ LET idx    == CHOOSE i \in SilentIdx : \A j \in SilentIdx : i <= j
           others == Select(rba, DOMAIN rba \ {idx})
           pairs  == [i \in DOMAIN others |-> composed(rba[idx], others[i])]
       IN  IF no_effect(rba[idx])
           THEN rba' = others /\ UNCHANGED stage
           ELSE /\ rba' = others \o Select(pairs, {i \in DOMAIN pairs : pairs[i] # None})
                /\ stage' = "merge"
    /\ UNCHANGED <<original, linear, relevant, changed, faithful>>

NoSilentLeft ==
    /\ stage = "silent" /\ SilentIdx = {}
    /\ stage' = "mask"
    /\ UNCHANGED <<original, linear, rba, relevant, changed, faithful>>

Mergeable == {p \in (DOMAIN rba) \X (DOMAIN rba) :
                p[1] < p[2] /\ try_merge(rba[p[1]], rba[p[2]]) # None}

\* merge_rules: the first pair that can be merged is, and the search restarts
MergePair ==
    /\ stage \in {"merge", "final"}
    /\ LET pairs == Mergeable
           first == CHOOSE p \in pairs : \A q \in pairs :
                        p[1] < q[1] \/ (p[1] = q[1] /\ p[2] <= q[2])
           r1 == rba[first[1]]
           r2 == rba[first[2]]
           m  == try_merge(r1, r2)
       IN  /\ pairs # {}
           /\ rba' = Select([rba EXCEPT ![first[1]] = m], DOMAIN rba \ {first[2]})
           /\ faithful' = (faithful /\ RuleSteps(m, relevant)
                                         = RuleSteps(r1, relevant) \cup RuleSteps(r2, relevant))
    /\ changed' = (stage = "final")
    /\ UNCHANGED <<original, linear, relevant, stage>>

Merged ==
    /\ stage \in {"merge", "final"} /\ Mergeable = {}
    /\ stage' = IF stage = "merge" THEN "silent" ELSE IF changed THEN "mask" ELSE "done"
    /\ changed' = FALSE
    /\ UNCHANGED <<original, linear, rba, relevant, faithful>>

\* variables no guard looks at become irrelevant
mask_irrelevant_vars ==
    LET unused == {v \in relevant : \A i \in DOMAIN rba : Generic(rba[i].guard[v])} IN
    /\ stage = "mask"
    /\ relevant' = relevant \ unused
    /\ rba' = [i \in DOMAIN rba |-> [rba[i] EXCEPT !.assign = mask(@, relevant'),
                                                   !.guard = mask(@, relevant')]]
    /\ stage' = IF unused # {} THEN "mask" ELSE "final"
    /\ UNCHANGED <<original, linear, changed, faithful>>

Next == RemoveSilentRule \/ NoSilentLeft \/ MergePair \/ Merged \/ mask_irrelevant_vars

Spec == Init /\ [][Next]_abstractVars
-----------------------------------------------------------------------------
(***************************************************************************)
(* As long as merging has been faithful the projection takes exactly the   *)
(* port steps of the original, silent ones before them included, as far    *)
(* as the mask lets see: what pair_test samples, in both directions.       *)
(***************************************************************************)
SimulatesOriginal ==
    faithful => AtomicSteps(rba, relevant)
                  = {<<mask(x[1], relevant), x[2], mask(x[3], relevant)>> : x \in AtomicSteps(original, Var)}

(***************************************************************************)
(* normalize ends with no silent rule left, if no sequence of silent steps *)
(* of the hidden automaton returns to where it began.                      *)
(***************************************************************************)
Projects == linear => <>(stage = "done" /\ SilentIdx = {})
=============================================================================
