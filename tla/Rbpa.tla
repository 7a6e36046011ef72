-------------------------------- MODULE Rbpa --------------------------------
(***************************************************************************)
(* src/src/rbpa.rs: a protocol definition as a rule-based port automaton,  *)
(* and the normalization that removes the rules that involve none of the   *)
(* ports one is interested in.                                             *)
(*                                                                         *)
(* A rule is a record: port, the port it fires or None; guard and assign,  *)
(* partial functions from memory cells to BOOLEAN (full or not).  One      *)
(* action removes a silent rule, one composes it with one other rule, as   *)
(* the two loops of normalize do.                                          *)
(***************************************************************************)
EXTENDS StepSets, Functions

CONSTANTS Cell,      \* memory cells
          PortId,    \* ports
          Defs,      \* rule definitions to start from: sequences of rules,
                     \* a rule a sequence of [putter, getters]
          PortSets   \* the port_set arguments

VARIABLES given,     \* the automaton new_rbpa made
          acyclic,   \* whether silent steps of it never return to a state
          rules, silent, next, buf,   \* Rbpa.rules, r1, rid2 and buf of normalize
          phase,     \* "loop" while normalize runs, then "done"
          exact      \* history: compose and fuse have been exact so far

vars == <<given, acyclic, rules, silent, next, buf, phase, exact>>

-----------------------------------------------------------------------------
Pred == UNION {[S -> BOOLEAN] : S \in SUBSET Cell}
Rule == [port : Cell \cup PortId \cup {None}, guard : Pred, assign : Pred]

WellFormed ==
    /\ Defs \subseteq Seq(Seq([putter : Cell \cup PortId, getters : SUBSET (Cell \cup PortId)]))
    /\ None \notin Pred /\ None \notin Rule

-----------------------------------------------------------------------------
(* Building rules *)

\* normalize of a rule: an assignment of what the guard requires is no assignment
trim(r) == [r EXCEPT !.assign =
                Restrict(@, {k \in DOMAIN @ : ~(k \in DOMAIN r.guard /\ r.guard[k] = @[k])})]

Visible(rd, ports) ==
    UNION {{<<i, "putter", rd[i].putter>>} \cup {<<i, "getter", l>> : l \in rd[i].getters} : i \in DOMAIN rd}
    \cap ((DOMAIN rd) \X {"putter", "getter"} \X ports)

\* f, and g where f is undefined: insert overrides, entry().or_insert() does not
Over(f, g) == [k \in DOMAIN f \cup DOMAIN g |-> IF k \in DOMAIN f THEN f[k] ELSE g[k]]

\* A cell that puts must be full, one that only gets must be empty; the last
\* action on a cell decides what it is afterwards, where getting comes last.
RuleOf(rd, ports) ==
    LET seen    == {v[3] : v \in Visible(rd, ports)}
        on(c)   == {i \in DOMAIN rd : c = rd[i].putter \/ c \in rd[i].getters}
        cells   == (UNION {{rd[i].putter} \cup rd[i].getters : i \in DOMAIN rd}) \ PortId
        last(c) == CHOOSE i \in on(c) : \A j \in on(c) : j <= i
    IN  trim([port |-> IF seen = {} THEN None ELSE CHOOSE p \in seen : TRUE,
              guard |-> [c \in cells |-> \E i \in on(c) : rd[i].putter = c],
              assign |-> [c \in cells |-> c \in rd[last(c)].getters]])

\* SynchronousFiring: a rule with two visible ports has no rbpa
Synchronous(def, ports) == \E i \in DOMAIN def : Cardinality(Visible(def[i], ports)) > 1

Distinct(rs) == Select(rs, {i \in DOMAIN rs : \A j \in DOMAIN rs : j < i => rs[j] # rs[i]})

new_rbpa(def, ports) == Distinct([i \in DOMAIN def |-> RuleOf(def[i], ports)])

-----------------------------------------------------------------------------
(* Rules as relations, the meaning everything is compared with *)

State == [Cell -> BOOLEAN]
Holds(g, s) == \A k \in DOMAIN g : s[k] = g[k]
After(r) == Over(r.assign, r.guard)
Steps(r) == {<<s, r.port, Over(r.assign, s)>> : s \in {t \in State : Holds(r.guard, t)}}
StepsOf(rs) == UNION {Steps(rs[i]) : i \in DOMAIN rs}

-----------------------------------------------------------------------------
(* Operations on rules *)

Disagree(f, g) == {k \in DOMAIN f \cap DOMAIN g : f[k] # g[k]}

is_mutex_with(r1, r2) == Disagree(r1.guard, r2.guard) # {}

\* the guard that r's guard makes of g, None if they clash
constrain_guard(r, g) == IF Disagree(g, r.guard) # {} THEN None ELSE Over(g, r.guard)

\* Mutant: r2's guard is checked against what held before r1.
ComposeStale(r1, r2) ==
    IF Disagree(r1.guard, r2.guard) # {} THEN None
    ELSE trim([port |-> r2.port, guard |-> Over(r1.guard, r2.guard), assign |-> Over(r2.assign, r1.assign)])

\* first r1, then r2, as one rule; the first one's assignments survive where
\* the second one neither looks nor assigns
compose(r1, r2) ==
    IF Disagree(After(r1), r2.guard) # {} THEN None
    ELSE trim([port |-> r2.port,
               guard |-> Over(r1.guard, Restrict(r2.guard, DOMAIN r2.guard \ DOMAIN After(r1))),
               assign |-> Over(r2.assign, Restrict(r1.assign, DOMAIN r1.assign \ DOMAIN After(r2)))])

\* one rule for two of which one subsumes the other or that split a guard in
\* two; None if there is no such rule
fuse(r1, r2) ==
    LET left   == DOMAIN r1.guard \ DOMAIN r2.guard
        right  == DOMAIN r2.guard \ DOMAIN r1.guard
        differ == Disagree(r1.guard, r2.guard)
        target(r, k) == IF k \in DOMAIN After(r) THEN After(r)[k] ELSE None
    IN  IF \/ r1.port # r2.port
           \/ left # {} /\ right # {}
           \/ differ # {} /\ left \cup right # {}
           \/ Cardinality(differ) > 1
           \/ \E k \in DOMAIN r1.guard \cup DOMAIN r2.guard : target(r1, k) # target(r2, k)
        THEN None
        ELSE trim([port |-> r1.port,
                   guard |-> IF left # {} THEN r2.guard
                             ELSE Restrict(r1.guard, DOMAIN r1.guard \ differ),
                   assign |-> r1.assign])

-----------------------------------------------------------------------------
Init ==
    \E def \in Defs, ports \in PortSets :
        /\ ~Synchronous(def, ports)
        /\ given = new_rbpa(def, ports)
        /\ acyclic = SilentlyAcyclic(StepsOf(given))
        /\ rules = given
        /\ silent = None /\ next = 1 /\ buf = <<>> /\ phase = "loop" /\ exact = TRUE

SilentAt == {i \in DOMAIN rules : rules[i].port = None}

\* Mutant: the silent rule is looked at but stays.
KeepSilent ==
    /\ phase = "loop" /\ silent = None /\ SilentAt # {}
    /\ silent' = rules[CHOOSE j \in SilentAt : \A k \in SilentAt : j <= k]
    /\ next' = 1
    /\ UNCHANGED <<given, acyclic, rules, buf, phase, exact>>

\* swap_remove of the first silent rule
RemoveSilent ==
    /\ phase = "loop" /\ silent = None /\ SilentAt # {}
    /\ LET i == CHOOSE j \in SilentAt : \A k \in SilentAt : j <= k
           n == Len(rules)
       IN  /\ silent' = rules[i]
           /\ rules' = SubSeq([rules EXCEPT ![i] = rules[n]], 1, n - 1)
    /\ next' = 1
    /\ UNCHANGED <<given, acyclic, buf, phase, exact>>

\* the composed rule is fused into every rule it can be fused with
Compose ==
    /\ silent # None /\ next <= Len(rules)
    /\ LET c == compose(silent, rules[next])
           fused == IF c = None THEN {} ELSE {j \in DOMAIN rules : fuse(rules[j], c) # None}
       IN  /\ rules' = [j \in DOMAIN rules |-> IF j \in fused THEN fuse(rules[j], c) ELSE rules[j]]
           /\ buf' = IF c = None \/ fused # {} THEN buf ELSE Append(buf, c)
           /\ exact' = /\ exact
                       /\ Sequenced(Steps(silent), Steps(rules[next]))
                            = (IF c = None THEN {} ELSE Steps(c))
                       /\ \A j \in fused : Steps(rules'[j]) = Steps(rules[j]) \cup Steps(c)
    /\ next' = next + 1
    /\ UNCHANGED <<given, acyclic, silent, phase>>

AppendComposed ==
    /\ silent # None /\ next > Len(rules)
    /\ rules' = rules \o buf
    /\ buf' = <<>> /\ silent' = None
    /\ UNCHANGED <<given, acyclic, next, phase, exact>>

RemoveDuplicates ==
    /\ phase = "loop" /\ silent = None /\ SilentAt = {}
    /\ rules' = Distinct(rules)
    /\ phase' = "done"
    /\ UNCHANGED <<given, acyclic, silent, next, buf, exact>>

Next == RemoveSilent \/ Compose \/ AppendComposed \/ RemoveDuplicates

Spec == Init /\ [][Next]_vars

-----------------------------------------------------------------------------
(***************************************************************************)
(* While compose and fuse have been exact, taking a silent rule out and    *)
(* composing it with the others has left the port steps of the automaton,  *)
(* silent ones before them included, as they were.                         *)
(***************************************************************************)
PortStepsKept == exact /\ silent = None => PortSteps(StepsOf(rules)) = PortSteps(StepsOf(given))

(***************************************************************************)
(* What two rules are combined into means what it should.  They are        *)
(* mutually exclusive, and the one's guard cannot constrain the other's,   *)
(* exactly if no state satisfies both guards; the constrained guard holds  *)
(* where both do.  A silent rule composed with another fires exactly where *)
(* the two can fire one after the other, and with the same result unless   *)
(* the second one only reads what the first one assigned.                  *)
(***************************************************************************)
CombinationsExact ==
    \A i, j \in DOMAIN rules :
        LET r1 == rules[i]
            r2 == rules[j]
            both == {s \in State : Holds(r1.guard, s) /\ Holds(r2.guard, s)}
            g    == constrain_guard(r1, r2.guard)
            c    == compose(r1, r2)
            seq  == Sequenced(Steps(r1), Steps(r2))
            overread == (DOMAIN r1.assign \cap DOMAIN r2.guard) \ DOMAIN r2.assign
        IN  /\ is_mutex_with(r1, r2) <=> both = {}
            /\ IF both = {} THEN g = None ELSE both = {s \in State : Holds(g, s)}
            /\ r1.port = None =>
                  /\ {x[1] : x \in seq} = IF c = None THEN {} ELSE {x[1] : x \in Steps(c)}
                  /\ overread = {} /\ c # None => seq = Steps(c)

(***************************************************************************)
(* Normalization ends with no silent rule left, if no sequence of silent   *)
(* steps of the automaton returns to where it began.                       *)
(***************************************************************************)
Normalizes == acyclic => <>(phase = "done" /\ SilentAt = {})
=============================================================================
