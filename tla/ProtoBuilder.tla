---------------------------- MODULE ProtoBuilder ----------------------------
(***************************************************************************)
(* From a definition to an instance: Proto::try_instantiate,               *)
(* ProtoBuilder::finish and build_rules.  The builder is sequential; it is *)
(* a state machine here because it may give up at every step, and because  *)
(* the bitsets of a rule are changed back and forth while its actions are  *)
(* read.  ProtoDef says what they are to be in the end.                    *)
(***************************************************************************)
EXTENDS Integers, Sequences, FiniteSets

CONSTANT Defs   \* definitions: [kind, type, fills, rules]
                \*   kind   TypelessProtoDef.loc_kinds
                \*   type   Proto::loc_type, where it is Some
                \*   fills  the locations for which fill_memory keeps its promise
                \*   rules  for each rule its actions [putter, getters], in order

Kind == {"PortPutter", "PortGetter", "MemInitialized", "MemUninitialized"}

\* ids are numbers
ASSUME DefsAssumption ==
    \A d \in Defs :
        /\ \A l \in DOMAIN d.kind : d.kind[l] \in Kind
        /\ d.rules \in Seq(Seq([putter : Nat, getters : Seq(Nat)]))

can_put(k) == k # "PortGetter"
can_get(k) == k # "PortPutter"
is_mem(k) == k \in {"MemInitialized", "MemUninitialized"}

VARIABLES
    def,         \* the definition, which does not change
    stage,       \* the loop the builder is in
    init_mems,   \* ProtoBuilder.init_mems
    rules,       \* the RunRules built so far
    rule,        \* the RunRule under construction: its bitsets and actions
    read,        \* how many getters of the current action have been read
    result       \* "None" so far, "Ok", "Panic" or the error returned

bvars == <<def, stage, init_mems, rules, rule, read, result>>

LocKinds == DOMAIN def.kind
Uninformed == LocKinds \ DOMAIN def.type

InitCells == {l \in LocKinds : def.kind[l] = "MemInitialized"}

NewRule == [guard_ready |-> {}, guard_full |-> {},
            assign_vals |-> {}, assign_mask |-> {}, actions |-> <<>>]

\* the Err that ? and the early returns give back, without its payload
Fail(err) ==
    /\ result' = err
    /\ UNCHANGED <<def, stage, init_mems, rules, rule, read>>

BInit ==
    /\ def \in Defs
    /\ stage = "fill"
    /\ init_mems = {}
    /\ rules = <<>>
    /\ rule = NewRule
    /\ read = 0
    /\ result = "None"

-----------------------------------------------------------------------------
\* try_instantiate: fill the initialized cells, in any order
FillMemory(l) ==
    /\ result = "None" /\ stage = "fill"
    /\ l \in InitCells \ init_mems
    /\ IF l \notin DOMAIN def.type THEN Fail("UnknownType")
       ELSE IF l \notin def.fills THEN Fail("MemoryFillPromiseBroken")
       ELSE /\ init_mems' = init_mems \cup {l}
            /\ UNCHANGED <<def, stage, rules, rule, read, result>>

\* finish: every location has a type, spaces are made in the order of the
\* ids.  A cell that is filled once more fails the assert of
\* define_init_memory.
Finish ==
    /\ result = "None" /\ stage = "fill"
    /\ InitCells \subseteq init_mems
    /\ \/ Uninformed # {} /\ Fail("UnknownType")
       \/ /\ Uninformed = {} /\ InitCells # {}
          /\ result' = "Panic"
          /\ UNCHANGED <<def, stage, init_mems, rules, rule, read>>
       \/ /\ Uninformed = {} /\ InitCells = {}
          /\ stage' = "putter"
          /\ UNCHANGED <<def, init_mems, rules, rule, read, result>>

-----------------------------------------------------------------------------
\* build_rules
Current == def.rules[Len(rules) + 1]              \* rule_def
Action == Current[Len(rule.actions) + 1]          \* action_def

\* the getters read so far; itertools::unique passes over them if they come again
Read == {Action.getters[i] : i \in 1 .. read}

ReadPutter ==
    /\ result = "None" /\ stage = "putter"
    /\ Len(rules) < Len(def.rules) /\ Len(rule.actions) < Len(Current)
    /\ LET p == Action.putter IN
       IF p \notin LocKinds THEN Fail("UnknownType")
       ELSE IF ~can_put(def.kind[p]) THEN Fail("LocCannotPut")
       ELSE IF p \in rule.guard_ready THEN Fail("SynchronousFiring")
       ELSE LET mem == IF is_mem(def.kind[p]) THEN {p} ELSE {} IN
            /\ rule' = [rule EXCEPT !.guard_ready = @ \cup {p},
                                    !.guard_full = @ \cup mem,
                                    !.assign_vals = @ \ mem,
                                    !.assign_mask = @ \cup mem]
            /\ read' = 0
            /\ stage' = "getters"
            /\ UNCHANGED <<def, init_mems, rules, result>>

\* Mutant: a cell that puts to itself is emptied.
AddGetterEmptied(g, p) ==
    LET mem == IF is_mem(def.kind[g]) THEN {g} ELSE {}
    IN  [rule EXCEPT !.guard_ready = @ \cup {g},
                     !.guard_full = IF g = p THEN @ ELSE @ \ mem,
                     !.assign_vals = IF g = p THEN @ \ mem ELSE @ \cup mem,
                     !.assign_mask = @ \cup mem]

\* the bitsets after a getter that is free or is its own putter
AddGetter(g, p) ==
    LET mem == IF is_mem(def.kind[g]) THEN {g} ELSE {}
    IN  IF g = p THEN [rule EXCEPT !.guard_ready = @ \cup {g},
                                   !.guard_full = @ \cup {g},
                                   !.assign_vals = @ \ {g},
                                   !.assign_mask = @ \ {g}]
        ELSE [rule EXCEPT !.guard_ready = @ \cup {g},
                          !.guard_full = @ \ mem,
                          !.assign_vals = @ \cup mem,
                          !.assign_mask = @ \cup mem]

\* Mutant: also a cell that puts to itself is refused.
InvolvedInAnything(g, p) == g \in rule.guard_ready

\* a getter involved before, unless as the putter of this very action
Involved(g, p) == g \in rule.guard_ready /\ g # p

ReadGetter ==
    /\ result = "None" /\ stage = "getters" /\ read < Len(Action.getters)
    /\ LET g == Action.getters[read + 1]
           p == Action.putter
       IN  IF g \in Read THEN /\ read' = read + 1
                              /\ UNCHANGED <<def, stage, init_mems, rules, rule, result>>
           ELSE IF g \notin LocKinds THEN Fail("UnknownType")
           ELSE IF def.type[p] # def.type[g] THEN Fail("TypeMismatch")
           ELSE IF ~can_get(def.kind[g]) THEN Fail("LocCannotGet")
           ELSE IF Involved(g, p) THEN Fail("SynchronousFiring")
           ELSE /\ rule' = AddGetter(g, p)
                /\ read' = read + 1
                /\ UNCHANGED <<def, stage, init_mems, rules, result>>

\* actions.push: the getters split into cells and ports
PushAction ==
    /\ result = "None" /\ stage = "getters" /\ read = Len(Action.getters)
    /\ LET gs == {Action.getters[i] : i \in DOMAIN Action.getters} IN
       rule' = [rule EXCEPT !.actions = Append(@,
                    [putter |-> Action.putter,
                     mg |-> {g \in gs : is_mem(def.kind[g])},
                     pg |-> {g \in gs : ~is_mem(def.kind[g])}])]
    /\ stage' = "putter"
    /\ UNCHANGED <<def, init_mems, rules, read, result>>

PushRule ==
    /\ result = "None" /\ stage = "putter"
    /\ Len(rules) < Len(def.rules) /\ Len(rule.actions) = Len(Current)
    /\ rules' = Append(rules, rule)
    /\ rule' = NewRule
    /\ UNCHANGED <<def, stage, init_mems, read, result>>

BuildDone ==
    /\ result = "None" /\ stage = "putter"
    /\ Len(rules) = Len(def.rules)
    /\ result' = "Ok"
    /\ UNCHANGED <<def, stage, init_mems, rules, rule, read>>

BNext ==
    \/ \E l \in LocKinds : FillMemory(l)
    \/ Finish
    \/ ReadPutter
    \/ ReadGetter
    \/ PushAction
    \/ PushRule
    \/ BuildDone

BSpec == BInit /\ [][BNext]_bvars

-----------------------------------------------------------------------------
\* The definition as the other modules see it.
Of(k) == {l \in LocKinds : def.kind[l] = k}

D == INSTANCE ProtoDef WITH
        PoPu <- Of("PortPutter"),
        PoGe <- Of("PortGetter"),
        Memo <- Of("MemUninitialized"),
        Rules <- [r \in DOMAIN def.rules |->
                    [guard |-> [op |-> "True", atoms |-> {}],
                     actions |-> [i \in DOMAIN def.rules[r] |->
                        [putter |-> def.rules[r][i].putter,
                         getters |-> {def.rules[r][i].getters[j] :
                                        j \in DOMAIN def.rules[r][i].getters}]]]]

(***************************************************************************)
(* What build_rules accepts is what the coordinator is modelled for: every *)
(* rule has the bitsets and the actions ProtoDef derives from it, whatever *)
(* the order of its actions and getters, and no location takes part twice. *)
(***************************************************************************)
BuiltAsDefined ==
    result = "Ok" => \A r \in DOMAIN def.rules :
        /\ D!Actions(r) \subseteq D!ActionDef /\ ~D!SynchronousFiring(r)
        /\ rules[r].guard_ready = D!guard_ready(r)
        /\ rules[r].guard_full = D!guard_full(r)
        /\ rules[r].assign_vals = D!assign_vals(r)
        /\ rules[r].assign_mask = D!assign_mask(r)
        /\ {[putter |-> a.putter, getters |-> a.mg \cup a.pg] :
                a \in {rules[r].actions[i] : i \in DOMAIN rules[r].actions}} = D!Actions(r)

(***************************************************************************)
(* A definition that ProtoDef admits, all of whose locations have types    *)
(* that agree within each action, is not refused.                          *)
(***************************************************************************)
Admissible ==
    /\ InitCells = {} /\ Uninformed = {}
    /\ \A r \in DOMAIN def.rules :
        /\ D!Actions(r) \subseteq D!ActionDef /\ ~D!SynchronousFiring(r)
        /\ \A a \in D!Actions(r) : \A g \in a.getters : def.type[g] = def.type[a.putter]

RefusedForCause == result \notin {"None", "Ok"} => ~Admissible
=============================================================================
