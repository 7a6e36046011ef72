--------------------------- MODULE BuilderProofs ---------------------------
(***************************************************************************)
(* What the builder makes of a definition, and what it refuses, for any    *)
(* definitions; and who owns the ports of what it builds, for any number   *)
(* of instances, clients and groups.                                       *)
(***************************************************************************)
EXTENDS Claims, SequenceTheorems, TLAPS

Getters(a) == {a.getters[j] : j \in DOMAIN a.getters}

\* the actions of a rule of the definition, their getters as sets
Whole(r) == [i \in DOMAIN def.rules[r] |->
                [putter |-> def.rules[r][i].putter, getters |-> Getters(def.rules[r][i])]]

\* the actions of the current rule, as far as they have been read
Begun == 1 .. Len(rule.actions) + (IF stage = "getters" THEN 1 ELSE 0)

Pieces == [i \in Begun |->
            [putter |-> Current[i].putter,
             getters |-> IF i <= Len(rule.actions) THEN Getters(Current[i]) ELSE Read]]

Part(a) == {a.putter} \cup a.getters

RunAction == [putter : LocKinds, mg : SUBSET LocKinds, pg : SUBSET LocKinds]

RunRule == [guard_ready : SUBSET LocKinds, guard_full : SUBSET LocKinds,
            assign_vals : SUBSET LocKinds, assign_mask : SUBSET LocKinds,
            actions : Seq(RunAction)]

\* the bitsets of b are those of the actions P, which do not collide
Reflects(b, P) ==
    /\ \A i \in DOMAIN P : P[i] \in D!ActionDef
    /\ \A i, j \in DOMAIN P : i # j => Part(P[i]) \cap Part(P[j]) = {}
    /\ \A l \in LocKinds :
        /\ l \in b.guard_ready <=> \E i \in DOMAIN P : l \in Part(P[i])
        /\ l \in b.guard_full <=> is_mem(def.kind[l]) /\ \E i \in DOMAIN P : l = P[i].putter
        /\ l \in b.assign_vals <=>
              is_mem(def.kind[l]) /\ \E i \in DOMAIN P : l \in P[i].getters /\ l # P[i].putter
        /\ l \in b.assign_mask <=>
              is_mem(def.kind[l]) /\ \E i \in DOMAIN P : l \in P[i].getters <=> l # P[i].putter

\* the actions pushed are the first ones of P
Pushed(acts, P) ==
    \A i \in DOMAIN acts : /\ i \in DOMAIN P /\ acts[i].putter = P[i].putter
                           /\ acts[i].mg \cup acts[i].pg = P[i].getters

\* where in the definition the builder is
Position ==
    /\ def \in Defs /\ stage \in {"fill", "putter", "getters"}
    /\ rules \in Seq(RunRule) /\ rule \in RunRule
    /\ Len(rules) <= Len(def.rules)
    /\ stage # "fill" => InitCells = {}
    /\ Len(rules) = Len(def.rules) => rule = NewRule /\ stage # "getters"
    /\ Len(rules) < Len(def.rules) => Len(rule.actions) <= Len(Current)
    /\ stage = "getters" => /\ Len(rules) < Len(def.rules) /\ Len(rule.actions) < Len(Current)
                            /\ read \in 0 .. Len(Action.getters)
    /\ result = "Ok" => Len(rules) = Len(def.rules) /\ stage # "fill"

\* the inductive invariant
BuilderInv ==
    /\ Position
    /\ \A r \in DOMAIN rules : /\ Reflects(rules[r], Whole(r))
                               /\ Pushed(rules[r].actions, Whole(r))
                               /\ Len(rules[r].actions) = Len(def.rules[r])
    /\ Len(rules) < Len(def.rules) => Reflects(rule, Pieces) /\ Pushed(rule.actions, Pieces)

-----------------------------------------------------------------------------
LEMMA DefTypes ==
    ASSUME def \in Defs
    PROVE  /\ def.rules \in Seq(Seq([putter : Nat, getters : Seq(Nat)]))
           /\ \A l \in LocKinds : def.kind[l] \in Kind
  BY DefsAssumption DEF LocKinds

\* Without initialized cells the kinds of ProtoDef are those of the builder.
LEMMA Kinds ==
    ASSUME def \in Defs, InitCells = {}, NEW l
    PROVE  /\ l \in Of("MemUninitialized") <=> l \in LocKinds /\ is_mem(def.kind[l])
           /\ l \in Of("PortPutter") \cup Of("MemUninitialized") <=> l \in LocKinds /\ can_put(def.kind[l])
           /\ l \in Of("MemUninitialized") \cup Of("PortGetter") <=> l \in LocKinds /\ can_get(def.kind[l])
  BY DefTypes DEF InitCells, Of, is_mem, can_put, can_get, Kind

\* an action ProtoDef admits
LEMMA ActionKinds ==
    ASSUME def \in Defs, InitCells = {}, NEW p, NEW G
    PROVE  [putter |-> p, getters |-> G] \in D!ActionDef <=>
              /\ p \in LocKinds /\ can_put(def.kind[p])
              /\ \A g \in G : g \in LocKinds /\ can_get(def.kind[g])
  BY Kinds DEF D!ActionDef, D!Space

\* a putter that takes part in nothing yet
LEMMA PutterRead ==
    ASSUME def \in Defs, InitCells = {}, NEW b, NEW P, Reflects(b, P),
           NEW n, n \notin DOMAIN P, NEW p \in LocKinds, can_put(def.kind[p]), p \notin b.guard_ready,
           NEW mem, mem = IF is_mem(def.kind[p]) THEN {p} ELSE {},
           NEW c, c.guard_ready = b.guard_ready \cup {p}, c.guard_full = b.guard_full \cup mem,
                  c.assign_vals = b.assign_vals \ mem, c.assign_mask = b.assign_mask \cup mem,
           NEW Q, DOMAIN Q = DOMAIN P \cup {n}, Q[n] = [putter |-> p, getters |-> {}],
                  \A i \in DOMAIN P : Q[i] = P[i]
    PROVE  Reflects(c, Q)
  <1>1. /\ \A l : l \in c.guard_ready <=> l \in b.guard_ready \/ l = p
        /\ \A l : l \in c.guard_full <=> l \in b.guard_full \/ (l = p /\ is_mem(def.kind[p]))
        /\ \A l : l \in c.assign_vals <=> l \in b.assign_vals /\ ~(l = p /\ is_mem(def.kind[p]))
        /\ \A l : l \in c.assign_mask <=> l \in b.assign_mask \/ (l = p /\ is_mem(def.kind[p]))
    BY DEF RunRule
  <1>2. /\ DOMAIN Q = DOMAIN P \cup {n} /\ Q[n] = [putter |-> p, getters |-> {}]
        /\ \A i \in DOMAIN P : i # n /\ Q[i] = P[i]
    OBVIOUS
  <1>3. Q[n] \in D!ActionDef /\ Q[n].putter = p /\ Q[n].getters = {} /\ Part(Q[n]) = {p}
    BY <1>2, ActionKinds DEF Part
  <1>4. \A i \in DOMAIN P : p \notin Part(P[i]) /\ p # P[i].putter /\ p \notin P[i].getters
    BY DEF Reflects, Part
  <1>5. \A i \in DOMAIN Q : Q[i] \in D!ActionDef
    BY <1>2, <1>3 DEF Reflects
  <1>6. \A i, j \in DOMAIN Q : i # j => Part(Q[i]) \cap Part(Q[j]) = {}
    <2>1. \A i, j \in DOMAIN P : i # j => Part(P[i]) \cap Part(P[j]) = {}
      BY DEF Reflects
    <2>2. \A i \in DOMAIN P : Part(Q[i]) = Part(P[i])
      BY <1>2
    <2>3. \A i \in DOMAIN P : Part(Q[i]) \cap Part(Q[n]) = {}
      BY <1>3, <1>4, <2>2
    <2> QED BY <1>2, <2>1, <2>2, <2>3
  <1>7. ASSUME NEW l \in LocKinds
        PROVE  /\ l \in c.guard_ready <=> \E i \in DOMAIN Q : l \in Part(Q[i])
               /\ l \in c.guard_full <=> is_mem(def.kind[l]) /\ \E i \in DOMAIN Q : l = Q[i].putter
               /\ l \in c.assign_vals <=>
                     is_mem(def.kind[l]) /\ \E i \in DOMAIN Q : l \in Q[i].getters /\ l # Q[i].putter
               /\ l \in c.assign_mask <=>
                     is_mem(def.kind[l]) /\ \E i \in DOMAIN Q : l \in Q[i].getters <=> l # Q[i].putter
    <2>1. /\ l \in b.guard_ready <=> \E i \in DOMAIN P : l \in Part(P[i])
          /\ l \in b.guard_full <=> is_mem(def.kind[l]) /\ \E i \in DOMAIN P : l = P[i].putter
          /\ l \in b.assign_vals <=>
                is_mem(def.kind[l]) /\ \E i \in DOMAIN P : l \in P[i].getters /\ l # P[i].putter
          /\ l \in b.assign_mask <=>
                is_mem(def.kind[l]) /\ \E i \in DOMAIN P : l \in P[i].getters <=> l # P[i].putter
      BY DEF Reflects
    <2>2. /\ \A i \in DOMAIN P : Q[i].putter = P[i].putter /\ Q[i].getters = P[i].getters
                                  /\ Part(Q[i]) = Part(P[i])
          /\ \A i \in DOMAIN Q : i = n \/ i \in DOMAIN P
          /\ \A i \in DOMAIN P : i \in DOMAIN Q
          /\ n \in DOMAIN Q
      BY <1>2
    <2>3. l \in c.guard_ready <=> \E i \in DOMAIN Q : l \in Part(Q[i])
      BY <1>1, <1>3, <2>1, <2>2
    <2>4. l \in c.guard_full <=> is_mem(def.kind[l]) /\ \E i \in DOMAIN Q : l = Q[i].putter
      BY <1>1, <1>3, <2>1, <2>2
    <2>5. l \in c.assign_vals <=>
              is_mem(def.kind[l]) /\ \E i \in DOMAIN Q : l \in Q[i].getters /\ l # Q[i].putter
      BY <1>1, <1>3, <1>4, <2>1, <2>2
    <2>6. l \in c.assign_mask <=>
              is_mem(def.kind[l]) /\ \E i \in DOMAIN Q : l \in Q[i].getters <=> l # Q[i].putter
      BY <1>1, <1>3, <2>1, <2>2
    <2> QED BY <2>3, <2>4, <2>5, <2>6
  <1> QED BY <1>5, <1>6, <1>7 DEF Reflects

\* a getter that takes part in nothing yet, unless it is its own putter
LEMMA GetterRead ==
    ASSUME def \in Defs, InitCells = {}, rule \in RunRule, NEW P, Reflects(rule, P),
           NEW n \in DOMAIN P, NEW p, p = P[n].putter, NEW G, G = P[n].getters,
           NEW g \in LocKinds, can_get(def.kind[g]), g \notin G, ~Involved(g, p),
           NEW c \in RunRule, c = AddGetter(g, p),
           NEW Q, Q = [i \in DOMAIN P |->
                        IF i = n THEN [putter |-> p, getters |-> G \cup {g}] ELSE P[i]]
    PROVE  Reflects(c, Q)
  <1>1. p \in LocKinds /\ can_put(def.kind[p]) /\ \A h \in G : h \in LocKinds /\ can_get(def.kind[h])
    <2>1. P[n] \in D!ActionDef
      BY DEF Reflects
    <2>2. P[n] = [putter |-> p, getters |-> G]
      BY <2>1 DEF D!ActionDef
    <2> QED BY <2>1, <2>2, ActionKinds
  <1>2. g = p => is_mem(def.kind[g])
    BY <1>1, DefTypes DEF can_get, can_put, is_mem, Kind, LocKinds
  <1>3. /\ \A l : l \in c.guard_ready <=> l \in rule.guard_ready \/ l = g
        /\ \A l : l # g => (l \in c.guard_full <=> l \in rule.guard_full)
        /\ \A l : l # g => (l \in c.assign_vals <=> l \in rule.assign_vals)
        /\ \A l : l # g => (l \in c.assign_mask <=> l \in rule.assign_mask)
    BY DEF RunRule, AddGetter
  <1>4. g = p => g \in c.guard_full /\ g \notin c.assign_vals /\ g \notin c.assign_mask
    BY DEF RunRule, AddGetter
  <1>5. g # p /\ is_mem(def.kind[g]) => g \notin c.guard_full /\ g \in c.assign_vals /\ g \in c.assign_mask
    BY DEF RunRule, AddGetter
  <1>6. g # p /\ ~is_mem(def.kind[g]) => /\ g \in c.guard_full <=> g \in rule.guard_full
                                         /\ g \in c.assign_vals <=> g \in rule.assign_vals
                                         /\ g \in c.assign_mask <=> g \in rule.assign_mask
    BY DEF RunRule, AddGetter
  <1>7. /\ Q[n].putter = p /\ Q[n].getters = G \cup {g} /\ Part(Q[n]) = Part(P[n]) \cup {g}
        /\ Part(P[n]) = {p} \cup G
    BY DEF Part
  <1>8. \A i \in DOMAIN P : i # n => Q[i] = P[i]
    OBVIOUS
  <1>9. /\ \A i \in DOMAIN P : i # n => Q[i].putter = P[i].putter /\ Q[i].getters = P[i].getters
                                        /\ Part(Q[i]) = Part(P[i])
        /\ DOMAIN Q = DOMAIN P
    BY <1>8
  <1>10. ASSUME NEW i \in DOMAIN P, i # n PROVE g \notin Part(P[i]) /\ g # P[i].putter /\ g \notin P[i].getters
    <2>1. g = p => g \in Part(P[n])
      BY <1>7
    <2>2. g \in Part(P[i]) => g \in rule.guard_ready
      BY DEF Reflects
    <2>3. Part(P[i]) \cap Part(P[n]) = {}
      BY <1>10 DEF Reflects
    <2>4. g \notin Part(P[i])
      BY <2>1, <2>2, <2>3 DEF Involved
    <2> QED BY <2>4 DEF Part
  <1>11. \A i \in DOMAIN Q : Q[i] \in D!ActionDef
    <2>1. Q[n] \in D!ActionDef
      <3>1. Q[n] = [putter |-> p, getters |-> G \cup {g}]
        OBVIOUS
      <3> QED BY <1>1, <3>1, ActionKinds
    <2> QED BY <1>8, <1>9, <2>1 DEF Reflects
  <1>12. \A i, j \in DOMAIN Q : i # j => Part(Q[i]) \cap Part(Q[j]) = {}
    <2>1. \A i, j \in DOMAIN P : i # j => Part(P[i]) \cap Part(P[j]) = {}
      BY DEF Reflects
    <2>2. \A i \in DOMAIN P : i # n => Part(Q[i]) \cap Part(Q[n]) = {}
      <3> SUFFICES ASSUME NEW i \in DOMAIN P, i # n, NEW x, x \in Part(Q[i]), x \in Part(Q[n])
                   PROVE  FALSE
        OBVIOUS
      <3>1. x \in Part(P[i]) /\ x \in Part(P[n]) \cup {g}
        BY <1>7, <1>9
      <3>2. x # g
        BY <1>10, <3>1
      <3> QED BY <2>1, <3>1, <3>2
    <2> QED BY <1>9, <2>1, <2>2
  <1>13. ASSUME NEW l \in LocKinds
         PROVE  /\ l \in c.guard_ready <=> \E i \in DOMAIN Q : l \in Part(Q[i])
                /\ l \in c.guard_full <=> is_mem(def.kind[l]) /\ \E i \in DOMAIN Q : l = Q[i].putter
                /\ l \in c.assign_vals <=>
                      is_mem(def.kind[l]) /\ \E i \in DOMAIN Q : l \in Q[i].getters /\ l # Q[i].putter
                /\ l \in c.assign_mask <=>
                      is_mem(def.kind[l]) /\ \E i \in DOMAIN Q : l \in Q[i].getters <=> l # Q[i].putter
    <2>1. /\ l \in rule.guard_ready <=> \E i \in DOMAIN P : l \in Part(P[i])
          /\ l \in rule.guard_full <=> is_mem(def.kind[l]) /\ \E i \in DOMAIN P : l = P[i].putter
          /\ l \in rule.assign_vals <=>
                is_mem(def.kind[l]) /\ \E i \in DOMAIN P : l \in P[i].getters /\ l # P[i].putter
          /\ l \in rule.assign_mask <=>
                is_mem(def.kind[l]) /\ \E i \in DOMAIN P : l \in P[i].getters <=> l # P[i].putter
      BY DEF Reflects
    <2>2. l \in c.guard_ready <=> \E i \in DOMAIN Q : l \in Part(Q[i])
      BY <1>3, <1>7, <1>9, <2>1
    <2>3. CASE l # g
      <3>1. \A i \in DOMAIN P : /\ l = Q[i].putter <=> l = P[i].putter
                                /\ l \in Q[i].getters <=> l \in P[i].getters
        BY <1>7, <1>9, <2>3
      <3> QED BY <1>3, <1>9, <2>1, <2>2, <2>3, <3>1
    <2>4. CASE l = g
      <3>1. \A i \in DOMAIN Q : i # n => l \notin Q[i].getters /\ l # Q[i].putter
        BY <1>9, <1>10, <2>4
      <3>2. l \in Q[n].getters /\ (l = Q[n].putter <=> g = p)
        BY <1>7, <2>4
      <3>3. l = P[n].putter <=> g = p
        BY <2>4
      <3>4. ~is_mem(def.kind[g]) =>
                l \notin rule.guard_full /\ l \notin rule.assign_vals /\ l \notin rule.assign_mask
        BY <2>1, <2>4
      <3> QED BY <1>2, <1>4, <1>5, <1>6, <1>9, <2>2, <2>4, <3>1, <3>2, <3>3, <3>4
    <2> QED BY <2>3, <2>4
  <1> QED BY <1>11, <1>12, <1>13 DEF Reflects

-----------------------------------------------------------------------------
\* What is said of a rule in the next state, from the same of constants.
LEMMA SameDef ==
    ASSUME def' = def
    PROVE  /\ LocKinds' = LocKinds /\ D!ActionDef' = D!ActionDef /\ InitCells' = InitCells
           /\ RunRule' = RunRule
           /\ \A r : Whole(r)' = Whole(r)
  BY DEF LocKinds, D!ActionDef, D!Space, Of, InitCells, RunRule, RunAction, Whole

LEMMA CurrentNext ==
    ASSUME def' = def, NEW c, c = rule', NEW Q, Q = Pieces', Reflects(c, Q), Pushed(c.actions, Q)
    PROVE  Reflects(rule, Pieces)' /\ Pushed(rule.actions, Pieces)'
  BY SameDef DEF Reflects, Pushed

LEMMA DoneNext ==
    ASSUME def' = def, NEW r, NEW c, c = rules'[r], NEW Q, Q = Whole(r),
           Reflects(c, Q), Pushed(c.actions, Q)
    PROVE  Reflects(rules[r], Whole(r))' /\ Pushed(rules[r].actions, Whole(r))'
  BY SameDef DEF Reflects, Pushed

\* Rules that are done stay as they are.
LEMMA DoneStay ==
    ASSUME BuilderInv, def' = def, rules' = rules
    PROVE  \A r \in DOMAIN rules' : /\ Reflects(rules[r], Whole(r))'
                                    /\ Pushed(rules[r].actions, Whole(r))'
                                    /\ Len(rules'[r].actions) = Len(def'.rules[r])
  <1> SUFFICES ASSUME NEW r \in DOMAIN rules
               PROVE  /\ Reflects(rules[r], Whole(r))'
                      /\ Pushed(rules[r].actions, Whole(r))'
                      /\ Len(rules'[r].actions) = Len(def'.rules[r])
    OBVIOUS
  <1>1. PICK c : c = rules[r]
    OBVIOUS
  <1>2. PICK Q : Q = Whole(r)
    OBVIOUS
  <1>3. Reflects(c, Q) /\ Pushed(c.actions, Q)
    BY <1>1, <1>2 DEF BuilderInv
  <1> QED BY <1>1, <1>2, <1>3, DoneNext DEF BuilderInv

\* the rule and the action that are being read
LEMMA InRule ==
    ASSUME Position, Len(rules) < Len(def.rules)
    PROVE  /\ Len(rules) + 1 \in DOMAIN def.rules /\ Current = def.rules[Len(rules) + 1]
           /\ Current \in Seq([putter : Nat, getters : Seq(Nat)])
           /\ Len(rule.actions) \in Nat
           /\ Len(rule.actions) < Len(Current) =>
                 /\ Action \in [putter : Nat, getters : Seq(Nat)]
                 /\ Action = Current[Len(rule.actions) + 1]
  <1>1. def.rules \in Seq(Seq([putter : Nat, getters : Seq(Nat)])) /\ Len(rules) \in Nat
    BY DefTypes DEF Position
  <1>2. Len(rules) + 1 \in DOMAIN def.rules
    BY <1>1
  <1>3. Current \in Seq([putter : Nat, getters : Seq(Nat)])
    BY <1>1, <1>2 DEF Current
  <1>4. rule.actions \in Seq(RunAction)
    BY DEF Position, RunRule
  <1>5. Len(rule.actions) \in Nat
    BY <1>4
  <1>6. Action = Current[Len(rule.actions) + 1]
    BY DEF Action
  <1>7. Len(rule.actions) < Len(Current) => Action \in [putter : Nat, getters : Seq(Nat)]
    <2> SUFFICES ASSUME Len(rule.actions) < Len(Current)
                 PROVE  Current[Len(rule.actions) + 1] \in [putter : Nat, getters : Seq(Nat)]
      BY <1>6
    <2>1. Len(Current) \in Nat
      BY <1>3, LenProperties
    <2>2. Len(rule.actions) + 1 \in 1 .. Len(Current)
      BY <1>5, <2>1
    <2> QED BY <1>3, <2>2, ElementOfSeq
  <1> QED BY <1>2, <1>3, <1>5, <1>6, <1>7 DEF Current

LEMMA InitBuilder == BInit => BuilderInv
  <1> SUFFICES ASSUME BInit PROVE BuilderInv
    OBVIOUS
  <1>1. rules = <<>> /\ rule = NewRule /\ stage = "fill" /\ def \in Defs /\ result = "None"
    BY DEF BInit
  <1>2. rule \in RunRule /\ rules \in Seq(RunRule) /\ Len(rules) = 0 /\ Len(rule.actions) = 0
    BY <1>1 DEF RunRule, NewRule
  <1>3. def.rules \in Seq(Seq([putter : Nat, getters : Seq(Nat)]))
    BY <1>1, DefTypes
  <1>4. Position
    <2>1. Len(rules) <= Len(def.rules)
      BY <1>2, <1>3
    <2>2. Len(rules) < Len(def.rules) => Len(rule.actions) <= Len(Current)
      BY <1>2, <1>3 DEF Current
    <2> QED BY <1>1, <1>2, <2>1, <2>2 DEF Position
  <1>5. DOMAIN rules = {} /\ Begun = {} /\ DOMAIN Pieces = {} /\ DOMAIN rule.actions = {}
    BY <1>1, <1>2 DEF Begun, Pieces
  <1>6. Reflects(rule, Pieces) /\ Pushed(rule.actions, Pieces)
    BY <1>1, <1>5 DEF Reflects, Pushed, NewRule
  <1> QED BY <1>4, <1>5, <1>6 DEF BuilderInv

\* An error, a panic, the end and every step outside build_rules leave the
\* rules alone.
LEMMA StayBuilder ==
    ASSUME BuilderInv, UNCHANGED <<def, rules, rule, read>>,
           stage' = stage \/ (stage = "fill" /\ stage' = "putter" /\ InitCells = {}),
           result' = "Ok" => Len(rules) = Len(def.rules) /\ stage # "fill"
    PROVE  BuilderInv'
  <1>1. Begun' = Begun /\ Current' = Current /\ Read' = Read
    BY DEF Begun, Current, Read, Action
  <1>2. Pieces' = Pieces
    BY <1>1 DEF Pieces
  <1>3. Position'
    BY <1>1, SameDef DEF BuilderInv, Position, Action
  <1>4. PICK c : c = rule
    OBVIOUS
  <1>5. PICK Q : Q = Pieces
    OBVIOUS
  <1>6. Len(rules) < Len(def.rules) => Reflects(rule, Pieces)' /\ Pushed(rule.actions, Pieces)'
    <2>1. Len(rules) < Len(def.rules) => Reflects(c, Q) /\ Pushed(c.actions, Q)
      BY <1>4, <1>5 DEF BuilderInv
    <2> QED BY <1>2, <1>4, <1>5, <2>1, CurrentNext
  <1> QED BY <1>3, <1>6, DoneStay DEF BuilderInv

LEMMA ReadPutterBuilder ==
    ASSUME BuilderInv, ReadPutter, result' = result
    PROVE  BuilderInv'
  <1> DEFINE n == Len(rule.actions) + 1
             mem == IF is_mem(def.kind[Action.putter]) THEN {Action.putter} ELSE {}
  <1>1. /\ Position /\ stage = "putter" /\ result = "None"
        /\ Len(rules) < Len(def.rules) /\ Len(rule.actions) < Len(Current)
    BY DEF BuilderInv, ReadPutter
  <1>2. /\ Action.putter \in LocKinds /\ can_put(def.kind[Action.putter])
        /\ Action.putter \notin rule.guard_ready
        /\ rule' = [rule EXCEPT !.guard_ready = @ \cup {Action.putter}, !.guard_full = @ \cup mem,
                                !.assign_vals = @ \ mem, !.assign_mask = @ \cup mem]
        /\ read' = 0 /\ stage' = "getters" /\ UNCHANGED <<def, init_mems, rules, result>>
    BY <1>1 DEF ReadPutter, Fail
  <1>3. /\ Current \in Seq([putter : Nat, getters : Seq(Nat)]) /\ Len(rule.actions) \in Nat
        /\ Action \in [putter : Nat, getters : Seq(Nat)] /\ Action = Current[n]
    BY <1>1, InRule
  <1>4. rule \in RunRule /\ def \in Defs /\ InitCells = {}
    BY <1>1 DEF Position
  <1>5. rule' \in RunRule /\ rule'.actions = rule.actions
    BY <1>2, <1>4 DEF RunRule
  <1>6. Current' = Current /\ Action' = Action /\ Read' = {}
    <2>1. Current' = Current /\ Action' = Action
      BY <1>2, <1>5 DEF Current, Action
    <2>2. 1 .. read' = {}
      BY <1>2
    <2> QED BY <2>1, <2>2 DEF Read
  <1>7. Begun = 1 .. n - 1 /\ Begun' = 1 .. n
    BY <1>1, <1>2, <1>3, <1>5 DEF Begun
  <1>8. PICK P : P = Pieces
    OBVIOUS
  <1>9. PICK Q : Q = Pieces'
    OBVIOUS
  <1>10. DOMAIN P = 1 .. n - 1 /\ DOMAIN Q = 1 .. n /\ n \notin DOMAIN P /\ n \in Nat
    BY <1>3, <1>7, <1>8, <1>9 DEF Pieces
  <1>11. Q = [i \in DOMAIN P \cup {n} |->
                IF i = n THEN [putter |-> Action.putter, getters |-> {}] ELSE P[i]]
    <2>1. 1 .. n = DOMAIN P \cup {n}
      BY <1>3, <1>10
    <2>2. \A i \in 1 .. n : Q[i] = [putter |-> Current[i].putter,
                    getters |-> IF i <= Len(rule.actions) THEN Getters(Current[i]) ELSE {}]
      BY <1>5, <1>6, <1>7, <1>9 DEF Pieces
    <2>3. \A i \in 1 .. n - 1 : P[i] = [putter |-> Current[i].putter, getters |-> Getters(Current[i])]
      BY <1>3, <1>7, <1>8 DEF Pieces
    <2>4. /\ n \in 1 .. n /\ ~(n <= Len(rule.actions))
          /\ \A i \in 1 .. n - 1 : i \in 1 .. n /\ i <= Len(rule.actions) /\ i # n
      BY <1>3
    <2>5. Q[n] = [putter |-> Action.putter, getters |-> {}]
      BY <1>3, <2>2, <2>4
    <2>7. \A i \in 1 .. n - 1 : Q[i] = P[i]
      BY <2>2, <2>3, <2>4
    <2>6. Q = [i \in DOMAIN Q |-> Q[i]]
      BY <1>9 DEF Pieces
    <2> QED BY <1>10, <2>1, <2>4, <2>5, <2>6, <2>7
  <1>12. Reflects(rule, P) /\ Pushed(rule.actions, P)
    BY <1>1, <1>8 DEF BuilderInv
  <1>13. PICK c : c = rule'
    OBVIOUS
  <1>14. Reflects(c, Q)
    <2>1. PICK a : a = Action.putter
      OBVIOUS
    <2>2. PICK m : m = mem
      OBVIOUS
    <2>3. PICK k : k = n
      OBVIOUS
    <2>4. PICK b : b = rule
      OBVIOUS
    <2>5. /\ b \in RunRule /\ Reflects(b, P) /\ k \notin DOMAIN P
          /\ a \in LocKinds /\ can_put(def.kind[a]) /\ a \notin b.guard_ready
          /\ m = IF is_mem(def.kind[a]) THEN {a} ELSE {}
      BY <1>2, <1>4, <1>10, <1>12, <2>1, <2>2, <2>3, <2>4
    <2>6. /\ c.guard_ready = b.guard_ready \cup {a} /\ c.guard_full = b.guard_full \cup m
          /\ c.assign_vals = b.assign_vals \ m /\ c.assign_mask = b.assign_mask \cup m
      <3> HIDE DEF mem
      <3> QED BY <1>2, <1>4, <1>13, <2>1, <2>2, <2>4 DEF RunRule
    <2>7. /\ DOMAIN Q = DOMAIN P \cup {k} /\ Q[k] = [putter |-> a, getters |-> {}]
          /\ \A i \in DOMAIN P : Q[i] = P[i]
      BY <1>10, <1>11, <2>1, <2>3
    <2> HIDE DEF n, mem
    <2> QED BY <1>4, <2>5, <2>6, <2>7, PutterRead
  <1>15. Pushed(c.actions, Q)
    BY <1>5, <1>10, <1>11, <1>12, <1>13 DEF Pushed
  <1>16. Position'
    <2>1. 0 \in 0 .. Len(Action.getters)
      <3>1. Action.getters \in Seq(Nat)
        BY <1>3
      <3>2. Len(Action.getters) \in Nat
        BY <3>1
      <3> QED BY <3>2
    <2>2. def' \in Defs /\ rules' \in Seq(RunRule') /\ rule' \in RunRule' /\ InitCells' = {}
      BY <1>1, <1>2, <1>4, <1>5, SameDef DEF Position
    <2>3. Len(rule'.actions) < Len(Current') /\ read' \in 0 .. Len(Action'.getters)
      BY <1>1, <1>2, <1>5, <1>6, <2>1
    <2>4. Len(rules') < Len(def'.rules) /\ stage' = "getters" /\ result' = "None"
      BY <1>1, <1>2
    <2>5. Len(rules') \in Nat /\ Len(def'.rules) \in Nat /\ Len(rule'.actions) \in Nat /\ Len(Current') \in Nat
      <3>1. def.rules \in Seq(Seq([putter : Nat, getters : Seq(Nat)])) /\ Len(def.rules) \in Nat
        BY <1>4, DefTypes
      <3>2. rules \in Seq(RunRule) /\ Len(rules) \in Nat
        BY <1>1 DEF Position
      <3>3. Len(Current) \in Nat
        BY <1>3
      <3> QED BY <1>2, <1>3, <1>5, <1>6, <3>1, <3>2, <3>3
    <2> QED BY <2>2, <2>3, <2>4, <2>5 DEF Position
  <1> QED BY <1>2, <1>9, <1>13, <1>14, <1>15, <1>16, CurrentNext, DoneStay DEF BuilderInv

LEMMA ReadGetterBuilder ==
    ASSUME BuilderInv, ReadGetter, result' = result
    PROVE  BuilderInv'
  <1> DEFINE n == Len(rule.actions) + 1
             g == Action.getters[read + 1]
             p == Action.putter
  <1>1. /\ Position /\ stage = "getters" /\ result = "None"
        /\ Len(rules) < Len(def.rules) /\ Len(rule.actions) < Len(Current)
        /\ read \in 0 .. Len(Action.getters) /\ read < Len(Action.getters)
    BY DEF BuilderInv, Position, ReadGetter
  <1>2. UNCHANGED <<def, stage, init_mems, rules, result>> /\ read' = read + 1
    BY <1>1 DEF ReadGetter, Fail
  <1>3. /\ Current \in Seq([putter : Nat, getters : Seq(Nat)]) /\ Len(rule.actions) \in Nat
        /\ Action \in [putter : Nat, getters : Seq(Nat)] /\ Action = Current[n]
    BY <1>1, InRule
  <1>4. rule \in RunRule /\ def \in Defs /\ InitCells = {}
    BY <1>1 DEF Position
  <1>5. \/ g \in Read /\ rule' = rule
        \/ /\ g \notin Read /\ g \in LocKinds /\ can_get(def.kind[g]) /\ ~Involved(g, p)
           /\ rule' = AddGetter(g, p)
    BY <1>1 DEF ReadGetter, Fail
  <1>6. rule' \in RunRule /\ rule'.actions = rule.actions
    <2>1. CASE rule' = rule
      BY <1>4, <2>1
    <2>2. CASE g \in LocKinds /\ rule' = AddGetter(g, p)
      <3> HIDE DEF g, p
      <3> QED BY <1>4, <2>2 DEF RunRule, AddGetter
    <2> QED BY <1>5, <2>1, <2>2
  <1>7. Current' = Current /\ Action' = Action
    BY <1>2, <1>6 DEF Current, Action
  <1>8. Read' = Read \cup {g}
    <2>1. 1 .. read + 1 = (1 .. read) \cup {read + 1}
      BY <1>1
    <2> QED BY <1>2, <1>7, <2>1 DEF Read
  <1>9. Begun = 1 .. n /\ Begun' = 1 .. n /\ n \in 1 .. n
    BY <1>1, <1>2, <1>3, <1>6 DEF Begun
  <1>10. PICK P : P = Pieces
    OBVIOUS
  <1>11. PICK Q : Q = Pieces'
    OBVIOUS
  <1>12. /\ DOMAIN P = 1 .. n /\ DOMAIN Q = 1 .. n
         /\ P[n].putter = p /\ P[n].getters = Read
    BY <1>3, <1>9, <1>10, <1>11 DEF Pieces
  <1>13. Q = [i \in DOMAIN P |-> IF i = n THEN [putter |-> p, getters |-> Read \cup {g}] ELSE P[i]]
    <2>1. \A i \in 1 .. n : Q[i] = [putter |-> Current[i].putter,
              getters |-> IF i <= Len(rule.actions) THEN Getters(Current[i]) ELSE Read \cup {g}]
      BY <1>6, <1>7, <1>8, <1>9, <1>11 DEF Pieces
    <2>2. \A i \in 1 .. n : P[i] = [putter |-> Current[i].putter,
              getters |-> IF i <= Len(rule.actions) THEN Getters(Current[i]) ELSE Read]
      BY <1>9, <1>10 DEF Pieces
    <2>3. \A i \in 1 .. n : Q[i] = IF i = n THEN [putter |-> p, getters |-> Read \cup {g}] ELSE P[i]
      <3> SUFFICES ASSUME NEW i \in 1 .. n
                   PROVE  Q[i] = IF i = n THEN [putter |-> p, getters |-> Read \cup {g}] ELSE P[i]
        OBVIOUS
      <3>1. CASE i = n
        <4>1. ~(i <= Len(rule.actions))
          BY <1>3, <3>1
        <4> QED BY <1>3, <2>1, <3>1, <4>1
      <3>2. CASE i # n
        <4>1. i <= Len(rule.actions)
          BY <1>3, <3>2
        <4> QED BY <2>1, <2>2, <3>2, <4>1
      <3> QED BY <3>1, <3>2
    <2>4. Q = [i \in DOMAIN Q |-> Q[i]]
      BY <1>11 DEF Pieces
    <2> QED BY <1>12, <2>3, <2>4
  <1>14. Reflects(rule, P) /\ Pushed(rule.actions, P)
    BY <1>1, <1>10 DEF BuilderInv
  <1>15. PICK c : c = rule'
    OBVIOUS
  <1>16. Reflects(c, Q)
    <2>1. CASE g \in Read /\ rule' = rule
      <3>1. Q = P
        <4>1. P = [i \in DOMAIN P |-> P[i]] /\ P[n] = [putter |-> p, getters |-> Read]
          BY <1>3, <1>9, <1>10 DEF Pieces
        <4> QED BY <1>13, <2>1, <4>1
      <3> QED BY <1>14, <1>15, <2>1, <3>1
    <2>2. CASE /\ g \notin Read /\ g \in LocKinds /\ can_get(def.kind[g]) /\ ~Involved(g, p)
               /\ rule' = AddGetter(g, p)
      <3>1. n \in DOMAIN P /\ p = P[n].putter /\ Read = P[n].getters
        BY <1>9, <1>12
      <3>2. c \in RunRule /\ c = AddGetter(g, p)
        BY <1>6, <1>15, <2>2
      <3> HIDE DEF n, g, p
      <3> QED BY <1>4, <1>13, <1>14, <2>2, <3>1, <3>2, GetterRead, SMTT(30)
    <2> QED BY <1>5, <2>1, <2>2
  <1>17. Pushed(c.actions, Q)
    <2>1. \A i \in DOMAIN rule.actions : i # n
      <3>1. rule.actions \in Seq(RunAction)
        BY <1>4 DEF RunRule
      <3> QED BY <3>1
    <2> SUFFICES ASSUME NEW i \in DOMAIN c.actions
                 PROVE  /\ i \in DOMAIN Q /\ c.actions[i].putter = Q[i].putter
                        /\ c.actions[i].mg \cup c.actions[i].pg = Q[i].getters
      BY DEF Pushed
    <2>2. i \in DOMAIN rule.actions /\ i # n /\ c.actions[i] = rule.actions[i]
      BY <1>6, <1>15, <2>1
    <2>3. /\ i \in DOMAIN P /\ rule.actions[i].putter = P[i].putter
          /\ rule.actions[i].mg \cup rule.actions[i].pg = P[i].getters
      BY <1>14, <2>2 DEF Pushed
    <2>4. i \in DOMAIN Q /\ Q[i] = P[i]
      BY <1>12, <1>13, <2>2, <2>3
    <2> QED BY <2>2, <2>3, <2>4
  <1>18. Position'
    <2>1. read + 1 \in 0 .. Len(Action.getters)
      <3>1. Action.getters \in Seq(Nat)
        BY <1>3
      <3>2. Len(Action.getters) \in Nat
        BY <3>1
      <3> QED BY <1>1, <3>2
    <2>2. def' \in Defs /\ rules' \in Seq(RunRule') /\ rule' \in RunRule' /\ InitCells' = {}
      BY <1>1, <1>2, <1>4, <1>6, SameDef DEF Position
    <2>3. Len(rule'.actions) < Len(Current') /\ read' \in 0 .. Len(Action'.getters)
      BY <1>1, <1>2, <1>6, <1>7, <2>1
    <2>4. Len(rules') < Len(def'.rules) /\ stage' = "getters" /\ result' = "None"
      BY <1>1, <1>2
    <2>5. Len(rules') \in Nat /\ Len(def'.rules) \in Nat /\ Len(rule'.actions) \in Nat /\ Len(Current') \in Nat
      <3>1. def.rules \in Seq(Seq([putter : Nat, getters : Seq(Nat)])) /\ Len(def.rules) \in Nat
        BY <1>4, DefTypes
      <3>2. rules \in Seq(RunRule) /\ Len(rules) \in Nat
        BY <1>1 DEF Position
      <3>3. Len(Current) \in Nat
        BY <1>3
      <3> QED BY <1>2, <1>3, <1>6, <1>7, <3>1, <3>2, <3>3
    <2> QED BY <2>2, <2>3, <2>4, <2>5 DEF Position
  <1> QED BY <1>2, <1>11, <1>15, <1>16, <1>17, <1>18, CurrentNext, DoneStay DEF BuilderInv

LEMMA PushActionBuilder ==
    ASSUME BuilderInv, PushAction
    PROVE  BuilderInv'
  <1> DEFINE n == Len(rule.actions) + 1
             gs == Getters(Action)
             a == [putter |-> Action.putter,
                   mg |-> {g \in gs : is_mem(def.kind[g])}, pg |-> {g \in gs : ~is_mem(def.kind[g])}]
  <1>1. /\ Position /\ stage = "getters" /\ result = "None"
        /\ Len(rules) < Len(def.rules) /\ Len(rule.actions) < Len(Current)
        /\ read = Len(Action.getters)
    BY DEF BuilderInv, Position, PushAction
  <1>2. UNCHANGED <<def, init_mems, rules, read, result>> /\ stage' = "putter"
    BY DEF PushAction
  <1>3. rule' = [rule EXCEPT !.actions = Append(@, a)]
    BY DEF PushAction, Getters
  <1>4. /\ Current \in Seq([putter : Nat, getters : Seq(Nat)]) /\ Len(rule.actions) \in Nat
        /\ Action \in [putter : Nat, getters : Seq(Nat)] /\ Action = Current[n]
    BY <1>1, InRule
  <1>5. rule \in RunRule /\ def \in Defs /\ InitCells = {}
    BY <1>1 DEF Position
  <1>6. Read = gs
    <2>1. DOMAIN Action.getters = 1 .. read
      BY <1>1, <1>4
    <2> QED BY <2>1 DEF Read, Getters
  <1>7. Begun = 1 .. n /\ n \in 1 .. n
    BY <1>1, <1>4 DEF Begun
  <1>8. PICK P : P = Pieces
    OBVIOUS
  <1>9. /\ DOMAIN P = 1 .. n /\ P[n] = [putter |-> Action.putter, getters |-> gs]
        /\ \A i \in 1 .. n : P[i] = [putter |-> Current[i].putter, getters |-> Getters(Current[i])]
    BY <1>4, <1>6, <1>7, <1>8 DEF Pieces
  <1>10. Reflects(rule, P) /\ Pushed(rule.actions, P)
    BY <1>1, <1>8 DEF BuilderInv
  <1>11. Action.putter \in LocKinds /\ \A g \in gs : g \in LocKinds
    <2>1. P[n] \in D!ActionDef
      BY <1>7, <1>9, <1>10 DEF Reflects
    <2> HIDE DEF gs
    <2> QED BY <1>5, <1>9, <2>1, ActionKinds
  <1>12. a \in RunAction /\ a.putter = Action.putter /\ a.mg \cup a.pg = gs
    BY <1>11 DEF RunAction
  <1> HIDE DEF a
  <1>13. rule.actions \in Seq(RunAction)
    BY <1>5 DEF RunRule
  <1>14. /\ Append(rule.actions, a) \in Seq(RunAction) /\ Len(Append(rule.actions, a)) = n
         /\ Append(rule.actions, a)[n] = a
         /\ \A i \in 1 .. n - 1 : Append(rule.actions, a)[i] = rule.actions[i]
    BY <1>12, <1>13, AppendProperties
  <1>15. rule' \in RunRule /\ rule'.actions = Append(rule.actions, a)
    BY <1>3, <1>5, <1>14 DEF RunRule
  <1>16. /\ rule'.guard_ready = rule.guard_ready /\ rule'.guard_full = rule.guard_full
         /\ rule'.assign_vals = rule.assign_vals /\ rule'.assign_mask = rule.assign_mask
    BY <1>3, <1>5 DEF RunRule
  <1>17. Current' = Current /\ Len(rule'.actions) = n
    BY <1>2, <1>14, <1>15 DEF Current
  <1>18. Begun' = 1 .. n
    BY <1>2, <1>17, <1>4 DEF Begun
  <1>19. PICK Q : Q = Pieces'
    OBVIOUS
  <1>20. Q = P
    <2>1. DOMAIN Q = 1 .. n /\ Q = [i \in DOMAIN Q |-> Q[i]]
      BY <1>18, <1>19 DEF Pieces
    <2>2. \A i \in 1 .. n : i <= n
      BY <1>4
    <2>3. \A i \in 1 .. n : Q[i] = [putter |-> Current[i].putter, getters |-> Getters(Current[i])]
      BY <1>17, <1>18, <1>19, <2>2 DEF Pieces
    <2>4. P = [i \in DOMAIN P |-> P[i]]
      BY <1>8 DEF Pieces
    <2> QED BY <1>9, <2>1, <2>3, <2>4
  <1>21. PICK c : c = rule'
    OBVIOUS
  <1>22. Reflects(c, Q)
    BY <1>10, <1>16, <1>20, <1>21 DEF Reflects
  <1>23. Pushed(c.actions, Q)
    <2> SUFFICES ASSUME NEW i \in DOMAIN c.actions
                 PROVE  /\ i \in DOMAIN Q /\ c.actions[i].putter = Q[i].putter
                        /\ c.actions[i].mg \cup c.actions[i].pg = Q[i].getters
      BY DEF Pushed
    <2>1. DOMAIN c.actions = 1 .. n
      BY <1>14, <1>15, <1>21
    <2>2. CASE i = n
      BY <1>7, <1>9, <1>12, <1>14, <1>15, <1>20, <1>21, <2>2
    <2>3. CASE i # n
      <3>1. i \in 1 .. n - 1
        BY <1>4, <2>1, <2>3
      <3>2. DOMAIN rule.actions = 1 .. n - 1
        BY <1>4, <1>13
      <3> HIDE DEF n
      <3> QED BY <1>10, <1>14, <1>15, <1>20, <1>21, <3>1, <3>2 DEF Pushed
    <2> QED BY <2>2, <2>3
  <1>24. Position'
    <2>1. n <= Len(Current)
      <3>1. Len(Current) \in Nat
        BY <1>4
      <3> QED BY <1>1, <1>4, <3>1
    <2> QED BY <1>1, <1>2, <1>15, <1>17, <2>1, SameDef DEF Position
  <1> QED BY <1>2, <1>19, <1>21, <1>22, <1>23, <1>24, CurrentNext, DoneStay DEF BuilderInv

LEMMA PushRuleBuilder ==
    ASSUME BuilderInv, PushRule
    PROVE  BuilderInv'
  <1> DEFINE k == Len(rules) + 1
  <1>1. /\ Position /\ stage = "putter" /\ result = "None"
        /\ Len(rules) < Len(def.rules) /\ Len(rule.actions) = Len(Current)
    BY DEF BuilderInv, Position, PushRule
  <1>2. /\ UNCHANGED <<def, stage, init_mems, read, result>>
        /\ rules' = Append(rules, rule) /\ rule' = NewRule
    BY DEF PushRule
  <1>3. /\ Current \in Seq([putter : Nat, getters : Seq(Nat)]) /\ Len(rule.actions) \in Nat
        /\ k \in DOMAIN def.rules /\ Current = def.rules[k]
    BY <1>1, InRule
  <1>4. rule \in RunRule /\ rules \in Seq(RunRule) /\ def \in Defs
    BY <1>1 DEF Position
  <1>5. /\ rules' \in Seq(RunRule) /\ Len(rules') = k /\ rules'[k] = rule
        /\ \A r \in 1 .. k - 1 : rules'[r] = rules[r]
        /\ DOMAIN rules' = 1 .. k /\ DOMAIN rules = 1 .. k - 1
    BY <1>2, <1>4, AppendProperties, LenProperties
  <1>6. Pieces = Whole(k)
    <2>1. Begun = DOMAIN Current
      BY <1>1, <1>3 DEF Begun
    <2>2. \A i \in Begun : i <= Len(rule.actions)
      BY <1>1, <1>3, <2>1
    <2> QED BY <1>3, <2>1, <2>2 DEF Pieces, Whole
  <1>7. PICK Q : Q = Whole(k)
    OBVIOUS
  <1>8. PICK c : c = rule
    OBVIOUS
  <1>9. Reflects(c, Q) /\ Pushed(c.actions, Q) /\ Len(c.actions) = Len(def.rules[k])
    BY <1>1, <1>3, <1>6, <1>7, <1>8 DEF BuilderInv
  <1>10. ASSUME NEW r \in DOMAIN rules'
         PROVE  /\ Reflects(rules[r], Whole(r))'
                /\ Pushed(rules[r].actions, Whole(r))'
                /\ Len(rules'[r].actions) = Len(def'.rules[r])
    <2>1. CASE r = k
      BY <1>2, <1>5, <1>7, <1>8, <1>9, <2>1, DoneNext
    <2>2. CASE r # k
      <3>1. PICK d : d = rules[r]
        OBVIOUS
      <3>2. PICK R : R = Whole(r)
        OBVIOUS
      <3>3. r \in DOMAIN rules /\ d = rules'[r]
        BY <1>5, <2>2, <3>1, LenProperties, <1>4
      <3>4. Reflects(d, R) /\ Pushed(d.actions, R) /\ Len(d.actions) = Len(def.rules[r])
        BY <3>1, <3>2, <3>3 DEF BuilderInv
      <3> QED BY <1>2, <3>2, <3>3, <3>4, DoneNext
    <2> QED BY <2>1, <2>2
  <1>11. rule' \in RunRule /\ Len(rule'.actions) = 0 /\ DOMAIN rule'.actions = {}
    BY <1>2 DEF NewRule, RunRule
  <1>12. Begun' = {} /\ DOMAIN Pieces' = {}
    BY <1>1, <1>2, <1>11 DEF Begun, Pieces
  <1>13. Reflects(rule, Pieces)' /\ Pushed(rule.actions, Pieces)'
    <2>1. PICK b : b = rule'
      OBVIOUS
    <2>2. PICK P : P = Pieces'
      OBVIOUS
    <2>3. Reflects(b, P) /\ Pushed(b.actions, P)
      BY <1>2, <1>11, <1>12, <2>1, <2>2 DEF Reflects, Pushed, NewRule
    <2> QED BY <1>2, <2>1, <2>2, <2>3, CurrentNext
  <1>14. Position'
    <2>1. def.rules \in Seq(Seq([putter : Nat, getters : Seq(Nat)]))
      BY <1>4, DefTypes
    <2>2. Len(rules') <= Len(def'.rules)
      BY <1>1, <1>2, <1>4, <1>5, <2>1
    <2>3. Len(rules') < Len(def'.rules) => Len(rule'.actions) <= Len(Current')
      <3> SUFFICES ASSUME Len(rules') < Len(def.rules)
                   PROVE  0 <= Len(Current')
        BY <1>2, <1>11
      <3>1. Len(rules') + 1 \in DOMAIN def.rules /\ Current' = def.rules[Len(rules') + 1]
        BY <1>2, <1>5, <1>4, <2>1 DEF Current
      <3>2. Current' \in Seq([putter : Nat, getters : Seq(Nat)])
        BY <2>1, <3>1, ElementOfSeq
      <3> QED BY <3>2
    <2> QED BY <1>1, <1>2, <1>5, <1>11, <2>2, <2>3, SameDef DEF Position
  <1> QED BY <1>10, <1>13, <1>14 DEF BuilderInv

LEMMA NextBuilder == BuilderInv /\ [BNext]_bvars => BuilderInv'
  <1> SUFFICES ASSUME BuilderInv, [BNext]_bvars PROVE BuilderInv'
    OBVIOUS
  <1> USE DEF Fail
  <1>1. ASSUME NEW l \in LocKinds, FillMemory(l) PROVE BuilderInv'
    BY <1>1, StayBuilder DEF FillMemory
  <1>2. CASE Finish
    BY <1>2, StayBuilder DEF Finish
  <1>3. CASE ReadPutter
    <2>1. CASE result' = result
      BY <1>3, <2>1, ReadPutterBuilder
    <2>2. CASE result' # result
      <3>1. UNCHANGED <<def, stage, init_mems, rules, rule, read>> /\ result' # "Ok"
        BY <1>3, <2>2 DEF ReadPutter
      <3> QED BY <3>1, StayBuilder
    <2> QED BY <2>1, <2>2
  <1>4. CASE ReadGetter
    <2>1. CASE result' = result
      BY <1>4, <2>1, ReadGetterBuilder
    <2>2. CASE result' # result
      <3>1. UNCHANGED <<def, stage, init_mems, rules, rule, read>> /\ result' # "Ok"
        BY <1>4, <2>2 DEF ReadGetter
      <3> QED BY <3>1, StayBuilder
    <2> QED BY <2>1, <2>2
  <1>5. CASE PushAction
    BY <1>5, PushActionBuilder
  <1>6. CASE PushRule
    BY <1>6, PushRuleBuilder
  <1>7. CASE BuildDone
    BY <1>7, StayBuilder DEF BuildDone
  <1>8. CASE UNCHANGED bvars
    BY <1>8, StayBuilder DEF bvars, BuilderInv, Position
  <1> QED BY <1>1, <1>2, <1>3, <1>4, <1>5, <1>6, <1>7, <1>8 DEF BNext

LEMMA BuilderThroughout == BSpec => []BuilderInv
  BY InitBuilder, NextBuilder, PTL DEF BSpec

-----------------------------------------------------------------------------
\* The definition as ProtoDef has it.
LEMMA ActionsWhole ==
    ASSUME NEW r \in DOMAIN def.rules
    PROVE  /\ DOMAIN Whole(r) = DOMAIN def.rules[r]
           /\ D!Actions(r) = {Whole(r)[i] : i \in DOMAIN Whole(r)}
           /\ \A i \in DOMAIN Whole(r) : Whole(r)[i] =
                [putter |-> def.rules[r][i].putter, getters |-> Getters(def.rules[r][i])]
           /\ D!SynchronousFiring(r) <=>
                \E i, j \in DOMAIN Whole(r) : i # j /\ Part(Whole(r)[i]) \cap Part(Whole(r)[j]) # {}
  <1>1. DOMAIN Whole(r) = DOMAIN def.rules[r]
    BY DEF Whole
  <1>2. \A i \in DOMAIN Whole(r) : Whole(r)[i] =
            [putter |-> def.rules[r][i].putter, getters |-> Getters(def.rules[r][i])]
    BY DEF Whole
  <1>3. D!Actions(r) = {Whole(r)[i] : i \in DOMAIN Whole(r)}
    BY <1>1 DEF D!Actions, Whole, Getters
  <1>4. D!SynchronousFiring(r) <=>
            \E i, j \in DOMAIN Whole(r) : i # j /\ Part(Whole(r)[i]) \cap Part(Whole(r)[j]) # {}
    <2>1. D!SynchronousFiring(r) <=>
            \E i, j \in DOMAIN def.rules[r] : i # j /\
                ({def.rules[r][i].putter} \cup Getters(def.rules[r][i]))
                    \cap ({def.rules[r][j].putter} \cup Getters(def.rules[r][j])) # {}
      <3> DEFINE acts(q) == [i \in DOMAIN def.rules[q] |->
                                [putter |-> def.rules[q][i].putter,
                                 getters |-> {def.rules[q][i].getters[j] :
                                                j \in DOMAIN def.rules[q][i].getters}]]
                 R == [q \in DOMAIN def.rules |->
                        [guard |-> [op |-> "True", atoms |-> {}], actions |-> acts(q)]]
      <3>1. D!SynchronousFiring(r) <=>
                \E i, j \in DOMAIN R[r].actions :
                    /\ i # j
                    /\ ({R[r].actions[i].putter} \cup R[r].actions[i].getters)
                            \cap ({R[r].actions[j].putter} \cup R[r].actions[j].getters) # {}
        BY DEF D!SynchronousFiring
      <3>2. R[r].actions = acts(r)
        OBVIOUS
      <3>3. /\ DOMAIN acts(r) = DOMAIN def.rules[r]
            /\ \A i \in DOMAIN def.rules[r] : /\ acts(r)[i].putter = def.rules[r][i].putter
                                              /\ acts(r)[i].getters = Getters(def.rules[r][i])
        BY DEF Getters
      <3> HIDE DEF R, acts
      <3> QED BY <3>1, <3>2, <3>3
    <2>2. \A i \in DOMAIN Whole(r) :
            Part(Whole(r)[i]) = {def.rules[r][i].putter} \cup Getters(def.rules[r][i])
      BY <1>2 DEF Part
    <2> QED BY <1>1, <2>1, <2>2
  <1> QED BY <1>1, <1>2, <1>3, <1>4

(***************************************************************************)
(* What build_rules accepts is what ProtoDef says of the definition: the   *)
(* bitsets of each rule, changed back and forth as its actions and getters *)
(* are read in whatever order, are in the end those of the rule, its       *)
(* actions are all there, and no location takes part in two of them.       *)
(***************************************************************************)
THEOREM RulesAreBuiltAsDefined == BSpec => []BuiltAsDefined
  <1>1. ASSUME BuilderInv PROVE BuiltAsDefined
    <2> SUFFICES ASSUME result = "Ok", NEW r \in DOMAIN def.rules
                 PROVE  /\ D!Actions(r) \subseteq D!ActionDef /\ ~D!SynchronousFiring(r)
                        /\ rules[r].guard_ready = D!guard_ready(r)
                        /\ rules[r].guard_full = D!guard_full(r)
                        /\ rules[r].assign_vals = D!assign_vals(r)
                        /\ rules[r].assign_mask = D!assign_mask(r)
                        /\ {[putter |-> a.putter, getters |-> a.mg \cup a.pg] :
                              a \in {rules[r].actions[i] : i \in DOMAIN rules[r].actions}} = D!Actions(r)
      BY DEF BuiltAsDefined
    <2>1. /\ def \in Defs /\ InitCells = {} /\ rules \in Seq(RunRule) /\ Len(rules) = Len(def.rules)
      BY <1>1 DEF BuilderInv, Position
    <2>2. def.rules \in Seq(Seq([putter : Nat, getters : Seq(Nat)]))
      BY <2>1, DefTypes
    <2>3. r \in DOMAIN rules /\ rules[r] \in RunRule
      BY <2>1, <2>2, LenProperties, ElementOfSeq
    <2>4. PICK P : P = Whole(r)
      OBVIOUS
    <2>5. PICK b : b = rules[r]
      OBVIOUS
    <2>6. Reflects(b, P) /\ Pushed(b.actions, P) /\ Len(b.actions) = Len(def.rules[r])
      BY <1>1, <2>3, <2>4, <2>5 DEF BuilderInv
    <2>7. /\ D!Actions(r) = {P[i] : i \in DOMAIN P} /\ DOMAIN P = DOMAIN def.rules[r]
          /\ D!SynchronousFiring(r) <=>
                \E i, j \in DOMAIN P : i # j /\ Part(P[i]) \cap Part(P[j]) # {}
          /\ \A i \in DOMAIN P : P[i] = [putter |-> P[i].putter, getters |-> P[i].getters]
      BY <2>4, ActionsWhole
    <2>8. D!Actions(r) \subseteq D!ActionDef /\ ~D!SynchronousFiring(r)
      <3>1. \A i \in DOMAIN P : P[i] \in D!ActionDef
        BY <2>6 DEF Reflects
      <3>2. \A i, j \in DOMAIN P : i # j => Part(P[i]) \cap Part(P[j]) = {}
        BY <2>6 DEF Reflects
      <3> QED BY <2>7, <3>1, <3>2
    <2>9. /\ b.guard_ready \subseteq LocKinds /\ b.guard_full \subseteq LocKinds
          /\ b.assign_vals \subseteq LocKinds /\ b.assign_mask \subseteq LocKinds
          /\ b.actions \in Seq(RunAction)
      BY <2>3, <2>5 DEF RunRule
    <2>10. /\ \A i \in DOMAIN P : P[i].putter \in LocKinds /\ P[i].getters \subseteq LocKinds
           /\ \A l \in LocKinds : l \in Of("MemUninitialized") <=> is_mem(def.kind[l])
      <3>1. \A i \in DOMAIN P : [putter |-> P[i].putter, getters |-> P[i].getters] \in D!ActionDef
        BY <2>6, <2>7 DEF Reflects
      <3> QED BY <2>1, <3>1, ActionKinds, Kinds
    <2>11. b.guard_ready = D!guard_ready(r)
      <3>1. \A l : l \in D!guard_ready(r) <=> \E i \in DOMAIN P : l \in Part(P[i])
        BY <2>7 DEF D!guard_ready, Part
      <3>2. \A i \in DOMAIN P : Part(P[i]) \subseteq LocKinds
        BY <2>10 DEF Part
      <3> QED BY <2>6, <2>9, <3>1, <3>2 DEF Reflects
    <2>12. b.guard_full = D!guard_full(r)
      <3>1. \A l : l \in D!guard_full(r) <=> \E i \in DOMAIN P : l = P[i].putter /\ l \in Of("MemUninitialized")
        BY <2>7 DEF D!guard_full
      <3>2. \A l \in LocKinds :
                l \in b.guard_full <=> is_mem(def.kind[l]) /\ \E i \in DOMAIN P : l = P[i].putter
        BY <2>6 DEF Reflects
      <3>3. ASSUME NEW l PROVE l \in b.guard_full <=> l \in D!guard_full(r)
        BY <2>9, <2>10, <3>1, <3>2
      <3> QED BY <3>3
    <2>13. b.assign_vals = D!assign_vals(r)
      <3>1. \A l : l \in D!assign_vals(r) <=>
                \E i \in DOMAIN P : l \in P[i].getters /\ l \in Of("MemUninitialized") /\ l # P[i].putter
        BY <2>7 DEF D!assign_vals, D!mg
      <3>2. \A l \in LocKinds : l \in b.assign_vals <=>
                is_mem(def.kind[l]) /\ \E i \in DOMAIN P : l \in P[i].getters /\ l # P[i].putter
        BY <2>6 DEF Reflects
      <3>3. ASSUME NEW l PROVE l \in b.assign_vals <=> l \in D!assign_vals(r)
        BY <2>9, <2>10, <3>1, <3>2
      <3> QED BY <3>3
    <2>14. b.assign_mask = D!assign_mask(r)
      <3>1. \A l : l \in D!assign_mask(r) <=>
                \/ l \in D!assign_vals(r)
                \/ \E i \in DOMAIN P : l = P[i].putter /\ l \in Of("MemUninitialized") /\ l \notin P[i].getters
        BY <2>7 DEF D!assign_mask, D!SelfPut
      <3>2. \A l \in LocKinds : l \in b.assign_mask <=>
                is_mem(def.kind[l]) /\ \E i \in DOMAIN P : l \in P[i].getters <=> l # P[i].putter
        BY <2>6 DEF Reflects
      <3>3. \A l : l \in D!assign_vals(r) <=>
                \E i \in DOMAIN P : l \in P[i].getters /\ l \in Of("MemUninitialized") /\ l # P[i].putter
        BY <2>7 DEF D!assign_vals, D!mg
      <3>4. ASSUME NEW l \in LocKinds PROVE l \in b.assign_mask <=> l \in D!assign_mask(r)
        BY <2>10, <3>1, <3>2, <3>3
      <3>5. ASSUME NEW l, l \in D!assign_mask(r) PROVE l \in LocKinds
        BY <2>10, <3>1, <3>3, <3>5
      <3> QED BY <2>9, <3>4, <3>5
    <2>15. {[putter |-> a.putter, getters |-> a.mg \cup a.pg] :
                a \in {b.actions[i] : i \in DOMAIN b.actions}} = D!Actions(r)
      <3>1. DOMAIN b.actions = DOMAIN P
        <4>1. def.rules[r] \in Seq([putter : Nat, getters : Seq(Nat)])
          BY <2>2, ElementOfSeq, LenProperties
        <4> QED BY <2>6, <2>7, <2>9, <4>1, LenProperties
      <3>2. \A i \in DOMAIN P :
                [putter |-> b.actions[i].putter, getters |-> b.actions[i].mg \cup b.actions[i].pg] = P[i]
        BY <2>6, <2>7, <3>1 DEF Pushed
      <3>3. ASSUME NEW x
            PROVE  x \in {[putter |-> a.putter, getters |-> a.mg \cup a.pg] :
                            a \in {b.actions[i] : i \in DOMAIN b.actions}}
                   <=> \E i \in DOMAIN P : x = P[i]
        <4>1. x \in {[putter |-> a.putter, getters |-> a.mg \cup a.pg] :
                            a \in {b.actions[i] : i \in DOMAIN b.actions}}
              <=> \E i \in DOMAIN b.actions : x = [putter |-> b.actions[i].putter,
                                              getters |-> b.actions[i].mg \cup b.actions[i].pg]
          OBVIOUS
        <4> QED BY <3>1, <3>2, <4>1
      <3> QED BY <2>7, <3>3
    <2> QED BY <2>5, <2>8, <2>11, <2>12, <2>13, <2>14, <2>15
  <1> QED BY <1>1, BuilderThroughout, PTL

-----------------------------------------------------------------------------
LEMMA AdmissibleStays == ASSUME def' = def PROVE Admissible' <=> Admissible
  <1>1. \A r : D!Actions(r)' = D!Actions(r)
    BY DEF D!Actions
  <1>2. \A r : D!SynchronousFiring(r)' <=> D!SynchronousFiring(r)
    BY DEF D!SynchronousFiring
  <1>3. Uninformed' = Uninformed
    BY DEF Uninformed, LocKinds
  <1> QED BY <1>1, <1>2, <1>3, SameDef DEF Admissible

\* What an admissible definition says of an action that is being read.
LEMMA AdmissibleAction ==
    ASSUME BuilderInv, Admissible, Len(rules) < Len(def.rules), Len(rule.actions) < Len(Current),
           NEW n, n = Len(rule.actions) + 1
    PROVE  /\ Action.putter \in LocKinds /\ can_put(def.kind[Action.putter])
           /\ \A g \in Getters(Action) : /\ g \in LocKinds /\ can_get(def.kind[g])
                                         /\ def.type[g] = def.type[Action.putter]
           /\ \A i \in 1 .. n - 1 : /\ i \in DOMAIN Pieces
                                    /\ Part(Pieces[i]) \cap ({Action.putter} \cup Getters(Action)) = {}
           /\ \A l \in LocKinds : l \in rule.guard_ready => \E i \in DOMAIN Pieces : l \in Part(Pieces[i])
  <1>1. Position /\ def \in Defs /\ InitCells = {}
    BY DEF BuilderInv, Position, Admissible
  <1>2. PICK k : k = Len(rules) + 1
    OBVIOUS
  <1>3. /\ k \in DOMAIN def.rules /\ Current = def.rules[k]
        /\ Current \in Seq([putter : Nat, getters : Seq(Nat)])
        /\ Len(rule.actions) \in Nat /\ Action = Current[n]
    BY <1>1, <1>2, InRule
  <1>4. PICK W : W = Whole(k)
    OBVIOUS
  <1>5. /\ DOMAIN W = DOMAIN Current
        /\ \A i \in DOMAIN W : W[i] = [putter |-> Current[i].putter, getters |-> Getters(Current[i])]
        /\ D!Actions(k) = {W[i] : i \in DOMAIN W}
        /\ D!SynchronousFiring(k) <=>
                \E i, j \in DOMAIN W : i # j /\ Part(W[i]) \cap Part(W[j]) # {}
    BY <1>3, <1>4, ActionsWhole
  <1>6. n \in DOMAIN W /\ \A i \in 1 .. n - 1 : i \in DOMAIN W /\ i # n /\ i <= Len(rule.actions)
    <2>1. DOMAIN Current = 1 .. Len(Current) /\ Len(Current) \in Nat
      BY <1>3, LenProperties
    <2>2. n \in 1 .. Len(Current)
      BY <1>3, <2>1, SMTT(30)
    <2>3. \A i \in 1 .. n - 1 : i \in 1 .. Len(Current) /\ i # n /\ i <= Len(rule.actions)
      BY <2>1, <2>2, <1>3, SMTT(30)
    <2> QED BY <1>5, <2>1, <2>2, <2>3
  <1>7. /\ D!Actions(k) \subseteq D!ActionDef /\ ~D!SynchronousFiring(k)
        /\ \A a \in D!Actions(k) : \A g \in a.getters : def.type[g] = def.type[a.putter]
    BY <1>3 DEF Admissible
  <1>8. W[n] = [putter |-> Action.putter, getters |-> Getters(Action)]
    BY <1>3, <1>5, <1>6
  <1>9. /\ Action.putter \in LocKinds /\ can_put(def.kind[Action.putter])
        /\ \A g \in Getters(Action) : g \in LocKinds /\ can_get(def.kind[g])
    <2>1. [putter |-> Action.putter, getters |-> Getters(Action)] \in D!ActionDef
      BY <1>5, <1>6, <1>7, <1>8
    <2>2. PICK p : p = Action.putter
      OBVIOUS
    <2>3. PICK G : G = Getters(Action)
      OBVIOUS
    <2> QED BY <1>1, <2>1, <2>2, <2>3, ActionKinds
  <1>10. \A g \in Getters(Action) : def.type[g] = def.type[Action.putter]
    <2>1. W[n] \in D!Actions(k)
      BY <1>5, <1>6
    <2> QED BY <1>7, <1>8, <2>1
  <1>11. \A i \in 1 .. n - 1 : i \in DOMAIN Pieces /\ Part(Pieces[i]) = Part(W[i])
    <2> SUFFICES ASSUME NEW i \in 1 .. n - 1
                 PROVE  i \in DOMAIN Pieces /\ Part(Pieces[i]) = Part(W[i])
      OBVIOUS
    <2>1. i \in Begun
      <3>1. CASE stage = "getters"
        BY <1>3, <3>1 DEF Begun
      <3>2. CASE stage # "getters"
        BY <1>3, <3>2 DEF Begun
      <3> QED BY <3>1, <3>2
    <2>2. Pieces[i] = W[i] /\ i \in DOMAIN Pieces
      BY <1>5, <1>6, <2>1 DEF Pieces
    <2> QED BY <2>2
  <1>12. Part(W[n]) = {Action.putter} \cup Getters(Action)
    BY <1>8 DEF Part
  <1>13. \A i \in 1 .. n - 1 : Part(W[i]) \cap Part(W[n]) = {}
    BY <1>5, <1>6, <1>7
  <1>14. \A l \in LocKinds : l \in rule.guard_ready => \E i \in DOMAIN Pieces : l \in Part(Pieces[i])
    <2>1. PICK P : P = Pieces
      OBVIOUS
    <2>2. PICK b : b = rule
      OBVIOUS
    <2>3. Reflects(b, P)
      BY <2>1, <2>2 DEF BuilderInv
    <2> QED BY <2>1, <2>2, <2>3 DEF Reflects
  <1> QED BY <1>9, <1>10, <1>11, <1>12, <1>13, <1>14

(***************************************************************************)
(* No definition that ProtoDef admits, with types that agree, is refused   *)
(* or ends in a panic, however its actions and getters are ordered: a cell *)
(* that puts to itself and a getter that is named twice are not taken for  *)
(* a collision.                                                            *)
(***************************************************************************)
THEOREM OnlyFaultyIsRefused == BSpec => []RefusedForCause
  <1>1. BInit => RefusedForCause
    BY DEF BInit, RefusedForCause
  <1>2. ASSUME BuilderInv, RefusedForCause, [BNext]_bvars PROVE RefusedForCause'
    <2>1. CASE result' = result /\ def' = def
      BY <1>2, <2>1, AdmissibleStays DEF RefusedForCause
    <2>2. CASE ~(result' = result /\ def' = def)
      <3> SUFFICES ASSUME Admissible, BNext, result' # "Ok" PROVE FALSE
        <4>1. def' = def
          BY <1>2 DEF bvars, BNext, FillMemory, Finish, ReadPutter, ReadGetter, PushAction,
                      PushRule, BuildDone, Fail
        <4> QED BY <1>2, <2>2, <4>1, AdmissibleStays DEF RefusedForCause, bvars
      <3>1. InitCells = {} /\ Uninformed = {}
        BY DEF Admissible
      <3>2. CASE \E l \in LocKinds : FillMemory(l)
        BY <3>1, <3>2 DEF FillMemory
      <3>3. CASE Finish
        BY <2>2, <3>1, <3>3 DEF Finish
      <3>4. CASE ReadPutter
        <4>1. PICK n : n = Len(rule.actions) + 1
          OBVIOUS
        <4>2. Len(rules) < Len(def.rules) /\ Len(rule.actions) < Len(Current) /\ stage = "putter"
          BY <3>4 DEF ReadPutter
        <4>3. Action.putter \in LocKinds /\ can_put(def.kind[Action.putter])
          BY <1>2, <4>1, <4>2, AdmissibleAction
        <4>4. Action.putter \notin rule.guard_ready
          <5>1. DOMAIN Pieces = 1 .. n - 1
            <6>1. Len(rule.actions) \in Nat
              BY <1>2, <4>2, InRule DEF BuilderInv
            <6> QED BY <4>1, <4>2, <6>1 DEF Pieces, Begun
          <5>2. \A i \in DOMAIN Pieces : Action.putter \notin Part(Pieces[i])
            BY <1>2, <4>1, <4>2, <5>1, AdmissibleAction
          <5> QED BY <1>2, <4>1, <4>2, <4>3, <5>2, AdmissibleAction
        <4> QED BY <2>2, <3>4, <4>3, <4>4 DEF ReadPutter
      <3>5. CASE ReadGetter
        <4>1. PICK n : n = Len(rule.actions) + 1
          OBVIOUS
        <4>2. /\ Len(rules) < Len(def.rules) /\ Len(rule.actions) < Len(Current)
              /\ stage = "getters" /\ read \in 0 .. Len(Action.getters)
              /\ read < Len(Action.getters)
          BY <1>2, <3>5 DEF ReadGetter, BuilderInv, Position
        <4>3. PICK g : g = Action.getters[read + 1]
          OBVIOUS
        <4>4. PICK p : p = Action.putter
          OBVIOUS
        <4>5. Position /\ Len(rule.actions) \in Nat /\ Action \in [putter : Nat, getters : Seq(Nat)]
          BY <1>2, <4>2, InRule DEF BuilderInv
        <4>6. g \in Getters(Action)
          <5>1. read + 1 \in DOMAIN Action.getters
            BY <4>2, <4>5
          <5> QED BY <4>3, <5>1 DEF Getters
        <4>7. g \in LocKinds /\ can_get(def.kind[g]) /\ def.type[g] = def.type[p]
          BY <1>2, <4>1, <4>2, <4>4, <4>6, AdmissibleAction
        <4>8. g \in Read \/ ~Involved(g, p)
          <5> SUFFICES ASSUME g \notin Read, g \in rule.guard_ready, g # p PROVE FALSE
            BY DEF Involved
          <5>1. DOMAIN Pieces = 1 .. n
            BY <4>1, <4>2, <4>5 DEF Pieces, Begun
          <5>2. PICK i \in 1 .. n : g \in Part(Pieces[i])
            BY <1>2, <4>1, <4>2, <4>7, <5>1, AdmissibleAction
          <5>3. Part(Pieces[n]) = {p} \cup Read
            <6>1. n \in Begun /\ ~(n <= Len(rule.actions))
              BY <4>1, <4>2, <4>5 DEF Begun
            <6>2. Action = Current[n]
              BY <4>1 DEF Action
            <6> QED BY <4>4, <6>1, <6>2 DEF Pieces, Part
          <5>4. i # n
            BY <5>2, <5>3
          <5>5. i \in 1 .. n - 1
            BY <4>1, <4>5, <5>4
          <5> QED BY <1>2, <4>1, <4>2, <4>6, <5>2, <5>5, AdmissibleAction
        <4> QED BY <2>2, <3>5, <4>3, <4>4, <4>7, <4>8 DEF ReadGetter
      <3>6. CASE PushAction \/ PushRule \/ BuildDone
        BY <2>2, <3>6 DEF PushAction, PushRule, BuildDone
      <3> QED BY <3>2, <3>3, <3>4, <3>5, <3>6 DEF BNext
    <2> QED BY <2>1, <2>2
  <1> QED BY <1>1, <1>2, BuilderThroughout, PTL DEF BSpec

-----------------------------------------------------------------------------
(* Ownership of ports *)

TypeOK ==
    /\ def \in Defs
    /\ ports \in SUBSET PortObject /\ Grouped \in SUBSET PortObject
    /\ maybe_proto \in [Group -> Inst \cup {Nobody}]
    /\ adding \in [Group -> {Nobody} \cup [port : PortObject, want : {"Putter", "Getter"}]]
    /\ alive \in SUBSET Group

\* a port has been taken from the unclaimed ones by whoever has it, and is
\* what the definition says
Taken(p) ==
    /\ p.id \in DOMAIN PortInfos /\ p.id \notin DOMAIN unclaimed_ports[p.inst]
    /\ [role |-> p.role, type |-> p.type] = PortInfos[p.id]

\* what is unclaimed and what is owned make up the ports of an instance
Accounted ==
    /\ result # "Ok" => Owned = {} /\ \A i \in Inst : DOMAIN unclaimed_ports[i] = {}
    /\ \A i \in Inst : \A id \in DOMAIN unclaimed_ports[i] :
          id \in DOMAIN PortInfos /\ unclaimed_ports[i][id] = PortInfos[id]
    /\ \A p \in Owned : Taken(p)
    /\ \A p, q \in Owned : p.inst = q.inst /\ p.id = q.id => p = q
    /\ result = "Ok" => \A i \in Inst : \A id \in DOMAIN PortInfos :
          id \in DOMAIN unclaimed_ports[i] \/ \E p \in Owned : p.inst = i /\ p.id = id

\* an object is in one place; while it is examined its group is its owner
Apart ==
    /\ ports \cap Grouped = {}
    /\ \A g \in Pending : adding[g].port.by = g /\ adding[g].port \notin ports \cup Grouped
    /\ \A p \in Grouped : p.by \in Group

\* the inductive invariant
OwnerInv == TypeOK /\ Accounted /\ Apart /\ unclaimed_ports = [i \in Inst |-> unclaimed_ports[i]]

LEMMA OwnedBy ==
    \A p : p \in Owned <=> p \in ports \/ p \in Grouped \/ \E g \in Pending : p = adding[g].port
  BY DEF Owned, Pending

\* What giving a port back does to what is unclaimed, and what claiming it does.
LEMMA InsertInfo ==
    ASSUME OwnerInv, NEW p \in Owned, unclaimed_ports' = Insert(p)
    PROVE  /\ unclaimed_ports' = [i \in Inst |-> unclaimed_ports'[i]]
           /\ \A i \in Inst \ {p.inst} : unclaimed_ports'[i] = unclaimed_ports[i]
           /\ DOMAIN unclaimed_ports'[p.inst] = DOMAIN unclaimed_ports[p.inst] \cup {p.id}
           /\ \A id \in DOMAIN unclaimed_ports[p.inst] :
                 unclaimed_ports'[p.inst][id] = unclaimed_ports[p.inst][id]
           /\ unclaimed_ports'[p.inst][p.id] = PortInfos[p.id]
  <1>1. p \in PortObject /\ p.inst \in Inst
    BY OwnedBy DEF OwnerInv, TypeOK, Pending, PortObject
  <1>2. p.id \notin DOMAIN unclaimed_ports[p.inst] /\ [role |-> p.role, type |-> p.type] = PortInfos[p.id]
    BY DEF OwnerInv, Accounted, Taken
  <1> DEFINE v == [role |-> p.role, type |-> p.type]
             u == unclaimed_ports[p.inst]
  <1>3. unclaimed_ports' = [unclaimed_ports EXCEPT ![p.inst] =
                                [l \in DOMAIN u \cup {p.id} |-> IF l = p.id THEN v ELSE u[l]]]
    BY DEF Insert
  <1>4. unclaimed_ports = [i \in Inst |-> unclaimed_ports[i]]
    BY DEF OwnerInv
  <1> HIDE DEF v, u
  <1>6. unclaimed_ports'[p.inst] = [l \in DOMAIN u \cup {p.id} |-> IF l = p.id THEN v ELSE u[l]]
    BY <1>1, <1>3, <1>4
  <1>7. unclaimed_ports' = [i \in Inst |-> unclaimed_ports'[i]]
        /\ \A i \in Inst \ {p.inst} : unclaimed_ports'[i] = unclaimed_ports[i]
    BY <1>1, <1>3, <1>4
  <1> QED BY <1>2, <1>6, <1>7 DEF v, u

LEMMA RemoveInfo ==
    ASSUME OwnerInv, NEW i \in Inst, NEW id, unclaimed_ports' = Remove(i, id)
    PROVE  /\ unclaimed_ports' = [j \in Inst |-> unclaimed_ports'[j]]
           /\ \A j \in Inst \ {i} : unclaimed_ports'[j] = unclaimed_ports[j]
           /\ DOMAIN unclaimed_ports'[i] = DOMAIN unclaimed_ports[i] \ {id}
           /\ \A l \in DOMAIN unclaimed_ports'[i] : unclaimed_ports'[i][l] = unclaimed_ports[i][l]
  <1>1. unclaimed_ports = [j \in Inst |-> unclaimed_ports[j]]
    BY DEF OwnerInv
  <1>2. unclaimed_ports'[i] = [l \in DOMAIN unclaimed_ports[i] \ {id} |-> unclaimed_ports[i][l]]
    BY <1>1 DEF Remove
  <1> QED BY <1>1, <1>2 DEF Remove

\* A port that is claimable is the definition's, and nobody has it.
LEMMA Claimed ==
    ASSUME OwnerInv, NEW by \in Client \cup Group, NEW i \in Inst, NEW id, NEW T \in Types, Claimable(i, id, T)
    PROVE  /\ PortOf(by, i, id, T) \in PortObject
           /\ [role |-> PortOf(by, i, id, T).role, type |-> PortOf(by, i, id, T).type] = PortInfos[id]
           /\ id \in DOMAIN PortInfos /\ result = "Ok"
           /\ \A p \in Owned : p.inst # i \/ p.id # id
  <1>1. id \in DOMAIN unclaimed_ports[i] /\ unclaimed_ports[i][id].type = T
    BY DEF Claimable
  <1>2. id \in DOMAIN PortInfos /\ unclaimed_ports[i][id] = PortInfos[id] /\ result = "Ok"
    BY <1>1 DEF OwnerInv, Accounted
  <1>3. \A p \in Owned : p.inst # i \/ p.id # id
    <2> SUFFICES ASSUME NEW p \in Owned, p.inst = i, p.id = id PROVE FALSE
      OBVIOUS
    <2>1. Taken(p)
      BY DEF OwnerInv, Accounted
    <2> QED BY <1>1, <2>1 DEF Taken
  <1>4. id \in LocKinds /\ PortInfos[id] = [role |-> IF def.kind[id] = "PortPutter" THEN "Putter" ELSE "Getter",
                                            type |-> def.type[id]]
    BY <1>2 DEF PortInfos
  <1> DEFINE p == PortOf(by, i, id, T)
  <1>5. p = [by |-> by, inst |-> i, id |-> id, role |-> PortInfos[id].role, type |-> T]
    BY <1>2 DEF PortOf
  <1>6. /\ id \in UNION {DOMAIN d.kind : d \in Defs}
        /\ T \in UNION {{d.type[l] : l \in DOMAIN d.type} : d \in Defs}
    BY <1>4 DEF OwnerInv, TypeOK, LocKinds, Types
  <1>7. p \in PortObject
    BY <1>4, <1>5, <1>6 DEF PortObject
  <1>8. p.role = PortInfos[id].role /\ p.type = PortInfos[id].type
    BY <1>1, <1>2, <1>5
  <1>9. [role |-> p.role, type |-> p.type] = PortInfos[id]
    BY <1>4, <1>8
  <1> QED BY <1>2, <1>3, <1>7, <1>9

-----------------------------------------------------------------------------
\* Nothing is lost or doubled when a port is claimed ...
LEMMA ClaimAccounts ==
    ASSUME OwnerInv, NEW by \in Client \cup Group, NEW i \in Inst, NEW id, NEW T \in Types,
           Claimable(i, id, T), unclaimed_ports' = Remove(i, id), UNCHANGED <<def, result>>,
           Owned' = Owned \cup {PortOf(by, i, id, T)}
    PROVE  Accounted'
  <1> PICK p : p = PortOf(by, i, id, T)
    OBVIOUS
  <1>1. /\ PortInfos' = PortInfos
        /\ p.inst = i /\ p.id = id
    BY DEF PortInfos, LocKinds, PortOf
  <1>2. /\ [role |-> p.role, type |-> p.type] = PortInfos[id]
        /\ id \in DOMAIN PortInfos /\ result = "Ok"
        /\ \A q \in Owned : q.inst # i \/ q.id # id
    BY Claimed
  <1>3. /\ \A j \in Inst \ {i} : unclaimed_ports'[j] = unclaimed_ports[j]
        /\ DOMAIN unclaimed_ports'[i] = DOMAIN unclaimed_ports[i] \ {id}
        /\ \A l \in DOMAIN unclaimed_ports'[i] : unclaimed_ports'[i][l] = unclaimed_ports[i][l]
    BY RemoveInfo
  <1>4. \A q \in Owned : q.inst \in Inst
    BY OwnedBy DEF OwnerInv, TypeOK, Pending, PortObject
  <1>5. Owned' = Owned \cup {p} /\ result' = "Ok"
    BY <1>2
  <1>6. \A j \in Inst : \A l \in DOMAIN unclaimed_ports'[j] :
            l \in DOMAIN unclaimed_ports[j] /\ unclaimed_ports'[j][l] = unclaimed_ports[j][l]
    BY <1>3
  <1>7. \A q \in Owned' : Taken(q)'
    <2>1. Taken(p)'
      BY <1>1, <1>2, <1>3 DEF Taken
    <2>2. ASSUME NEW q \in Owned PROVE Taken(q)'
      <3>1. Taken(q)
        BY DEF OwnerInv, Accounted
      <3> QED BY <1>1, <1>4, <1>6, <3>1 DEF Taken
    <2> QED BY <1>5, <2>1, <2>2
  <1>8. \A q, r \in Owned' : q.inst = r.inst /\ q.id = r.id => q = r
    <2>1. \A q, r \in Owned : q.inst = r.inst /\ q.id = r.id => q = r
      BY DEF OwnerInv, Accounted
    <2> QED BY <1>1, <1>2, <1>5, <2>1
  <1>9. ASSUME NEW j \in Inst, NEW l \in DOMAIN PortInfos
        PROVE  l \in DOMAIN unclaimed_ports'[j] \/ \E q \in Owned' : q.inst = j /\ q.id = l
    <2>1. l \in DOMAIN unclaimed_ports[j] \/ \E q \in Owned : q.inst = j /\ q.id = l
      BY <1>2 DEF OwnerInv, Accounted
    <2> QED BY <1>1, <1>3, <1>5, <2>1
  <1>10. \A j \in Inst : \A l \in DOMAIN unclaimed_ports[j] :
            l \in DOMAIN PortInfos /\ unclaimed_ports[j][l] = PortInfos[l]
    BY DEF OwnerInv, Accounted
  <1> QED BY <1>1, <1>5, <1>6, <1>7, <1>8, <1>9, <1>10 DEF Accounted

\* ... and when it is given back.
LEMMA ReturnAccounts ==
    ASSUME OwnerInv, NEW p \in Owned, unclaimed_ports' = Insert(p), UNCHANGED <<def, result>>,
           Owned' = Owned \ {p}
    PROVE  Accounted'
  <1>1. PortInfos' = PortInfos
    BY DEF PortInfos, LocKinds
  <1>2. /\ \A j \in Inst \ {p.inst} : unclaimed_ports'[j] = unclaimed_ports[j]
        /\ DOMAIN unclaimed_ports'[p.inst] = DOMAIN unclaimed_ports[p.inst] \cup {p.id}
        /\ \A l \in DOMAIN unclaimed_ports[p.inst] :
              unclaimed_ports'[p.inst][l] = unclaimed_ports[p.inst][l]
        /\ unclaimed_ports'[p.inst][p.id] = PortInfos[p.id]
    BY InsertInfo
  <1>3. \A q \in Owned : q.inst \in Inst
    BY OwnedBy DEF OwnerInv, TypeOK, Pending, PortObject
  <1>4. result = "Ok" /\ p.id \in DOMAIN PortInfos
    BY DEF OwnerInv, Accounted, Taken
  <1>5. \A q, r \in Owned : q.inst = r.inst /\ q.id = r.id => q = r
    BY DEF OwnerInv, Accounted
  <1>6. \A j \in Inst : \A l \in DOMAIN unclaimed_ports[j] :
            l \in DOMAIN PortInfos /\ unclaimed_ports[j][l] = PortInfos[l]
    BY DEF OwnerInv, Accounted
  <1>7. \A j \in Inst : \A l \in DOMAIN unclaimed_ports'[j] :
            l \in DOMAIN PortInfos /\ unclaimed_ports'[j][l] = PortInfos[l]
    BY <1>2, <1>3, <1>4, <1>6
  <1>8. ASSUME NEW q \in Owned' PROVE Taken(q)'
    <2>1. Taken(q) /\ q \in Owned /\ q # p
      BY DEF OwnerInv, Accounted
    <2>2. q.inst # p.inst \/ q.id # p.id
      BY <1>5, <2>1
    <2> QED BY <1>1, <1>2, <1>3, <2>1, <2>2 DEF Taken
  <1>9. ASSUME NEW j \in Inst, NEW l \in DOMAIN PortInfos
        PROVE  l \in DOMAIN unclaimed_ports'[j] \/ \E q \in Owned' : q.inst = j /\ q.id = l
    <2>1. l \in DOMAIN unclaimed_ports[j] \/ \E q \in Owned : q.inst = j /\ q.id = l
      BY <1>4 DEF OwnerInv, Accounted
    <2> QED BY <1>2, <1>3, <2>1
  <1> QED BY <1>1, <1>4, <1>5, <1>7, <1>8, <1>9 DEF Accounted

\* What is unclaimed and what is owned stays so.
LEMMA StayAccounts ==
    ASSUME OwnerInv, UNCHANGED <<def, result>>, Owned' = Owned,
           \A i \in Inst : /\ DOMAIN unclaimed_ports'[i] = DOMAIN unclaimed_ports[i]
                           /\ \A l \in DOMAIN unclaimed_ports[i] :
                                 unclaimed_ports'[i][l] = unclaimed_ports[i][l]
    PROVE  Accounted'
  <1>1. PortInfos' = PortInfos
    BY DEF PortInfos, LocKinds
  <1>2. \A q \in Owned : q.inst \in Inst
    BY OwnedBy DEF OwnerInv, TypeOK, Pending, PortObject
  <1>3. ASSUME NEW q \in Owned' PROVE Taken(q)'
    <2>1. Taken(q)
      BY DEF OwnerInv, Accounted
    <2> QED BY <1>1, <1>2, <2>1 DEF Taken
  <1> QED BY <1>1, <1>3 DEF OwnerInv, Accounted

-----------------------------------------------------------------------------
LEMMA InitOwners == ClaimsInit => OwnerInv
  <1> SUFFICES ASSUME ClaimsInit PROVE OwnerInv
    OBVIOUS
  <1>1. Owned = {} /\ Pending = {}
    BY DEF ClaimsInit, Owned, Pending, Grouped
  <1>2. TypeOK
    BY DEF ClaimsInit, BInit, TypeOK, Grouped
  <1>3. \A i \in Inst : DOMAIN unclaimed_ports[i] = {}
    BY DEF ClaimsInit
  <1>4. result # "Ok"
    BY DEF ClaimsInit, BInit
  <1>5. Accounted
    BY <1>1, <1>3, <1>4 DEF Accounted
  <1> QED BY <1>1, <1>2, <1>5 DEF OwnerInv, Apart, ClaimsInit, Grouped

LEMMA BuildingOwners == ASSUME OwnerInv, Building PROVE OwnerInv'
  <1> USE DEF Building
  <1>1. result = "None" /\ def' = def
    BY DEF BNext, FillMemory, Finish, ReadPutter, ReadGetter, PushAction, PushRule, BuildDone, Fail
  <1>2. Owned = {}
    BY <1>1 DEF OwnerInv, Accounted
  <1>3. Owned' = {} /\ Pending' = Pending /\ Grouped' = Grouped
    BY <1>2 DEF Owned, Pending, Grouped
  <1>4. TypeOK' /\ Apart'
    BY <1>1, <1>3 DEF OwnerInv, TypeOK, Apart
  <1>5. PortInfos' = PortInfos
    BY <1>1 DEF PortInfos, LocKinds
  <1>6. /\ \A i \in Inst : unclaimed_ports'[i] = IF result' = "Ok" THEN PortInfos ELSE <<>>
        /\ unclaimed_ports' = [i \in Inst |-> unclaimed_ports'[i]]
    OBVIOUS
  <1>7. Accounted'
    <2>1. CASE result' = "Ok"
      BY <1>3, <1>5, <1>6, <2>1 DEF Accounted
    <2>2. CASE result' # "Ok"
      <3>1. \A i \in Inst : DOMAIN unclaimed_ports'[i] = {}
        BY <1>6, <2>2
      <3> QED BY <1>3, <2>2, <3>1 DEF Accounted
    <2> QED BY <2>1, <2>2
  <1> QED BY <1>4, <1>6, <1>7 DEF OwnerInv

LEMMA ClaimOwners ==
    ASSUME OwnerInv, NEW c \in Client, NEW i \in Inst, NEW id, NEW T \in Types, Claim(c, i, id, T)
    PROVE  OwnerInv'
  <1> USE DEF Claim
  <1>1. PICK p : p = PortOf(c, i, id, T)
    OBVIOUS
  <1>2. p \in PortObject /\ p \notin Owned
    BY <1>1, Claimed DEF PortOf
  <1>3. Owned' = Owned \cup {p} /\ Pending' = Pending /\ Grouped' = Grouped
    BY <1>1 DEF Owned, Pending, Grouped
  <1>4. Accounted' /\ unclaimed_ports' = [j \in Inst |-> unclaimed_ports'[j]]
    BY <1>1, <1>3, ClaimAccounts, RemoveInfo DEF bvars
  <1>5. TypeOK'
    BY <1>1, <1>2, <1>3 DEF OwnerInv, TypeOK, bvars
  <1>6. Apart'
    BY <1>1, <1>2, <1>3, OwnedBy DEF OwnerInv, Apart
  <1> QED BY <1>4, <1>5, <1>6 DEF OwnerInv

LEMMA DropOwners ==
    ASSUME OwnerInv, NEW p \in ports, Drop(p)
    PROVE  OwnerInv'
  <1> USE DEF Drop
  <1>1. p \in Owned
    BY OwnedBy
  <1>2. p \notin Grouped /\ \A g \in Pending : p # adding[g].port
    BY DEF OwnerInv, Apart
  <1>3. Owned' = Owned \ {p} /\ Pending' = Pending /\ Grouped' = Grouped
    BY <1>2 DEF Owned, Pending, Grouped
  <1>4. Accounted' /\ unclaimed_ports' = [j \in Inst |-> unclaimed_ports'[j]]
    BY <1>1, <1>3, ReturnAccounts, InsertInfo DEF bvars
  <1>5. TypeOK' /\ Apart'
    BY <1>3 DEF OwnerInv, TypeOK, Apart, bvars
  <1> QED BY <1>4, <1>5 DEF OwnerInv

LEMMA GroupClaimOwners ==
    ASSUME OwnerInv, NEW g \in Group, NEW i \in Inst, NEW id, NEW T \in Types,
           NEW want \in {"Putter", "Getter"}, GroupClaim(g, i, id, T, want)
    PROVE  OwnerInv'
  <1> USE DEF GroupClaim
  <1>1. PICK p : p = PortOf(g, i, id, T)
    OBVIOUS
  <1>2. p \in PortObject /\ p \notin Owned /\ p.by = g
    BY <1>1, Claimed DEF PortOf
  <1>3. PICK a : a = [port |-> p, want |-> want]
    OBVIOUS
  <1>4. a \in [port : PortObject, want : {"Putter", "Getter"}] /\ a # Nobody /\ a.port = p
    BY <1>2, <1>3, NobodyAssumption
  <1>5. /\ adding' = [adding EXCEPT ![g] = a] /\ adding'[g] = a
        /\ \A h \in Group \ {g} : adding'[h] = adding[h]
    BY <1>1, <1>3 DEF OwnerInv, TypeOK
  <1>6. Pending' = Pending \cup {g} /\ g \notin Pending /\ Grouped' = Grouped
    BY <1>4, <1>5 DEF Pending, Grouped
  <1>7. Owned' = Owned \cup {p}
    <2>1. ASSUME NEW q PROVE q \in Owned' <=> q \in Owned \/ q = p
      BY <1>4, <1>5, <1>6, OwnedBy DEF Owned, Pending
    <2> QED BY <2>1
  <1>8. Accounted' /\ unclaimed_ports' = [j \in Inst |-> unclaimed_ports'[j]]
    BY <1>1, <1>7, ClaimAccounts, RemoveInfo DEF bvars
  <1>9. TypeOK'
    BY <1>4, <1>5, <1>6 DEF OwnerInv, TypeOK, bvars
  <1>10. Apart'
    <2>1. p \notin ports \cup Grouped
      BY <1>2, OwnedBy
    <2> QED BY <1>2, <1>4, <1>5, <1>6, <2>1 DEF OwnerInv, Apart, Pending
  <1> QED BY <1>8, <1>9, <1>10 DEF OwnerInv

\* What a group has in its hands, and what is left once it has let go of it.
LEMMA PendingPort ==
    ASSUME OwnerInv, NEW g \in Group, adding[g] # Nobody
    PROVE  /\ adding[g].port \in Owned /\ adding[g].port \in PortObject
           /\ adding[g].port.by = g /\ adding[g].port \notin ports \cup Grouped
           /\ \A h \in Pending \ {g} : adding[h].port # adding[g].port
  <1>1. g \in Pending
    BY DEF Pending
  <1> QED BY <1>1, OwnedBy DEF OwnerInv, TypeOK, Apart, Pending

LEMMA GroupAddOwners ==
    ASSUME OwnerInv, NEW g \in Group, GroupAdd(g)
    PROVE  OwnerInv'
  <1> USE DEF GroupAdd
  <1>1. PICK p : p = adding[g].port
    OBVIOUS
  <1>2. /\ p \in Owned /\ p \in PortObject /\ p.by = g /\ p \notin ports \cup Grouped
        /\ \A h \in Pending \ {g} : adding[h].port # p
    BY <1>1, PendingPort
  <1>3. /\ adding'[g] = Nobody
        /\ \A h \in Group \ {g} : adding'[h] = adding[h]
    BY DEF OwnerInv, TypeOK
  <1>4. Pending' = Pending \ {g} /\ g \in Pending /\ Grouped' = Grouped \cup {p}
    BY <1>1, <1>3 DEF Pending, Grouped
  <1>5. Owned' = Owned
    <2>1. ASSUME NEW q PROVE q \in Owned' <=> q \in Owned
      <3>1. q \in Owned' <=> q \in ports \/ q \in Grouped \cup {p} \/ \E h \in Pending' : q = adding'[h].port
        BY <1>4 DEF Owned
      <3> QED BY <1>1, <1>3, <1>4, <3>1, OwnedBy DEF Pending
    <2> QED BY <2>1
  <1>6. Accounted' /\ unclaimed_ports' = [j \in Inst |-> unclaimed_ports'[j]]
    BY <1>5, StayAccounts DEF OwnerInv, bvars
  <1>7. TypeOK'
    BY <1>1, <1>2, <1>4 DEF OwnerInv, TypeOK, PortObject, bvars
  <1>8. Apart'
    BY <1>1, <1>2, <1>3, <1>4 DEF OwnerInv, Apart, Pending
  <1> QED BY <1>6, <1>7, <1>8 DEF OwnerInv

LEMMA GroupRejectOwners ==
    ASSUME OwnerInv, NEW g \in Group, GroupReject(g)
    PROVE  OwnerInv'
  <1> USE DEF GroupReject
  <1>1. PICK p : p = adding[g].port
    OBVIOUS
  <1>2. /\ p \in Owned /\ p \notin ports \cup Grouped
        /\ \A h \in Pending \ {g} : adding[h].port # p
    BY <1>1, PendingPort
  <1>3. /\ adding'[g] = Nobody
        /\ \A h \in Group \ {g} : adding'[h] = adding[h]
    BY DEF OwnerInv, TypeOK
  <1>4. Pending' = Pending \ {g} /\ g \in Pending /\ Grouped' = Grouped
    BY <1>3 DEF Pending, Grouped
  <1>5. Owned' = Owned \ {p}
    <2>1. ASSUME NEW q PROVE q \in Owned' <=> q \in Owned /\ q # p
      <3>1. q \in Owned' <=> q \in ports \/ q \in Grouped \/ \E h \in Pending' : q = adding'[h].port
        BY <1>4 DEF Owned
      <3> QED BY <1>1, <1>2, <1>3, <1>4, <3>1, OwnedBy DEF Pending
    <2> QED BY <2>1
  <1>6. Accounted' /\ unclaimed_ports' = [j \in Inst |-> unclaimed_ports'[j]]
    BY <1>1, <1>2, <1>5, ReturnAccounts, InsertInfo DEF bvars
  <1>7. TypeOK' /\ Apart'
    BY <1>3, <1>4 DEF OwnerInv, TypeOK, Apart, Pending, bvars
  <1> QED BY <1>6, <1>7 DEF OwnerInv

LEMMA DropGroupOwners ==
    ASSUME OwnerInv, NEW g \in Group, DropGroup(g)
    PROVE  OwnerInv'
  <1> USE DEF DropGroup
  <1>1. Owned' = Owned /\ Pending' = Pending /\ Grouped' = Grouped
    BY DEF Owned, Pending, Grouped
  <1>2. \A i \in Inst : unclaimed_ports'[i] =
            [l \in DOMAIN unclaimed_ports[i] |-> unclaimed_ports[i][l]]
    <2> SUFFICES ASSUME NEW i \in Inst
                 PROVE  unclaimed_ports'[i] = [l \in DOMAIN unclaimed_ports[i] |-> unclaimed_ports[i][l]]
      OBVIOUS
    <2>1. {p.id : p \in {q \in member_info(g) : q.inst = i}} = {}
      BY DEF member_info
    <2> QED BY <2>1
  <1>3. unclaimed_ports' = [i \in Inst |-> unclaimed_ports'[i]]
    OBVIOUS
  <1>4. Accounted'
    BY <1>1, <1>2, StayAccounts DEF bvars
  <1>5. TypeOK' /\ Apart'
    BY <1>1 DEF OwnerInv, TypeOK, Apart, bvars
  <1> QED BY <1>3, <1>4, <1>5 DEF OwnerInv

LEMMA NextOwners == OwnerInv /\ [ClaimsNext]_claimsVars => OwnerInv'
  <1> SUFFICES ASSUME OwnerInv, [ClaimsNext]_claimsVars PROVE OwnerInv'
    OBVIOUS
  <1>1. CASE Building
    BY <1>1, BuildingOwners
  <1>2. ASSUME NEW c \in Client, NEW i \in Inst, NEW id \in LocKinds, NEW T \in Types, Claim(c, i, id, T)
        PROVE  OwnerInv'
    BY <1>2, ClaimOwners
  <1>3. ASSUME NEW p \in ports, Drop(p) PROVE OwnerInv'
    BY <1>3, DropOwners
  <1>4. ASSUME NEW g \in Group, NEW i \in Inst, NEW want \in {"Putter", "Getter"},
               NEW id \in LocKinds, NEW T \in Types, GroupClaim(g, i, id, T, want)
        PROVE  OwnerInv'
    BY <1>4, GroupClaimOwners
  <1>5. ASSUME NEW g \in Group, GroupAdd(g) \/ GroupReject(g) \/ DropGroup(g)
        PROVE  OwnerInv'
    BY <1>5, GroupAddOwners, GroupRejectOwners, DropGroupOwners
  <1>6. CASE UNCHANGED claimsVars
    <2>1. Owned' = Owned /\ Pending' = Pending /\ Grouped' = Grouped /\ PortInfos' = PortInfos
      BY <1>6 DEF claimsVars, bvars, cvars, Owned, Pending, Grouped, PortInfos, LocKinds
    <2> QED BY <1>6, <2>1 DEF claimsVars, bvars, cvars, OwnerInv, TypeOK, Accounted, Apart, Taken
  <1> QED BY <1>1, <1>2, <1>3, <1>4, <1>5, <1>6 DEF ClaimsNext

LEMMA OwnersThroughout == ClaimsSpec => []OwnerInv
  BY InitOwners, NextOwners, PTL DEF ClaimsSpec

(***************************************************************************)
(* A port of an instance is unclaimed or has one owner, with the role and  *)
(* the type of its definition: claim takes it and the Drop of a port, or   *)
(* of one that a group refuses, gives it back as it was.                   *)
(***************************************************************************)
THEOREM PortsHaveOneOwner == ClaimsSpec => []OneOwner
  <1>1. ASSUME OwnerInv PROVE OneOwner
    <2> SUFFICES ASSUME result = "Ok", NEW i \in Inst, NEW id \in DOMAIN PortInfos
                 PROVE  LET owners == {p \in Owned : p.inst = i /\ p.id = id}
                        IN  IF id \in DOMAIN unclaimed_ports[i]
                            THEN owners = {} /\ unclaimed_ports[i][id] = PortInfos[id]
                            ELSE \E p \in owners : /\ owners = {p}
                                                   /\ [role |-> p.role, type |-> p.type] = PortInfos[id]
      BY DEF OneOwner
    <2> DEFINE owners == {p \in Owned : p.inst = i /\ p.id = id}
    <2>1. \A p \in owners : /\ p.id = id /\ p.inst = i /\ id \notin DOMAIN unclaimed_ports[i]
                            /\ [role |-> p.role, type |-> p.type] = PortInfos[id]
      <3> SUFFICES ASSUME NEW p \in owners
                   PROVE  /\ p.id = id /\ p.inst = i /\ id \notin DOMAIN unclaimed_ports[i]
                          /\ [role |-> p.role, type |-> p.type] = PortInfos[id]
        OBVIOUS
      <3>1. Taken(p)
        BY <1>1 DEF OwnerInv, Accounted
      <3> QED BY <3>1 DEF Taken
    <2>2. \A p, q \in owners : p = q
      BY <1>1 DEF OwnerInv, Accounted
    <2>3. id \in DOMAIN unclaimed_ports[i] \/ \E p \in owners : TRUE
      BY <1>1 DEF OwnerInv, Accounted
    <2>4. id \in DOMAIN unclaimed_ports[i] => unclaimed_ports[i][id] = PortInfos[id]
      BY <1>1 DEF OwnerInv, Accounted
    <2> HIDE DEF owners
    <2> SUFFICES IF id \in DOMAIN unclaimed_ports[i]
                 THEN owners = {} /\ unclaimed_ports[i][id] = PortInfos[id]
                 ELSE \E p \in owners : /\ owners = {p}
                                        /\ [role |-> p.role, type |-> p.type] = PortInfos[id]
      BY DEF owners
    <2>5. CASE id \in DOMAIN unclaimed_ports[i]
      BY <2>1, <2>4, <2>5
    <2>6. CASE id \notin DOMAIN unclaimed_ports[i]
      BY <2>1, <2>2, <2>3, <2>6
    <2> QED BY <2>5, <2>6
  <1> QED BY <1>1, OwnersThroughout, PTL

(***************************************************************************)
(* The ports of a group have the role they were added with and belong to   *)
(* one instance: the first that is added fixes it, and nothing that        *)
(* happens between the claim of a port and its examination changes that.   *)
(***************************************************************************)
THEOREM GroupsFit == ClaimsSpec => []GroupedFit
  <1>1. ClaimsInit => GroupedFit
    BY DEF ClaimsInit, GroupedFit
  <1>2. ASSUME OwnerInv, GroupedFit, [ClaimsNext]_claimsVars PROVE GroupedFit'
    <2>1. ASSUME NEW g \in Group, GroupAdd(g) PROVE GroupedFit'
      <3>1. PICK x : x = adding[g]
        OBVIOUS
      <3>2. x.port.by = g /\ x.port \in PortObject /\ x.port.inst \in Inst
        BY <1>2, <2>1, <3>1, PendingPort DEF GroupAdd, PortObject
      <3>3. x.port.role = x.want /\ maybe_proto[g] \in {Nobody, x.port.inst}
        BY <2>1, <3>1 DEF GroupAdd, Fits
      <3>4. maybe_proto' = [maybe_proto EXCEPT ![g] = x.port.inst] /\ grouped' = grouped \cup {x}
        BY <2>1, <3>1 DEF GroupAdd
      <3>5. \A y \in grouped : /\ y.port.by \in Group /\ y.port.inst \in Inst
                               /\ y.port.role = y.want /\ maybe_proto[y.port.by] = y.port.inst
        <4> SUFFICES ASSUME NEW y \in grouped
                     PROVE  y.port.by \in Group /\ y.port.inst \in Inst
          BY <1>2 DEF GroupedFit
        <4>1. y.port \in Grouped
          BY DEF Grouped
        <4> QED BY <1>2, <4>1 DEF OwnerInv, Apart, TypeOK, PortObject
      <3>6. maybe_proto \in [Group -> Inst \cup {Nobody}]
        BY <1>2 DEF OwnerInv, TypeOK
      <3>7. Nobody \notin Inst
        BY NobodyAssumption
      <3> QED BY <3>2, <3>3, <3>4, <3>5, <3>6, <3>7 DEF GroupedFit
    <2>2. CASE UNCHANGED <<grouped, maybe_proto>>
      BY <1>2, <2>2 DEF GroupedFit
    <2> QED BY <1>2, <2>1, <2>2
            DEF ClaimsNext, Building, Claim, Drop, GroupClaim, GroupReject, DropGroup, claimsVars, cvars
  <1> QED BY <1>1, <1>2, OwnersThroughout, PTL DEF ClaimsSpec

(***************************************************************************)
(* Claiming ports, dropping them and grouping them leaves the definition   *)
(* and the rules of an instance as the builder left them, so what is built *)
(* is as ProtoDef defines it and what is refused is faulty, at any time.   *)
(***************************************************************************)
THEOREM ClaimsImplementBuilder == ClaimsSpec => BSpec
  <1>1. ClaimsInit => BInit
    BY DEF ClaimsInit
  <1>2. [ClaimsNext]_claimsVars => [BNext]_bvars
    BY DEF ClaimsNext, claimsVars, Building, Claim, Drop, GroupClaim, GroupAdd, GroupReject, DropGroup
  <1> QED BY <1>1, <1>2, PTL DEF ClaimsSpec, BSpec

COROLLARY InstancesAreAsDefined == ClaimsSpec => [](BuiltAsDefined /\ RefusedForCause)
  BY ClaimsImplementBuilder, RulesAreBuiltAsDefined, OnlyFaultyIsRefused, PTL
=============================================================================
