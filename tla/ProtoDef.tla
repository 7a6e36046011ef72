------------------------------ MODULE ProtoDef ------------------------------
(***************************************************************************)
(* The static side of a connector: its locations, and what                 *)
(* ProtoBuilder::build_rules derives from its rule definitions.  Nothing   *)
(* here changes once a ProtoAll has been instantiated.                     *)
(*                                                                         *)
(* The bitsets a rule carries (guard_ready, guard_full, assign_vals,       *)
(* assign_mask) are sets of locations.                                     *)
(***************************************************************************)
EXTENDS Integers, FiniteSets, Sequences

CONSTANTS
    PoPu,     \* port putters  (LocKind::PortPutter)
    PoGe,     \* port getters  (LocKind::PortGetter)
    Memo,     \* memory cells  (LocKind::MemUninitialized)
    Rules     \* BehaviourDef.rules: a sequence of [guard, actions]

Loc   == PoPu \cup PoGe \cup Memo
Port  == PoPu \cup PoGe
Space == PoPu \cup Memo              \* locations with a PutterSpace
RuleId == DOMAIN Rules

(***************************************************************************)
(* Guards.  A formula is an operator over a set of atoms, which is enough  *)
(* for every operator of Formula to be met over every atom.                *)
(***************************************************************************)
Atom == [op : {"MemIsNull"}, loc : Memo] \cup [op : {"ValueEq"}, a : Space, b : Space]
Formula == [op : {"True", "And", "Or", "None"}, atoms : SUBSET Atom]

(***************************************************************************)
(* ActionDef: getters without duplicates (the builder applies .unique()).  *)
(***************************************************************************)
ActionDef == [putter : Space, getters : SUBSET (Memo \cup PoGe)]

\* the getters of an action, split by kind as in RunAction
mg(a) == a.getters \cap Memo
pg(a) == a.getters \cap PoGe

Actions(r) == {Rules[r].actions[i] : i \in DOMAIN Rules[r].actions}

\* A memory cell that puts to itself keeps its value: full before and after.
SelfPut(a) == a.putter \in a.getters

guard_ready(r) == UNION {{a.putter} \cup a.getters : a \in Actions(r)}
guard_full(r)  == {a.putter : a \in {b \in Actions(r) : b.putter \in Memo}}
assign_vals(r) == UNION {mg(a) \ {a.putter} : a \in Actions(r)}
assign_mask(r) == assign_vals(r) \cup {a.putter : a \in {b \in Actions(r) :
                                            b.putter \in Memo /\ ~SelfPut(b)}}

(***************************************************************************)
(* What a definition must satisfy for build_rules to return Ok: no         *)
(* location takes part twice in one firing.                                *)
(***************************************************************************)
SynchronousFiring(r) ==
    \E i, j \in DOMAIN Rules[r].actions :
        /\ i # j
        /\ LET a == Rules[r].actions[i]
               b == Rules[r].actions[j]
           IN ({a.putter} \cup a.getters) \cap ({b.putter} \cup b.getters) # {}

ASSUME LocAssumption ==
    /\ PoPu \cap PoGe = {} /\ PoPu \cap Memo = {} /\ PoGe \cap Memo = {}
    /\ IsFiniteSet(PoPu) /\ IsFiniteSet(PoGe) /\ IsFiniteSet(Memo)

ASSUME RuleAssumption ==
    /\ Rules \in Seq([guard : Formula, actions : Seq(ActionDef)])
    /\ \A r \in RuleId : ~SynchronousFiring(r)
=============================================================================
