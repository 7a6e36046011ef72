------------------------------ MODULE Formulas ------------------------------
(***************************************************************************)
(* The guard of a rule: what the builder does with it, and what it answers *)
(* whenever the bits of the rule are ready.  Evaluation reads through the  *)
(* pointers of putters, in the order in which a formula is written; where  *)
(* there is nothing to be read, or not what is expected, it does not       *)
(* answer.                                                                 *)
(*                                                                         *)
(* A formula is a record of op and what it has below it: args, formulas;   *)
(* loc, a cell; or terms, each the value of a location or the answer of a  *)
(* formula.                                                                *)
(***************************************************************************)
EXTENDS Naturals, SequencesExt

CONSTANTS Space,     \* locations with a PutterSpace
          Memo,      \* cells among them
          Needed,    \* putters of the rule
          TypeOf,    \* their types
          Data,      \* for each type its values; those of "bool" are "T" and "F"
          Comparable,  \* types with an equality, any other has a PartialEqFn(None)
          Promised,  \* functions def_func defines
          Guards

VARIABLES guard, func_defs,
          stage,     \* build, run or panic
          content,   \* the value each pointer leads to, Absent if none to rely on
          answer     \* of eval_formula: T, F, panic or ub; "none" before it is asked

formulaVars == <<guard, func_defs, stage, content, answer>>

Absent == "absent"
Failure == {"panic", "ub"}
Truth(b) == IF b THEN "T" ELSE "F"

-----------------------------------------------------------------------------
(* The builder *)

Below(f) ==
    IF f.op \in {"And", "Or", "None"} THEN f.args
    ELSE IF f.op \in {"ValueEq", "TermVal"}
    THEN LET answers == SelectSeq(f.terms, LAMBDA t : t.of = "Boolean")
         IN  [i \in DOMAIN answers |-> answers[i].formula]
    ELSE <<>>

\* d: the functions defined so far, and how the walk ended, with an Err if one
\* is not promised and a failed assert if one is defined already.  The
\* PromiseFulfilled of a definition is a value of a type that has none: kept
\* says whether the Some around it is seen as one.
define_func(name, d, kept) ==
    IF name \in d.defs THEN [d EXCEPT !.end = "panic"]
    ELSE [defs |-> d.defs \cup {name}, end |-> IF kept THEN "" ELSE "error"]

RECURSIVE define_all_funcs_in(_, _, _)
define_all_funcs_in(f, d, kept) ==
    IF d.end # "" THEN d
    ELSE IF f.op # "Func"
    THEN FoldLeft(LAMBDA acc, x : define_all_funcs_in(x, acc, kept), d, Below(f))
    ELSE IF f.name \notin Promised THEN [d EXCEPT !.end = "error"]
    ELSE define_func(f.name, d, kept)

\* build_rules throws the Err away
Build ==
    \E kept \in BOOLEAN :
        LET d == define_all_funcs_in(guard, [defs |-> {}, end |-> ""], kept) IN
        /\ stage = "build"
        /\ stage' = IF d.end = "panic" THEN "panic" ELSE "run"
        /\ func_defs' = d.defs
        /\ UNCHANGED <<guard, content, answer>>

-----------------------------------------------------------------------------
(* eval_formula *)

\* Mutant: operands are evaluated before they are looked at.
FirstOtherEagerly(answers, r) ==
    IF ToSet(answers) \cap Failure # {} THEN "panic"
    ELSE IF \A i \in DOMAIN answers : answers[i] = r THEN r ELSE Truth(r = "F")

\* any and all go on while an operand answers r
FirstOther(answers, r) ==
    LET other == {i \in DOMAIN answers : answers[i] # r}
    IN  IF other = {} THEN r ELSE answers[CHOOSE i \in other : \A j \in other : i <= j]

Not(a) == IF a \in Failure THEN a ELSE Truth(a = "F")

\* What the PartialEqFn of the first term makes of two terms of one type.
\* That of a Boolean term, BOOL_TYPE_INFO.partial_eq, compares the pointers
\* it is given, not what they lead to: a Boolean term points to the constant
\* true or the constant false, and no location has either of them in it.
PartialEq(a, b) ==
    CASE a.literal                        -> Truth(b.literal /\ a.data = b.data)
      [] ~a.literal /\ a.type \notin Comparable -> "panic"
      [] ~a.literal /\ a.type \in Comparable    ->
            IF Absent \in {a.data, b.data} THEN "ub" ELSE Truth(a.data = b.data)

\* both terms are evaluated before the types are compared, and those before
\* the values
ValueEq(a, b) ==
    IF a.data \in Failure THEN a.data
    ELSE IF b.data \in Failure THEN b.data
    ELSE IF a.type # b.type THEN "panic" ELSE PartialEq(a, b)

TermVal(t) ==
    IF t.data \in Failure THEN t.data
    ELSE IF t.type # "bool" THEN "panic"
    ELSE IF t.data = Absent THEN "ub" ELSE t.data

RECURSIVE eval_formula(_)

eval_term(t) ==
    IF t.of = "Boolean"
    THEN [literal |-> TRUE, type |-> "bool", data |-> eval_formula(t.formula)]
    ELSE IF t.loc \in Space
    THEN [literal |-> FALSE, type |-> TypeOf[t.loc], data |-> content[t.loc]]
    ELSE [literal |-> FALSE, type |-> "none", data |-> "panic"]

eval_formula(f) ==
    LET answers == [i \in DOMAIN f.args |-> eval_formula(f.args[i])]
        terms == [i \in DOMAIN f.terms |-> eval_term(f.terms[i])]
    IN  CASE f.op = "True"      -> "T"
          [] f.op = "None"      -> Not(FirstOther(answers, "F"))
          [] f.op = "And"       -> Not(FirstOther(answers, "T"))
          [] f.op = "Or"        -> FirstOther(answers, "F")
          [] f.op = "TermVal"   -> TermVal(terms[1])
          [] f.op = "ValueEq"   -> ValueEq(terms[1], terms[2])
          [] f.op = "MemIsNull" -> Truth(content[f.loc] = Absent)
          [] f.op = "Func"      -> "panic"

-----------------------------------------------------------------------------
Init ==
    /\ guard \in Guards /\ func_defs = {} /\ stage = "build"
    /\ content = [l \in Space |-> Absent] /\ answer = "none"

\* A cell is filled, or its value begins to leave; a putter offers, or is done.
\* Memory bits go with the value, as CellContents of ProtoProps has it.
Change(l, d) ==
    /\ stage = "run"
    /\ content' = [content EXCEPT ![l] = d] /\ answer' = "none"
    /\ UNCHANGED <<guard, func_defs, stage>>

\* exhaust_rules asks the guard when is_ready holds
Ask ==
    /\ stage = "run" /\ answer = "none"
    /\ \A l \in Needed : content[l] # Absent
    /\ answer' = eval_formula(guard)
    /\ UNCHANGED <<guard, func_defs, stage, content>>

Next == \/ Build \/ Ask
        \/ \E l \in Space : \E d \in Data[TypeOf[l]] \cup {Absent} : Change(l, d)

-----------------------------------------------------------------------------
(* The meaning of a guard, for which order does not matter *)

RECURSIVE Meaning(_)
ValueOf(t) == IF t.of = "Boolean" THEN Truth(Meaning(t.formula)) ELSE content[t.loc]
Meaning(f) ==
    CASE f.op = "True"      -> TRUE
      [] f.op = "None"      -> \A i \in DOMAIN f.args : ~Meaning(f.args[i])
      [] f.op = "And"       -> \A i \in DOMAIN f.args : Meaning(f.args[i])
      [] f.op = "Or"        -> \E i \in DOMAIN f.args : Meaning(f.args[i])
      [] f.op = "TermVal"   -> ValueOf(f.terms[1]) = "T"
      [] f.op = "ValueEq"   -> ValueOf(f.terms[1]) = ValueOf(f.terms[2])
      [] f.op = "MemIsNull" -> content[f.loc] = Absent

\* cells an operand may read as the ones before it have found them full
IsNull(m) == [op |-> "MemIsNull", args |-> <<>>, terms |-> <<>>, loc |-> m]
Shielded(f, i) == {m \in Memo : \E j \in 1 .. i - 1 : f.args[j] = IsNull(m)}

TypeOfTerm(t) == IF t.of = "Boolean" THEN "bool" ELSE TypeOf[t.loc]

\* A guard whose terms have the types that are expected, which reads only
\* putters of the rule and cells that are shielded, in which a Boolean term is
\* compared with nothing but another, and which does without And: that is
\* answered with the negation of the conjunction.
RECURSIVE WellFormed(_, _)
WellFormed(f, readable) ==
    /\ f.op \notin {"Func", "And"}
    /\ \A i \in DOMAIN f.args : WellFormed(f.args[i], readable \cup Shielded(f, i))
    /\ \A i \in DOMAIN f.terms :
          LET t == f.terms[i] IN
          IF t.of = "Boolean" THEN WellFormed(t.formula, readable) ELSE t.loc \in readable
    /\ f.op = "TermVal" => TypeOfTerm(f.terms[1]) = "bool"
    /\ f.op = "ValueEq" =>
          IF f.terms[1].of = "Boolean" THEN f.terms[2].of = "Boolean"
          ELSE /\ TypeOfTerm(f.terms[1]) = TypeOfTerm(f.terms[2])
               /\ TypeOfTerm(f.terms[1]) \in Comparable

(***************************************************************************)
(* A well-formed guard answers whenever it is asked, and what it means,    *)
(* whatever its cells hold: an operand that may not be read is not reached *)
(* (any stops before it), and no term is taken for one of another type.    *)
(* Nothing checks that guards are well-formed: the builder accepts every   *)
(* other one too, unless it defines a function twice.                      *)
(***************************************************************************)
GuardsAnswer == WellFormed(guard, Needed) => /\ stage # "panic"
                                             /\ answer \in {"none", Truth(Meaning(guard))}
=============================================================================
