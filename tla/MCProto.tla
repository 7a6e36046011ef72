------------------------------ MODULE MCProto ------------------------------
(***************************************************************************)
(* Small connectors for TLC.  p0 and p1 are putters, g2 and g3 getters,    *)
(* m4 and m5 memory cells; each configuration says which of them it uses.  *)
(***************************************************************************)
EXTENDS ProtoInv

CONSTANTS p0, p1, g2, g3, m4, m5

Always == [op |-> "True", atoms |-> {}]
Act(p, gs) == [putter |-> p, getters |-> gs]
Rule(acts) == [guard |-> Always, actions |-> acts]
When(f, acts) == [guard |-> f, actions |-> acts]

\* p0=>g2; p1=>m4 and then m4=>g2: AlternatorProto of src/src/proto/tests.rs
AlternatorRules == << Rule(<<Act(p0, {g2}), Act(p1, {m4})>>),
                      Rule(<<Act(m4, {g2})>>) >>

\* one datum in two cells at once; two getters at once read it from the first,
\* and as soon as that is empty the second hands its value on to it
ChainRules == << Rule(<<Act(p0, {m4, m5})>>), Rule(<<Act(m4, {g2, g3})>>),
                 Rule(<<Act(m5, {m4})>>) >>

\* p0's datum goes to g2 and a clone of it to m4, if m4 has room; m4's value
\* goes to g3 once p1 offers an equal one, which is lost
GuardedRules ==
    << When([op |-> "None", atoms |-> {[op |-> "MemIsNull", loc |-> m4]}],
            <<Act(p0, {g2})>>),
       Rule(<<Act(p0, {g2, m4})>>),
       When([op |-> "Or", atoms |-> {[op |-> "ValueEq", a |-> p1, b |-> m4]}],
            <<Act(p1, {}), Act(m4, {g3})>>) >>

\* one datum in two cells at once, one of them with two getters
SharedRules == << Rule(<<Act(p0, {m4, m5})>>), Rule(<<Act(m4, {g2, g3})>>),
                  Rule(<<Act(m5, {g3})>>) >>

\* the same with one getter for each cell
ReplicateRules == << Rule(<<Act(p0, {m4, m5})>>), Rule(<<Act(m4, {g2})>>),
                     Rule(<<Act(m5, {g3})>>) >>

\* two getters straight from a putter
BroadcastRules == << Rule(<<Act(p0, {g2, g3})>>) >>
=============================================================================
