------------------------------- MODULE MCBits -------------------------------
(***************************************************************************)
(* Small layouts for BitReadiness, with two bits to a chunk.               *)
(***************************************************************************)
EXTENDS BitReadiness

Always == [op |-> "True", atoms |-> {}]
Act(p, gs) == [putter |-> p, getters |-> gs]
Rule(acts) == [guard |-> Always, actions |-> acts]

\* putters 0 and 4, getter 2, cells 1, 3 and 5: participants in every chunk
SpreadRules == << Rule(<<Act(0, {1}), Act(4, {5})>>), Rule(<<Act(1, {3})>>),
                  Rule(<<Act(3, {2}), Act(5, {5})>>), Rule(<<Act(0, {3, 5})>>) >>

\* cell 1 filled from port 0 and read by port 2, whose id starts a new chunk
EdgeRules == << Rule(<<Act(0, {1})>>), Rule(<<Act(1, {2})>>) >>

=============================================================================
