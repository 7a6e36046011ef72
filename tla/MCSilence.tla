----------------------------- MODULE MCSilence -----------------------------
(***************************************************************************)
(* Automata for the three versions: rules over ports p, q and g and cells  *)
(* a and b, and over variables 0 and 1.                                    *)
(***************************************************************************)
EXTENDS Silence

\* rules that put from a port or a cell to a port, to cells or to nobody
Act(p, gs) == [putter |-> p, getters |-> gs]
RuleDefs ==
    {<<Act(p, gs)>> : p \in {"p", "q", "a", "b"}, gs \in {{}, {"g"}, {"a"}, {"b"}, {"a", "b"}}}
    \cup {<<Act("a", {"p"}), Act("q", {"a"})>>, <<Act("p", {"b"}), Act("b", {"g"})>>}
MCDefs == {<<x, y, z>> : x \in RuleDefs, y \in RuleDefs, z \in RuleDefs}
MCPortSets == {{"p"}, {"p", "q"}}

MCVar == 0 .. 1
MCAtomicPorts == {{"p"}}
Preds == [MCVar -> {"T", "F", "X"}]
On(p) == {[guard |-> g, port |-> p, assign |-> [i \in MCVar |-> IF a[i] = "X" THEN g[i] ELSE a[i]]]
            : g \in Preds, a \in Preds}
Some(p) == {r \in On(p) : r.guard[0] # "X" /\ r.assign[1] # "X"}
MCAutomata == {<<x, y>> : x \in On("q"), y \in On("p")}
              \cup {<<x, y, z>> : x \in Some("q"), y \in Some("q"), z \in Some("p")}

Known == [MCVar -> {"T", "F", "?"}]
Commands == [input : Known, involved : {"p"}, output : [MCVar -> {"T", "F", "G", "U"}]]
Others == [input : {P \in Known : P[0] # "?"}, involved : {"q"}, output : [MCVar -> {"T", "G", "U"}]]
MCPrograms == {{x, y} : x \in Commands, y \in Others}
=============================================================================
