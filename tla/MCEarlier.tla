----------------------------- MODULE MCEarlier -----------------------------
(***************************************************************************)
(* Protocols for the earlier versions of them; those of GroupedProto have  *)
(* ports p, q, r, g, h and i, those of RacyProt locations 0 to 3.          *)
(***************************************************************************)
EXTENDS Earlier, TLC

Always == {0, 1}
Guard(p, gs, when) == [putter |-> p, getters |-> gs, when |-> when]
Calls(p, q, r, g, h, i) ==
    "p" :> p @@ "q" :> q @@ "r" :> r @@ "g" :> g @@ "h" :> h @@ "i" :> i
MCGroupedDefs ==
    {\* the group {g, h} is told which of two rules will fire
     [rules |-> <<Guard("r", <<"g">>, Always), Guard("r", <<"h">>, Always)>>,
      calls |-> Calls(0, 0, 3, 2, 2, 0), wanted |-> {0}],
     \* each rule has two getters, one of them shared; what they get is Copy
     [rules |-> <<Guard("p", <<"g", "i">>, Always), Guard("q", <<"h", "i">>, Always)>>,
      calls |-> Calls(2, 2, 0, 2, 2, 2), wanted |-> {0, 1}],
     \* the group waits until the other rule has fired
     [rules |-> <<Guard("r", <<"i">>, Always), Guard("r", <<"h">>, Always)>>,
      calls |-> Calls(0, 0, 3, 0, 2, 1), wanted |-> {1}],
     \* constraints, and no group
     [rules |-> <<Guard("p", <<"g", "i">>, {0}), Guard("q", <<"i">>, {1}), Guard("p", <<"i">>, {1})>>,
      calls |-> Calls(2, 2, 0, 2, 0, 3), wanted |-> {}]}

Arg(m, p, gs, ms) == [is_mem |-> m, putter |-> p, getters |-> gs, mem_getters |-> ms]
MCRacyDefs == {<<Arg(FALSE, 0, {1}, {}), Arg(FALSE, 3, {2}, {})>>,
               <<Arg(FALSE, 0, {1, 2}, {}), Arg(FALSE, 3, {}, {})>>,
               <<Arg(FALSE, 0, {1}, {3}), Arg(TRUE, 3, {2}, {3})>>,
               <<Arg(FALSE, 0, {1}, {}), Arg(FALSE, 1, {2}, {})>>,
               <<Arg(FALSE, 0, {1, 2}, {})>>,
               \* prot_test
               <<Arg(FALSE, 0, {1}, {}), Arg(FALSE, 0, {2}, {})>>,
               <<Arg(FALSE, 0, {1}, {}), Arg(FALSE, 0, {1, 2}, {}), Arg(FALSE, 3, {}, {})>>}

ASSUME Grouped!AllGroupable /\ Grouped!AllCopied /\ Racy!RoomForAll
=============================================================================
