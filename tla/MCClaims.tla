------------------------------ MODULE MCClaims ------------------------------
(***************************************************************************)
(* Definitions for ProtoBuilder and Claims: two that are accepted, one for *)
(* each way to be refused, and orders of actions and getters that change   *)
(* the bitsets of a rule more than once.                                   *)
(***************************************************************************)
EXTENDS Claims, TLC

Puts(p, gs) == [putter |-> p, getters |-> gs]

\* ids and kinds of the alternator of tests.rs
Kinds == 0 :> "PortPutter" @@ 1 :> "PortPutter" @@ 2 :> "PortGetter" @@ 3 :> "MemUninitialized"
OneType == [l \in 0 .. 3 |-> "u32"]

Def(rs) == [kind |-> Kinds, type |-> OneType, fills |-> {}, rules |-> rs]

Alternator == Def(<< <<Puts(0, <<2>>), Puts(1, <<3>>)>>, <<Puts(3, <<2>>)>> >>)

\* one putter and one getter, of SyncProto
Sync == [kind |-> 0 :> "PortPutter" @@ 1 :> "PortGetter",
         type |-> [l \in 0 .. 1 |-> "u8"], fills |-> {},
         rules |-> << <<Puts(0, <<1>>)>> >>]

\* every rule of one or two actions over one putter of each kind
SmallRules ==
    LET acts == {Puts(p, gs) : p \in 0 .. 4, gs \in {<<>>, <<2>>, <<3>>, <<3, 2>>, <<2, 3, 2>>, <<4>>, <<1>>}}
    IN  {<<a>> : a \in acts} \cup {<<a, b>> : a \in acts, b \in acts}

Small == {Def(<<rs>>) : rs \in SmallRules}

Initialized(types, fulfilled) ==
    [kind |-> [Kinds EXCEPT ![3] = "MemInitialized"], type |-> types, fills |-> fulfilled,
     rules |-> << <<Puts(3, <<2>>)>> >>]

Typed(ty) == [Def(<< <<Puts(0, <<2>>)>>, <<Puts(1, <<3>>), Puts(0, <<>>)>> >>) EXCEPT !.type = ty]

MCDefs ==
    {Sync, Alternator} \cup Small
    \cup {Initialized(OneType, {3}), Initialized(OneType, {}), Initialized([l \in 0 .. 2 |-> "u32"], {3})}
    \cup {Typed([OneType EXCEPT ![1] = "u8"]), Typed([l \in 0 .. 2 |-> "u32"])}
=============================================================================
