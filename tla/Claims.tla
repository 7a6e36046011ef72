------------------------------- MODULE Claims -------------------------------
(***************************************************************************)
(* Who owns the ports of an instance: claim, the Drop of Putter and        *)
(* Getter, and port groups.  unclaimed_ports is behind the lock of the     *)
(* instance, so a claim and a drop are steps; adding a port to a group     *)
(* claims it in one step and may drop it again in another.                 *)
(*                                                                         *)
(* A client is a thread or anything else that holds ports; it may hold     *)
(* ports of several instances, which are all built from the definition of  *)
(* ProtoBuilder.                                                           *)
(***************************************************************************)
EXTENDS ProtoBuilder

CONSTANTS
    Inst,     \* instances: what an Arc<ProtoAll> points to
    Client,
    Group,    \* port groups
    Nobody    \* maybe_proto = None, and no add_* call under way

\* the Putter and Getter objects there can be
PortObject ==
    [by : Client \cup Group, inst : Inst, id : UNION {DOMAIN d.kind : d \in Defs},
     role : {"Putter", "Getter"}, type : UNION {{d.type[l] : l \in DOMAIN d.type} : d \in Defs}]

ASSUME NobodyAssumption ==
    Nobody \notin Inst \cup [port : PortObject, want : {"Putter", "Getter"}]

VARIABLES
    unclaimed_ports,   \* for each instance, [id -> [role, type]]
    ports,             \* the Putter and Getter objects that exist
    maybe_proto,       \* PortGroup.maybe_proto
    adding,            \* the port a group has claimed and not yet examined
    grouped,           \* the Grouped objects ever made: the port, and the role of their
                       \* type, which is the one asked for
    alive              \* groups that have not been dropped

cvars == <<unclaimed_ports, ports, maybe_proto, adding, grouped, alive>>
claimsVars == <<bvars, cvars>>

Types == {def.type[l] : l \in DOMAIN def.type}

\* unclaimed_ports as finish makes it
PortInfos ==
    [l \in {k \in LocKinds : ~is_mem(def.kind[k])} |->
        [role |-> IF def.kind[l] = "PortPutter" THEN "Putter" ELSE "Getter",
         type |-> def.type[l]]]

PortOf(by, i, id, T) ==
    [by |-> by, inst |-> i, id |-> id,
     role |-> unclaimed_ports[i][id].role, type |-> T]

Claimable(i, id, T) ==
    /\ id \in DOMAIN unclaimed_ports[i]
    /\ unclaimed_ports[i][id].type = T

Remove(i, id) ==
    [unclaimed_ports EXCEPT ![i] =
        [l \in DOMAIN @ \ {id} |-> @[l]]]

\* Mutant: every port comes back as a putter.
InsertPutter(p) ==
    [unclaimed_ports EXCEPT ![p.inst] =
        [l \in DOMAIN @ \cup {p.id} |->
            IF l = p.id THEN [role |-> "Putter", type |-> p.type] ELSE @[l]]]

Insert(p) ==
    [unclaimed_ports EXCEPT ![p.inst] =
        [l \in DOMAIN @ \cup {p.id} |->
            IF l = p.id THEN [role |-> p.role, type |-> p.type] ELSE @[l]]]

ClaimsInit ==
    /\ BInit
    /\ unclaimed_ports = [i \in Inst |-> <<>>]
    /\ ports = {}
    /\ maybe_proto = [g \in Group |-> Nobody]
    /\ adding = [g \in Group |-> Nobody]
    /\ grouped = {}
    /\ alive = Group

Building ==
    /\ BNext
    /\ unclaimed_ports' = [i \in Inst |-> IF result' = "Ok" THEN PortInfos ELSE <<>>]
    /\ UNCHANGED <<ports, maybe_proto, adding, grouped, alive>>

\* claim that answers GotPutter or GotGetter; the others change nothing
Claim(c, i, id, T) ==
    /\ Claimable(i, id, T)
    /\ ports' = ports \cup {PortOf(c, i, id, T)}
    /\ unclaimed_ports' = Remove(i, id)
    /\ UNCHANGED <<bvars, maybe_proto, adding, grouped, alive>>

Drop(p) ==
    /\ ports' = ports \ {p}
    /\ unclaimed_ports' = Insert(p)
    /\ UNCHANGED <<bvars, maybe_proto, adding, grouped, alive>>

\* add_putter and add_getter: the claim
GroupClaim(g, i, id, T, want) ==
    /\ g \in alive /\ adding[g] = Nobody
    /\ Claimable(i, id, T)
    /\ adding' = [adding EXCEPT ![g] = [port |-> PortOf(g, i, id, T), want |-> want]]
    /\ unclaimed_ports' = Remove(i, id)
    /\ UNCHANGED <<bvars, ports, maybe_proto, grouped, alive>>

\* Mutants: the instance of the group is not looked at, or the role is not.
FitsRole(g) == adding[g].port.role = adding[g].want
FitsInstance(g) == maybe_proto[g] \in {Nobody, adding[g].port.inst}

Fits(g) ==
    /\ adding[g].port.role = adding[g].want
    /\ maybe_proto[g] \in {Nobody, adding[g].port.inst}

\* ... the port has the role asked for and belongs to the group's instance
GroupAdd(g) ==
    /\ adding[g] # Nobody /\ Fits(g)
    /\ maybe_proto' = [maybe_proto EXCEPT ![g] = adding[g].port.inst]
    /\ grouped' = grouped \cup {adding[g]}
    /\ adding' = [adding EXCEPT ![g] = Nobody]
    /\ UNCHANGED <<bvars, unclaimed_ports, ports, alive>>

\* ... it does not, and is dropped when the error is returned
GroupReject(g) ==
    /\ adding[g] # Nobody /\ ~Fits(g)
    /\ unclaimed_ports' = Insert(adding[g].port)
    /\ adding' = [adding EXCEPT ![g] = Nobody]
    /\ UNCHANGED <<bvars, ports, maybe_proto, grouped, alive>>

\* PortGroup.member_info, in which nothing is ever inserted
member_info(g) == {}

\* the Drop of a PortGroup, once no add_* call borrows it
DropGroup(g) ==
    /\ g \in alive /\ adding[g] = Nobody
    /\ alive' = alive \ {g}
    /\ unclaimed_ports' = [i \in Inst |->
            LET back == {p.id : p \in {q \in member_info(g) : q.inst = i}}
            IN  [l \in back \cup DOMAIN unclaimed_ports[i] |->
                    IF l \in back THEN PortInfos[l] ELSE unclaimed_ports[i][l]]]
    /\ UNCHANGED <<bvars, ports, maybe_proto, adding, grouped>>

ClaimsNext ==
    \/ Building
    \/ \E c \in Client, i \in Inst : \E id \in LocKinds, T \in Types : Claim(c, i, id, T)
    \/ \E p \in ports : Drop(p)
    \/ \E g \in Group, i \in Inst, want \in {"Putter", "Getter"} :
            \E id \in LocKinds, T \in Types : GroupClaim(g, i, id, T, want)
    \/ \E g \in Group : GroupAdd(g) \/ GroupReject(g) \/ DropGroup(g)

ClaimsSpec == ClaimsInit /\ [][ClaimsNext]_claimsVars

-----------------------------------------------------------------------------
Grouped == {x.port : x \in grouped}
Pending == {g \in Group : adding[g] # Nobody}
Owned == ports \cup Grouped \cup {adding[g].port : g \in Pending}

(***************************************************************************)
(* A port of an instance is unclaimed, with the role and the type of its   *)
(* definition, or has one owner, with that role and type: never two        *)
(* threads that enter the coordinator with the same id, and no port that   *)
(* is lost by a failed claim or a rejected addition to a group.            *)
(***************************************************************************)
OneOwner ==
    result = "Ok" => \A i \in Inst, id \in DOMAIN PortInfos :
        LET owners == {p \in Owned : p.inst = i /\ p.id = id}
        IN  IF id \in DOMAIN unclaimed_ports[i]
            THEN owners = {} /\ unclaimed_ports[i][id] = PortInfos[id]
            ELSE \E p \in owners : owners = {p} /\ [role |-> p.role, type |-> p.type] = PortInfos[id]

(***************************************************************************)
(* A Grouped object has the role its type says and belongs to the instance *)
(* of its group, however additions to groups interleave with other claims. *)
(***************************************************************************)
GroupedFit ==
    \A x \in grouped : x.port.role = x.want /\ maybe_proto[x.port.by] = x.port.inst
=============================================================================
