---------------------------- MODULE GroupedProto ----------------------------
(***************************************************************************)
(* graveyard5/proto.rs, the first protocol with port groups.  Every call   *)
(* raises a readiness bit and advances the protocol under one lock; a rule *)
(* is committed first and fires when no group is only tentatively ready    *)
(* any more.  Messages tell putters and getters what to do.                *)
(*                                                                         *)
(* One group is modelled.  Its members share a thread, which makes it      *)
(* while none of them is in a call, asks it which rule will fire and then  *)
(* uses the member that takes part in that rule.                           *)
(*                                                                         *)
(* The BitSet of its time is not kept; its operations are taken as exact.  *)
(* iter_and of the BitSet there is now is not (BitOps): it would name the  *)
(* id after that of the leader.                                            *)
(***************************************************************************)
EXTENDS Naturals, FiniteSets, Sequences

CONSTANTS Putter, Getter,  \* ports
          CopyPutters,     \* those of a type whose values may be copied bit by bit
          Group, Leader,   \* members of the group, the one that leads it
          Defs             \* protocols: [rules, calls, wanted], see Init

VARIABLES rules,      \* guards: sequence of [putter, getters, when], when the
                      \* states the constraint allows
          min_ready,  \* their readiness, which grouping changes
          wanted,     \* states the group waits for when it is made
          calls,      \* calls each port has still to make
          state,      \* of the specific protocol: 0 or 1, changed by every action
          ready, tentatively_ready, committed, state_waiters,
          lock,       \* the port, or "group", in the critical section, or "free"
          outbox,     \* messages it has decided on and not sent, with their dest
          box,        \* channel of each port
          at,         \* where each port is: idle, recv, collect
          group,      \* where the group is: none, waiting, formed, asking, told
          told,       \* the rule it has been told, 0 if none
          awaited,    \* answers a putter still expects
          data_moved, \* putters told of a move
          fault,      \* a panic, or a read of a datum that is gone
          duplicated  \* a datum has been taken by a getter that may not move it, though
                      \* it must not be copied

groupedVars == <<rules, min_ready, wanted, calls, state, ready, tentatively_ready, committed,
                 state_waiters, lock, outbox, box, at, group, told, awaited, data_moved,
                 fault, duplicated>>

Port == Putter \cup Getter
Members(r) == {r.putter} \cup {r.getters[n] : n \in DOMAIN r.getters}
Rule == [putter : Putter, getters : Seq(Getter), when : SUBSET {0, 1}]

\* no rule names a getter twice
WellFormed ==
    /\ IsFiniteSet(Putter) /\ IsFiniteSet(Getter) /\ Putter \cap Getter = {}
    /\ CopyPutters \subseteq Putter
    /\ Group \subseteq Port /\ Leader \in Group /\ {"free", "group"} \cap Port = {}
    /\ \A d \in Defs :
          /\ d.rules \in Seq(Rule) /\ d.wanted \in SUBSET {0, 1} /\ d.calls \in [Port -> Nat]
          /\ \A i \in DOMAIN d.rules : \A j, k \in DOMAIN d.rules[i].getters :
                d.rules[i].getters[j] = d.rules[i].getters[k] => j = k

\* group_bits refuses two members in one rule, a commitment whose constraint is
\* false is dropped after the group was told of it, and the leader is told of a
\* commitment to any rule: where there is a group, none of this happens
Groupable(d) ==
    \/ d.wanted = {}
    \/ /\ \A i \in DOMAIN d.rules :
             /\ d.rules[i].when = {0, 1}
             /\ \A m, n \in Members(d.rules[i]) \cap Group : m = n
       /\ \/ \E m \in Group : d.calls[m] = 0
          \/ \A i \in DOMAIN d.rules : Members(d.rules[i]) \cap Group # {}
AllGroupable == \A d \in Defs : Groupable(d)

\* get moves every datum out, whether it may or not ("TODO handle if
\* !move_allowed"): what goes to several getters has to be Copy
AllCopied == \A d \in Defs : \A i \in DOMAIN d.rules :
                d.rules[i].putter \in CopyPutters \/ Len(d.rules[i].getters) <= 1

Unconditional == \A i \in DOMAIN rules : rules[i].when = {0, 1}

Init ==
    /\ \E d \in Defs : rules = d.rules /\ calls = d.calls /\ wanted = d.wanted
    /\ min_ready = [i \in DOMAIN rules |-> Members(rules[i])]
    /\ state = 0 /\ ready = {} /\ tentatively_ready = {} /\ committed = 0
    /\ state_waiters = FALSE /\ lock = "free" /\ outbox = <<>>
    /\ box = [p \in Port |-> <<>>] /\ at = [p \in Port |-> "idle"]
    /\ group = "none" /\ told = 0
    /\ awaited = [p \in Putter |-> 0] /\ data_moved = {}
    /\ fault = FALSE /\ duplicated = FALSE

Resting == lock = "free" /\ \A m \in Group : at[m] = "idle"

-----------------------------------------------------------------------------
(* advance_state, by the holder of the lock *)

Advancing == lock # "free" /\ outbox = <<>>
Tentative == ready \cap tentatively_ready

Commit ==
    /\ Advancing /\ committed = 0
    /\ \E i \in DOMAIN rules :
        /\ min_ready[i] \subseteq ready
        /\ \A j \in 1 .. i - 1 : ~(min_ready[j] \subseteq ready)
        /\ committed' = i
        /\ outbox' = [n \in 1 .. Cardinality(Tentative) |->
                        [to |-> Leader, msg |-> [type |-> "fire", rule |-> i]]]
    /\ UNCHANGED <<rules, min_ready, wanted, calls, state, ready, tentatively_ready,
                   state_waiters, lock, box, at, group, told, awaited, data_moved, fault,
                   duplicated>>

\* distribute_ptr: the pointer is good for the call the putter is in
Distribute(r) ==
    <<[to |-> r.putter, msg |-> [type |-> "await", count |-> Len(r.getters)]]>>
    \o [n \in DOMAIN r.getters |->
          [to |-> r.getters[n],
           msg |-> [type |-> "get", from |-> r.putter, call |-> calls[r.putter], move |-> n = 1]]]

\* Mutant: the getters are told before the putter.
FireGettersFirst ==
    /\ Advancing /\ committed # 0 /\ Tentative = {}
    /\ committed' = 0
    /\ state' = 1 - state
    /\ LET told_last == Distribute(rules[committed])
       IN  outbox' = Tail(told_last) \o <<Head(told_last)>>
    /\ ready' = ready \ min_ready[committed]
    /\ UNCHANGED <<rules, min_ready, wanted, calls, tentatively_ready, state_waiters, lock, box,
                   at, group, told, awaited, data_moved, fault, duplicated>>

\* the action, then notify_waiters; a constraint that is false ends the commit
\* and advance_state
Fire ==
    /\ Advancing /\ committed # 0 /\ Tentative = {}
    /\ committed' = 0
    /\ IF state \in rules[committed].when
       THEN LET notify == state_waiters /\ 1 - state \in wanted
            IN  /\ state' = 1 - state
                /\ outbox' = Distribute(rules[committed])
                             \o IF notify THEN <<[to |-> Leader, msg |-> [type |-> "state"]]>> ELSE <<>>
                /\ ready' = ready \ min_ready[committed]
                /\ state_waiters' = (state_waiters /\ ~notify)
                /\ UNCHANGED lock
       ELSE lock' = "free" /\ UNCHANGED <<state, outbox, ready, state_waiters>>
    /\ UNCHANGED <<rules, min_ready, wanted, calls, tentatively_ready, box, at, group, told,
                   awaited, data_moved, fault, duplicated>>

\* a channel holds as many messages as there are ports
Send ==
    /\ outbox # <<>>
    /\ LET m == Head(outbox)
       IN  Len(box[m.to]) < Cardinality(Port) /\ box' = [box EXCEPT ![m.to] = Append(@, m.msg)]
    /\ outbox' = Tail(outbox)
    /\ UNCHANGED <<rules, min_ready, wanted, calls, state, ready, tentatively_ready, committed,
                   state_waiters, lock, at, group, told, awaited, data_moved, fault, duplicated>>

Leave ==
    /\ Advancing
    /\ IF committed # 0 THEN Tentative # {}
       ELSE \A i \in DOMAIN rules : ~(min_ready[i] \subseteq ready)
    /\ lock' = "free"
    /\ UNCHANGED <<rules, min_ready, wanted, calls, state, ready, tentatively_ready, committed,
                   state_waiters, outbox, box, at, group, told, awaited, data_moved, fault,
                   duplicated>>

-----------------------------------------------------------------------------
(* put and get *)

\* become_ready: a member of the group raises the leader's bit
Enter(p) ==
    /\ lock = "free" /\ at[p] = "idle" /\ calls[p] > 0
    /\ lock' = p /\ at' = [at EXCEPT ![p] = "recv"]
    /\ LET bit == IF p \in Group /\ group # "none" THEN Leader ELSE p
       IN  /\ ready' = ready \cup {bit}
           /\ tentatively_ready' = IF bit = p /\ p \notin Group THEN tentatively_ready
                                   ELSE tentatively_ready \ {bit}
    /\ UNCHANGED <<rules, min_ready, wanted, calls, state, committed, state_waiters, outbox, box,
                   group, awaited, data_moved, fault, duplicated>>

Call(p) == p \notin Group /\ Enter(p) /\ UNCHANGED told

\* a member is used on its own, or as every rule of the group uses it
CallMember(m) ==
    /\ Resting
    /\ \/ group = "none"
       \/ group = "formed" /\ \A i \in DOMAIN rules : Leader \in min_ready[i] => m \in Members(rules[i])
    /\ Enter(m) /\ UNCHANGED told

\* or as the group was told
CallTold(m) ==
    /\ Resting /\ group = "told" /\ m \in Members(rules[told])
    /\ lock' = m /\ at' = [at EXCEPT ![m] = "recv"]
    /\ ready' = ready \cup {Leader} /\ tentatively_ready' = tentatively_ready \ {Leader}
    /\ group' = "formed" /\ told' = 0
    /\ UNCHANGED <<rules, min_ready, wanted, calls, state, committed, state_waiters, outbox, box,
                   awaited, data_moved, fault, duplicated>>

Receives(p) == lock # p /\ box[p] # <<>>

\* get and get_signal, which leaves the datum where it is
Get(g) ==
    /\ at[g] = "recv" /\ Receives(g)
    /\ LET m == Head(box[g])
       IN  /\ fault' = (fault \/ m.type # "get" \/ at[m.from] = "idle" \/ m.call # calls[m.from])
           /\ \E signal \in BOOLEAN :
                 LET takes == ~signal /\ m.type = "get"
                 IN  duplicated' = (duplicated \/ (takes /\ ~m.move /\ m.from \notin CopyPutters))
           /\ m.type = "get" =>
                 /\ Len(box[m.from]) < Cardinality(Port)
                 /\ box' = [box EXCEPT ![g] = Tail(@),
                                       ![m.from] = Append(@, [type |-> "gotten", moved |-> m.move])]
           /\ m.type # "get" => box' = [box EXCEPT ![g] = Tail(@)]
    /\ at' = [at EXCEPT ![g] = "idle"]
    /\ calls' = [calls EXCEPT ![g] = @ - 1]
    /\ UNCHANGED <<rules, min_ready, wanted, state, ready, tentatively_ready, committed,
                   state_waiters, lock, outbox, group, told, awaited, data_moved>>

Await(p) ==
    /\ at[p] = "recv" /\ Receives(p)
    /\ LET m == Head(box[p])
       IN  /\ fault' = (fault \/ m.type # "await")
           /\ awaited' = [awaited EXCEPT ![p] = IF m.type = "await" THEN m.count ELSE 0]
    /\ box' = [box EXCEPT ![p] = Tail(@)]
    /\ at' = [at EXCEPT ![p] = "collect"]
    /\ data_moved' = data_moved \ {p}
    /\ UNCHANGED <<rules, min_ready, wanted, calls, state, ready, tentatively_ready, committed,
                   state_waiters, lock, outbox, group, told, duplicated>>

Collect(p) ==
    /\ at[p] = "collect" /\ awaited[p] > 0 /\ Receives(p)
    /\ LET m == Head(box[p])
           moved == m.type = "gotten" /\ m.moved
       IN  /\ fault' = (fault \/ m.type # "gotten" \/ (moved /\ p \in data_moved))
           /\ data_moved' = IF moved THEN data_moved \cup {p} ELSE data_moved
    /\ box' = [box EXCEPT ![p] = Tail(@)]
    /\ awaited' = [awaited EXCEPT ![p] = @ - 1]
    /\ UNCHANGED <<rules, min_ready, wanted, calls, state, ready, tentatively_ready, committed,
                   state_waiters, lock, outbox, at, group, told, duplicated>>

PutReturn(p) ==
    /\ at[p] = "collect" /\ awaited[p] = 0
    /\ at' = [at EXCEPT ![p] = "idle"]
    /\ calls' = [calls EXCEPT ![p] = @ - 1]
    /\ UNCHANGED <<rules, min_ready, wanted, state, ready, tentatively_ready, committed,
                   state_waiters, lock, outbox, box, group, told, awaited, data_moved, fault,
                   duplicated>>

-----------------------------------------------------------------------------
(* The group *)

\* group_bits, which refuses two members in one rule
Grouped(bits) == IF bits \cap Group = {} THEN bits ELSE (bits \ Group) \cup {Leader}

PortGroupNew ==
    /\ Resting /\ group = "none" /\ wanted # {}
    /\ min_ready' = [i \in DOMAIN rules |-> Grouped(min_ready[i])]
    /\ fault' = (fault \/ \E i \in DOMAIN rules : Cardinality(min_ready[i] \cap Group) > 1)
    /\ group' = IF state \in wanted THEN "formed" ELSE "waiting"
    /\ state_waiters' = (state \notin wanted)
    /\ UNCHANGED <<rules, wanted, calls, state, ready, tentatively_ready, committed, lock, outbox,
                   box, at, told, awaited, data_moved, duplicated>>

Formed ==
    /\ group = "waiting" /\ Receives(Leader)
    /\ fault' = (fault \/ Head(box[Leader]).type # "state")
    /\ box' = [box EXCEPT ![Leader] = Tail(@)]
    /\ group' = "formed"
    /\ UNCHANGED <<rules, min_ready, wanted, calls, state, ready, tentatively_ready, committed,
                   state_waiters, lock, outbox, at, told, awaited, data_moved, duplicated>>

\* ready_wait_determine
Ask ==
    /\ Resting /\ group = "formed" /\ \A m \in Group : calls[m] > 0
    /\ lock' = "group" /\ group' = "asking"
    /\ ready' = ready \cup {Leader} /\ tentatively_ready' = tentatively_ready \cup {Leader}
    /\ UNCHANGED <<rules, min_ready, wanted, calls, state, committed, state_waiters, outbox, box,
                   at, told, awaited, data_moved, fault, duplicated>>

Determined ==
    /\ group = "asking" /\ lock # "group" /\ box[Leader] # <<>>
    /\ LET m == Head(box[Leader])
       IN  /\ fault' = (fault \/ m.type # "fire")
           /\ told' = IF m.type = "fire" THEN m.rule ELSE 0
    /\ box' = [box EXCEPT ![Leader] = Tail(@)]
    /\ group' = "told"
    /\ UNCHANGED <<rules, min_ready, wanted, calls, state, ready, tentatively_ready, committed,
                   state_waiters, lock, outbox, at, awaited, data_moved, duplicated>>

\* ungroup_bits; the assert, in a build that keeps debug_assert's removals
PortGroupDrop ==
    /\ Resting /\ group = "formed"
    /\ min_ready' = [i \in DOMAIN rules |-> (min_ready[i] \ Group) \cup (Members(rules[i]) \cap Group)]
    /\ group' = "none"
    /\ fault' = (fault \/ Leader \in ready)
    /\ UNCHANGED <<rules, wanted, calls, state, ready, tentatively_ready, committed, state_waiters,
                   lock, outbox, box, at, told, awaited, data_moved, duplicated>>

-----------------------------------------------------------------------------
\* what threads in a call, and a group that was told, go on to do
Progress ==
    \/ Commit \/ Fire \/ Send \/ Leave
    \/ \E p \in Putter : Await(p) \/ Collect(p) \/ PutReturn(p)
    \/ \E g \in Getter : Get(g)
    \/ Formed \/ Determined \/ \E m \in Group : CallTold(m)

Next == \/ Progress
        \/ \E p \in Port : Call(p)
        \/ \E m \in Group : CallMember(m)
        \/ PortGroupNew \/ Ask \/ PortGroupDrop

Spec == Init /\ [][Next]_groupedVars

-----------------------------------------------------------------------------
(***************************************************************************)
(* Nothing panics: no port or group gets a message it does not expect, no  *)
(* putter is told twice of a move, no group is dropped while its leader is *)
(* ready; every getter reads the datum of the call it was matched with;    *)
(* and none takes one that it may neither move nor copy.                   *)
(***************************************************************************)
NoFault == ~fault /\ ~duplicated

InTransit(p, type) ==
    \/ \E n \in DOMAIN outbox : outbox[n].to = p /\ outbox[n].msg.type = type
    \/ \E n \in DOMAIN box[p] : box[p][n].type = type

(***************************************************************************)
(* While a pointer is on its way to a getter, its putter stays in the call *)
(* that made it.                                                           *)
(***************************************************************************)
HeldWhileRead ==
    \A g \in Getter :
        /\ \A n \in DOMAIN box[g] : box[g][n].type = "get" =>
              /\ at[box[g][n].from] \in {"recv", "collect"}
              /\ box[g][n].call = calls[box[g][n].from]
        /\ InTransit(g, "get") => at[g] = "recv"

(***************************************************************************)
(* A ready bit belongs to a call that waits for a rule, or to a group that *)
(* asks; a committed rule keeps its ports ready, and the group that was    *)
(* told of it is not told of another.                                      *)
(***************************************************************************)
CertainlyReady ==
    /\ \A p \in ready \ {Leader} : at[p] = "recv" /\ ~InTransit(p, "await") /\ ~InTransit(p, "get")
    /\ Leader \in ready => group \in {"asking", "told"} \/ \E m \in Group : at[m] = "recv"
    /\ committed # 0 => min_ready[committed] \subseteq ready
    /\ told # 0 => committed = told /\ Leader \in min_ready[told]

(***************************************************************************)
(* The ports of a rule without a constraint do not all wait forever, and   *)
(* neither does the lock.                                                  *)
(***************************************************************************)
Served(i) == Unconditional /\ i \in DOMAIN rules =>
                \E p \in Members(rules[i]) : at[p] = "idle" /\ (p \in Group => group # "asking")
NobodyStuck == /\ []<>(lock = "free")
               /\ \A i \in UNION {DOMAIN d.rules : d \in Defs} : []<>Served(i)
=============================================================================
