---------------------------- MODULE GroupProofs ----------------------------
(***************************************************************************)
(* GroupedProto for any finite sets of ports, any group of them and any    *)
(* protocols in which it can be used (AllGroupable): its inductive         *)
(* invariant.                                                              *)
(***************************************************************************)
EXTENDS GroupedProto, FiniteSetTheorems, SequenceTheorems, TLAPS

Message == [type : {"await"}, count : Nat] \cup [type : {"gotten"}, moved : BOOLEAN]
           \cup [type : {"fire"}, rule : Nat] \cup [type : {"state"}]
           \cup [type : {"get"}, from : Putter, call : Nat, move : BOOLEAN]

GroupedTypes ==
    /\ rules \in Seq(Rule) /\ wanted \in SUBSET {0, 1} /\ calls \in [Port -> Nat]
    /\ state \in {0, 1} /\ ready \in SUBSET Port /\ committed \in Nat /\ state_waiters \in BOOLEAN
    /\ lock \in Port \cup {"free", "group"}
    /\ outbox \in Seq([to : Port, msg : Message]) /\ box \in [Port -> Seq(Message)]
    /\ at \in [Port -> {"idle", "recv", "collect"}]
    /\ group \in {"none", "waiting", "formed", "asking", "told"} /\ told \in Nat
    /\ awaited \in [Putter -> Nat] /\ data_moved \in SUBSET Putter /\ fault \in BOOLEAN

Going(q) == \E n \in DOMAIN outbox : outbox[n].to = q
Silent(q) == box[q] = <<>> /\ ~Going(q)
Carries(q, m) == \/ box[q] = <<m>> /\ ~Going(q)
                 \/ box[q] = <<>> /\ \E n \in DOMAIN outbox : outbox[n] = [to |-> q, msg |-> m]
GetOf(p, mv) == [type |-> "get", from |-> p, call |-> calls[p], move |-> mv]
Pending(p) == {g \in Getter : \E mv \in BOOLEAN : Carries(g, GetOf(p, mv))}
Bit(q) == IF q \in Group /\ group # "none" THEN Leader ELSE q
Asked == group \in {"asking", "told"}

Setting ==
    /\ \E d \in Defs : /\ rules = d.rules /\ wanted = d.wanted
                              /\ \A p \in Port : calls[p] <= d.calls[p]
    /\ group # "none" => wanted # {}
    /\ min_ready = [i \in DOMAIN rules |-> IF group = "none" THEN Members(rules[i])
                                           ELSE Grouped(Members(rules[i]))]

OutboxInv ==
    /\ outbox # <<>> => lock # "free"
    /\ \A j, k \in DOMAIN outbox : outbox[j].to = outbox[k].to => j = k
    /\ \A n \in DOMAIN outbox : box[outbox[n].to] = <<>>

CommitInv ==
    committed # 0 => /\ lock = "free" => Asked
                     /\ committed \in DOMAIN rules /\ min_ready[committed] \subseteq ready

LeaderMail ==
    at[Leader] = "idle" =>
        /\ group = "waiting" /\ ~state_waiters => Carries(Leader, [type |-> "state"])
        /\ group = "asking" /\ committed # 0 =>
              Carries(Leader, [type |-> "fire", rule |-> committed])
        /\ (group = "waiting" => state_waiters) /\ (group = "asking" => committed = 0) =>
              Silent(Leader)

GroupInv ==
    /\ tentatively_ready = (IF Asked THEN {Leader} ELSE {})
    /\ Asked => /\ Leader \in ready
                /\ \A i \in DOMAIN rules : Leader \in min_ready[i]
                /\ \A m \in Group : calls[m] > 0
    /\ Asked \/ group = "waiting" => \A m \in Group : at[m] = "idle"
    /\ told = (IF group = "told" THEN committed ELSE 0)
    /\ group = "told" => committed # 0
    /\ state_waiters => group = "waiting"
    /\ \A m, n \in Group : at[m] # "idle" /\ at[n] # "idle" => m = n
    /\ group = "formed" /\ Leader \in ready =>
          \A m \in Group : at[m] = "recv" =>
             \/ \A i \in DOMAIN rules : Leader \in min_ready[i] => m \in Members(rules[i])
             \/ committed # 0 /\ m \in Members(rules[committed])

ReadyInv ==
    /\ \A q \in ready : q # Leader => at[q] = "recv" /\ Bit(q) = q
    /\ Leader \in ready => Asked \/ \E m \in Group : at[m] = "recv" /\ Bit(m) = Leader
    /\ \A q \in Port : at[q] # "idle" => calls[q] > 0

GetterMail(g) ==
    /\ at[g] # "collect"
    /\ at[g] = "idle" /\ g # Leader => Silent(g)
    /\ at[g] = "recv" /\ Bit(g) \in ready => Silent(g)
    /\ at[g] = "recv" /\ Bit(g) \notin ready => \E p \in Putter : g \in Pending(p)

AllGotten(s) == \A n \in DOMAIN s : s[n] \in [type : {"gotten"}, moved : BOOLEAN]
AwaitSent(p) ==
    /\ box[p] = <<>> /\ outbox # <<>>
    /\ outbox[1] = [to |-> p, msg |-> [type |-> "await", count |-> Cardinality(Pending(p))]]
    /\ \A g \in Pending(p) : box[g] = <<>>
AwaitCame(p) ==
    /\ ~Going(p) /\ box[p] # <<>>
    /\ \E c \in Nat : /\ Head(box[p]) = [type |-> "await", count |-> c]
                      /\ c = Len(Tail(box[p])) + Cardinality(Pending(p))
    /\ AllGotten(Tail(box[p]))

PutterMail(p) ==
    /\ at[p] = "idle" => Pending(p) = {} /\ (p # Leader => Silent(p))
    /\ at[p] = "recv" /\ Bit(p) \in ready => Pending(p) = {} /\ Silent(p)
    /\ at[p] = "recv" /\ Bit(p) \notin ready => AwaitSent(p) \/ AwaitCame(p)
    /\ at[p] = "collect" => /\ ~Going(p) /\ AllGotten(box[p])
                            /\ awaited[p] = Len(box[p]) + Cardinality(Pending(p))

Moved(p, n) == n \in DOMAIN box[p] /\ box[p][n] = [type |-> "gotten", moved |-> TRUE]
Moving(p, g) == g \in Getter /\ Carries(g, GetOf(p, TRUE))
MovedOnce(p) ==
    /\ \A g, h : Moving(p, g) /\ Moving(p, h) => g = h
    /\ \A j, k : Moved(p, j) /\ Moved(p, k) => j = k
    /\ \A g, j : ~(Moving(p, g) /\ Moved(p, j))
    /\ at[p] = "collect" /\ p \in data_moved => \A x : ~Moving(p, x) /\ ~Moved(p, x)

PortsInv == /\ \A g \in Getter : GetterMail(g)
            /\ \A p \in Putter : PutterMail(p) /\ MovedOnce(p)

GroupedInv == /\ GroupedTypes /\ Setting /\ OutboxInv /\ CommitInv /\ LeaderMail /\ GroupInv
              /\ ReadyInv /\ PortsInv /\ ~fault

-----------------------------------------------------------------------------
LEMMA PortsApart ==
    ASSUME WellFormed
    PROVE  /\ Group \subseteq Port /\ Leader \in Port /\ "free" \notin Port /\ "group" \notin Port
           /\ IsFiniteSet(Port)
           /\ \A g \in Getter : g \notin Putter /\ g \in Port
           /\ \A p \in Putter : p \notin Getter /\ p \in Port
  BY FS_Union DEF WellFormed, Port

LEMMA MessageTyped ==
    /\ \A c \in Nat : [type |-> "await", count |-> c] \in Message
    /\ \A b \in BOOLEAN : [type |-> "gotten", moved |-> b] \in Message
    /\ \A r \in Nat : [type |-> "fire", rule |-> r] \in Message
    /\ [type |-> "state"] \in Message
    /\ \A p \in Putter, c \in Nat, b \in BOOLEAN :
          [type |-> "get", from |-> p, call |-> c, move |-> b] \in Message
  BY DEF Message

LEMMA SameMail ==
    ASSUME UNCHANGED <<box, outbox>>
    PROVE  /\ \A q : (Going(q)' <=> Going(q)) /\ (Silent(q)' <=> Silent(q))
           /\ \A q, m : Carries(q, m)' <=> Carries(q, m)
           /\ \A p : calls'[p] = calls[p] =>
                 /\ Pending(p)' = Pending(p)
                 /\ \A g : Moving(p, g)' <=> Moving(p, g)
           /\ \A p, n : Moved(p, n)' <=> Moved(p, n)
  <1>1. \A q : (Going(q)' <=> Going(q)) /\ (Silent(q)' <=> Silent(q))
    BY DEF Going, Silent
  <1>2. \A q, m : Carries(q, m)' <=> Carries(q, m)
    BY <1>1 DEF Carries
  <1>3. ASSUME NEW p, calls'[p] = calls[p]
        PROVE  /\ Pending(p)' = Pending(p)
               /\ \A g : Moving(p, g)' <=> Moving(p, g)
    <2>1. \A mv : GetOf(p, mv)' = GetOf(p, mv)
      BY <1>3 DEF GetOf
    <2> QED BY <1>2, <2>1 DEF Pending, Moving
  <1>4. \A p, n : Moved(p, n)' <=> Moved(p, n)
    BY DEF Moved
  <1> QED BY <1>1, <1>2, <1>3, <1>4

LEMMA CarriesOne ==
    ASSUME GroupedTypes, OutboxInv, NEW q \in Port, NEW m, Carries(q, m)
    PROVE  /\ ~Silent(q)
           /\ box[q] # <<>> => box[q] = <<m>> /\ ~Going(q)
           /\ \A k : Carries(q, k) => k = m
  <1>1. ~Silent(q)
    BY DEF Carries, Silent, Going
  <1>2. box[q] # <<>> => box[q] = <<m>> /\ ~Going(q)
    BY DEF Carries
  <1>3. ASSUME NEW k, Carries(q, k) PROVE k = m
    <2>1. CASE box[q] = <<>>
      <3>1. PICK i \in DOMAIN outbox : outbox[i] = [to |-> q, msg |-> m]
        BY <2>1 DEF Carries
      <3>2. PICK j \in DOMAIN outbox : outbox[j] = [to |-> q, msg |-> k]
        BY <2>1, <1>3 DEF Carries
      <3>3. i = j
        BY <3>1, <3>2 DEF OutboxInv
      <3> QED BY <3>1, <3>2, <3>3
    <2>2. CASE box[q] # <<>>
      BY <1>3, <2>2 DEF Carries
    <2> QED BY <2>1, <2>2
  <1> QED BY <1>1, <1>2, <1>3

LEMMA GetterKept ==
    ASSUME NEW g, GetterMail(g), at'[g] = at[g],
           at[g] = "recv" => ((Bit(g) \in ready)' <=> Bit(g) \in ready),
           Silent(g) => Silent(g)', \A p \in Putter : g \in Pending(p) => g \in Pending(p)'
    PROVE  GetterMail(g)'
  BY DEF GetterMail

LEMMA PutterKept ==
    ASSUME NEW p, PutterMail(p), at'[p] = at[p],
           at[p] = "recv" => ((Bit(p) \in ready)' <=> Bit(p) \in ready),
           Pending(p)' = Pending(p), box'[p] = box[p], Going(p)' <=> Going(p),
           awaited'[p] = awaited[p],
           AwaitSent(p) => /\ outbox' # <<>> /\ outbox'[1] = outbox[1]
                           /\ \A g \in Pending(p) : box[g] = <<>> => box'[g] = <<>>
    PROVE  PutterMail(p)'
  <1>1. Silent(p)' <=> Silent(p)
    BY DEF Silent
  <1>2. AwaitSent(p) => AwaitSent(p)'
    BY DEF AwaitSent
  <1>3. AwaitCame(p) => AwaitCame(p)'
    BY DEF AwaitCame, AllGotten
  <1> QED BY <1>1, <1>2, <1>3 DEF PutterMail, AllGotten

LEMMA MovedKept ==
    ASSUME NEW p, MovedOnce(p), \A g : Moving(p, g)' => Moving(p, g),
           \A n : Moved(p, n)' => Moved(p, n),
           at'[p] = "collect" /\ p \in data_moved' => at[p] = "collect" /\ p \in data_moved
    PROVE  MovedOnce(p)'
  BY DEF MovedOnce

LEMMA PortsKept ==
    ASSUME PortsInv, UNCHANGED <<box, outbox, awaited, data_moved>>,
           \A p \in Putter : calls'[p] = calls[p],
           \A q \in Port : /\ at'[q] = at[q]
                           /\ at[q] = "recv" => ((Bit(q) \in ready)' <=> Bit(q) \in ready)
    PROVE  PortsInv'
  <1>1. ASSUME NEW g \in Getter PROVE GetterMail(g)'
    BY SameMail, GetterKept DEF PortsInv, Port
  <1>2. ASSUME NEW p \in Putter PROVE PutterMail(p)'
    BY SameMail, PutterKept DEF PortsInv, Port, AwaitSent
  <1>3. ASSUME NEW p \in Putter PROVE MovedOnce(p)'
    BY SameMail, MovedKept DEF PortsInv, Port
  <1> QED BY <1>1, <1>2, <1>3 DEF PortsInv

LEMMA SettingKept ==
    ASSUME Setting, UNCHANGED <<rules, wanted, min_ready>>, group' = "none" <=> group = "none",
           \A p \in Port : calls'[p] <= calls[p], GroupedTypes, GroupedTypes', WellFormed
    PROVE  Setting'
  <1>1. PICK d \in Defs : /\ rules = d.rules /\ wanted = d.wanted
                                 /\ \A p \in Port : calls[p] <= d.calls[p]
    BY DEF Setting
  <1>2. d.calls \in [Port -> Nat]
    BY DEF WellFormed, Port
  <1>3. calls \in [Port -> Nat] /\ calls' \in [Port -> Nat]
    BY DEF GroupedTypes
  <1>4. \A p \in Port : calls'[p] <= d.calls[p]
    <2> SUFFICES ASSUME NEW p \in Port PROVE calls'[p] <= d.calls[p]
      OBVIOUS
    <2>1. calls[p] \in Nat /\ calls'[p] \in Nat /\ d.calls[p] \in Nat
      BY <1>2, <1>3
    <2> QED BY <1>1, <2>1
  <1> QED BY <1>1, <1>4 DEF Setting

LEMMA GroupedLeave ==
    ASSUME GroupedInv, WellFormed, Leave
    PROVE  GroupedInv'
  <1>1. /\ outbox = <<>> /\ lock' = "free"
        /\ committed # 0 => Tentative # {}
        /\ UNCHANGED <<rules, min_ready, wanted, calls, state, ready, tentatively_ready, committed,
                       state_waiters, outbox, box, at, group, told, awaited, data_moved, fault>>
    BY DEF Leave, Advancing
  <1>2. committed # 0 => Asked
    BY <1>1 DEF Tentative, GroupedInv, GroupInv
  <1>3. GroupedTypes'
    BY <1>1 DEF GroupedInv, GroupedTypes
  <1>4. Setting'
    BY <1>1 DEF GroupedInv, Setting
  <1>5. OutboxInv'
    BY <1>1 DEF GroupedInv, OutboxInv
  <1>6. CommitInv'
    BY <1>1, <1>2 DEF GroupedInv, CommitInv, Asked
  <1>7. LeaderMail'
    BY <1>1, SameMail DEF GroupedInv, LeaderMail
  <1>8. GroupInv'
    BY <1>1 DEF GroupedInv, GroupInv, Asked
  <1>9. ReadyInv'
    BY <1>1 DEF GroupedInv, ReadyInv, Asked, Bit
  <1>10. PortsInv'
    BY <1>1, PortsKept DEF GroupedInv, Bit
  <1> QED BY <1>1, <1>3, <1>4, <1>5, <1>6, <1>7, <1>8, <1>9, <1>10 DEF GroupedInv

\* a port that is not in a call has no mail, unless it leads a group that waits for some
LEMMA IdleSilent ==
    ASSUME GroupedInv, WellFormed, NEW q \in Port, at[q] = "idle",
           q = Leader => group \notin {"waiting", "asking"}
    PROVE  Silent(q)
  <1>1. CASE q = Leader
    BY <1>1 DEF GroupedInv, LeaderMail
  <1>2. CASE q # Leader
    BY <1>2 DEF GroupedInv, PortsInv, GetterMail, PutterMail, Port
  <1> QED BY <1>1, <1>2

\* q enters a call: become_ready
LEMMA GroupedEnter ==
    ASSUME GroupedInv, WellFormed, NEW q \in Port, at[q] = "idle", lock = "free", calls[q] > 0,
           q \in Group => /\ \A m \in Group : at[m] = "idle"
                          /\ group \in {"none", "formed", "told"}
                          /\ \A i \in DOMAIN rules :
                                group # "none" /\ Leader \in min_ready[i] =>
                                   q \in Members(rules[i]) \/ group = "told",
           group = "told" /\ q \in Group => q \in Members(rules[told]),
           lock' = q, at' = [at EXCEPT ![q] = "recv"], ready' = ready \cup {Bit(q)},
           tentatively_ready' = IF q \in Group THEN tentatively_ready \ {Leader} ELSE tentatively_ready,
           group' = IF group = "told" /\ q \in Group THEN "formed" ELSE group,
           told' = IF q \in Group THEN 0 ELSE told,
           UNCHANGED <<rules, min_ready, wanted, calls, state, committed, state_waiters, outbox, box,
                       awaited, data_moved, fault>>
    PROVE  GroupedInv'
  <1>t. /\ at \in [Port -> {"idle", "recv", "collect"}] /\ ready \in SUBSET Port
        /\ Leader \in Port /\ "free" \notin Port /\ Group \subseteq Port
    BY PortsApart DEF GroupedInv, GroupedTypes
  <1>1. /\ at'[q] = "recv" /\ \A x \in Port : x # q => at'[x] = at[x]
        /\ \A x : Bit(x)' = Bit(x)
        /\ Bit(q) \in Port
    BY <1>t DEF Bit
  <1>2. Asked' <=> Asked /\ q \notin Group
    BY DEF Asked
  <1>3. GroupedTypes'
    <2>1. /\ at' \in [Port -> {"idle", "recv", "collect"}] /\ ready' \in SUBSET Port
          /\ lock' \in Port \cup {"free", "group"}
          /\ group' \in {"none", "waiting", "formed", "asking", "told"} /\ told' \in Nat
      BY <1>t, <1>1 DEF GroupedInv, GroupedTypes
    <2> QED BY <2>1 DEF GroupedInv, GroupedTypes
  <1>4. Setting'
    BY DEF GroupedInv, Setting
  <1>5. OutboxInv'
    BY <1>t DEF GroupedInv, OutboxInv
  <1>6. CommitInv'
    BY <1>t DEF GroupedInv, CommitInv
  <1>7. LeaderMail'
    <2>1. CASE q = Leader
      BY <1>t, <1>1, <2>1 DEF LeaderMail
    <2>2. CASE q # Leader
      <3>1. at'[Leader] = at[Leader]
        BY <1>t, <1>1, <2>2
      <3>2. group \in {"waiting", "asking"} <=> group' \in {"waiting", "asking"}
        OBVIOUS
      <3> QED BY <3>1, <3>2, SameMail DEF GroupedInv, LeaderMail
    <2> QED BY <2>1, <2>2
  <1>8. GroupInv'
    <2>1. tentatively_ready' = (IF Asked' THEN {Leader} ELSE {})
      BY <1>2 DEF GroupedInv, GroupInv
    <2>2. Asked' => /\ Leader \in ready'
                    /\ \A i \in DOMAIN rules' : Leader \in min_ready'[i]
                    /\ \A m \in Group : calls'[m] > 0
      BY <1>2 DEF GroupedInv, GroupInv
    <2>3. Asked' \/ group' = "waiting" => \A m \in Group : at'[m] = "idle"
      BY <1>t, <1>1, <1>2 DEF GroupedInv, GroupInv
    <2>4. /\ told' = (IF group' = "told" THEN committed' ELSE 0)
          /\ group' = "told" => committed' # 0
          /\ state_waiters' => group' = "waiting"
      BY DEF GroupedInv, GroupInv
    <2>5. \A m, n \in Group : at'[m] # "idle" /\ at'[n] # "idle" => m = n
      BY <1>t, <1>1 DEF GroupedInv, GroupInv
    <2>6. ASSUME group' = "formed", NEW m \in Group, at'[m] = "recv", Leader \in ready'
          PROVE  \/ \A i \in DOMAIN rules : Leader \in min_ready[i] => m \in Members(rules[i])
                 \/ committed # 0 /\ m \in Members(rules[committed])
      <3>1. CASE q \in Group
        <4>1. m = q
          BY <1>t, <1>1, <2>6, <3>1
        <4> QED BY <2>6, <3>1, <4>1 DEF GroupedInv, GroupInv
      <3>2. CASE q \notin Group
        <4>1. group = "formed" /\ at[m] = "recv" /\ Bit(q) # Leader
          BY <1>t, <1>1, <2>6, <3>2 DEF WellFormed, Bit
        <4> QED BY <2>6, <4>1 DEF GroupedInv, GroupInv
      <3> QED BY <3>1, <3>2
    <2> QED BY <2>1, <2>2, <2>3, <2>4, <2>5, <2>6 DEF GroupInv
  <1>9. ReadyInv'
    <2>1. ASSUME NEW x \in ready', x # Leader PROVE at'[x] = "recv" /\ Bit(x)' = x
      <3>1. CASE x \in ready
        BY <1>t, <1>1, <2>1, <3>1 DEF GroupedInv, ReadyInv
      <3>2. CASE x = Bit(q)
        BY <1>t, <1>1, <2>1, <3>2 DEF Bit
      <3> QED BY <2>1, <3>1, <3>2
    <2>2. ASSUME Leader \in ready' PROVE Asked' \/ \E m \in Group : at'[m] = "recv" /\ Bit(m)' = Leader
      <3>1. CASE Bit(q) = Leader
        BY <1>t, <1>1, <3>1, PortsApart DEF WellFormed, Bit
      <3>2. CASE Bit(q) # Leader
        <4>1. Leader \in ready
          BY <2>2, <3>2
        <4>2. CASE Asked /\ q \notin Group
          BY <1>2, <4>2
        <4>3. CASE Asked /\ q \in Group
          <5>1. group # "none"
            BY <4>3 DEF Asked
          <5> QED BY <3>2, <4>3, <5>1 DEF Bit
        <4>4. CASE ~Asked
          <5>1. PICK m \in Group : at[m] = "recv" /\ Bit(m) = Leader
            BY <4>1, <4>4 DEF GroupedInv, ReadyInv
          <5> QED BY <1>t, <1>1, <5>1
        <4> QED BY <4>2, <4>3, <4>4
      <3> QED BY <3>1, <3>2
    <2>3. ASSUME NEW x \in Port, at'[x] # "idle" PROVE calls'[x] > 0
      BY <1>t, <1>1, <2>3 DEF GroupedInv, ReadyInv
    <2> QED BY <2>1, <2>2, <2>3 DEF ReadyInv
  <1>10. ASSUME NEW x \in Port, x # q
         PROVE  at'[x] = at[x] /\ (at[x] = "recv" => ((Bit(x) \in ready)' <=> Bit(x) \in ready))
    <2>1. at[x] = "recv" => Bit(x) # Bit(q)
      <3>1. CASE q \in Group
        BY <1>t, <1>10, <3>1 DEF WellFormed, Bit
      <3>2. CASE q \notin Group
        BY <1>t, <1>10, <3>2, PortsApart DEF WellFormed, Bit
      <3> QED BY <3>1, <3>2
    <2> QED BY <1>1, <1>10, <2>1
  <1>11. Silent(q) /\ Bit(q)' \in ready' /\ (q \in Putter => Pending(q) = {})
    BY <1>1, IdleSilent DEF WellFormed, GroupedInv, PortsInv, PutterMail
  <1>12. PortsInv'
    <2>1. ASSUME NEW g \in Getter PROVE GetterMail(g)'
      <3>1. CASE g = q
        BY <1>1, <1>11, <3>1, SameMail DEF GetterMail
      <3>2. CASE g # q
        BY <1>10, <3>2, SameMail DEF GetterMail, GroupedInv, PortsInv, Port
      <3> QED BY <3>1, <3>2
    <2>2. ASSUME NEW p \in Putter PROVE PutterMail(p)'
      <3>0. Pending(p)' = Pending(p)
        BY SameMail
      <3>1. CASE p = q
        BY <1>1, <1>11, <3>0, <3>1, SameMail DEF PutterMail
      <3>2. CASE p # q
        <4>1. AwaitSent(p) => AwaitSent(p)'
          BY <3>0 DEF AwaitSent
        <4>2. AwaitCame(p) => AwaitCame(p)'
          BY <3>0, SameMail DEF AwaitCame
        <4> QED BY <1>10, <3>0, <3>2, <4>1, <4>2, SameMail DEF PutterMail, GroupedInv, PortsInv, Port
      <3> QED BY <3>1, <3>2
    <2>3. ASSUME NEW p \in Putter PROVE MovedOnce(p)'
      <3>1. at'[p] = "collect" => at[p] = "collect"
        BY <1>1 DEF Port
      <3> QED BY <3>1, SameMail, MovedKept DEF GroupedInv, PortsInv
    <2> QED BY <2>1, <2>2, <2>3 DEF PortsInv
  <1> QED BY <1>3, <1>4, <1>5, <1>6, <1>7, <1>8, <1>9, <1>12 DEF GroupedInv

LEMMA GroupedCall ==
    ASSUME GroupedInv, WellFormed,
           NEW q \in Port, Call(q) \/ (q \in Group /\ (CallMember(q) \/ CallTold(q)))
    PROVE  GroupedInv'
  <1>t. /\ tentatively_ready = (IF Asked THEN {Leader} ELSE {})
        /\ told = (IF group = "told" THEN committed ELSE 0)
        /\ state_waiters => group = "waiting"
        /\ group \in {"none", "waiting", "formed", "asking", "told"}
        /\ min_ready = [i \in DOMAIN rules |-> IF group = "none" THEN Members(rules[i])
                                           ELSE Grouped(Members(rules[i]))]
    BY DEF GroupedInv, GroupInv, GroupedTypes, Setting
  <1>1. CASE Call(q)
    <2>1. /\ q \notin Group /\ lock = "free" /\ at[q] = "idle" /\ calls[q] > 0 /\ Bit(q) = q
          /\ lock' = q /\ at' = [at EXCEPT ![q] = "recv"] /\ ready' = ready \cup {q}
          /\ tentatively_ready' = tentatively_ready
          /\ UNCHANGED <<rules, min_ready, wanted, calls, state, committed, state_waiters, outbox, box,
                         group, awaited, data_moved, fault, told>>
      BY <1>1 DEF Call, Enter, Bit
    <2> QED BY <2>1, GroupedEnter
  <1>2. CASE q \in Group /\ CallMember(q)
    <2>1. /\ lock = "free" /\ at[q] = "idle" /\ calls[q] > 0 /\ \A m \in Group : at[m] = "idle"
          /\ \/ group = "none"
             \/ group = "formed" /\ \A i \in DOMAIN rules : Leader \in min_ready[i] => q \in Members(rules[i])
          /\ lock' = q /\ at' = [at EXCEPT ![q] = "recv"] /\ ready' = ready \cup {Bit(q)}
          /\ tentatively_ready' = tentatively_ready \ {Bit(q)}
          /\ UNCHANGED <<rules, min_ready, wanted, calls, state, committed, state_waiters, outbox, box,
                         group, awaited, data_moved, fault, told>>
      BY <1>2 DEF CallMember, Enter, Resting, Bit
    <2>2. tentatively_ready' = tentatively_ready \ {Leader} /\ told' = 0 /\ group # "told"
      BY <1>t, <2>1 DEF Asked
    <2> QED BY <1>2, <2>1, <2>2, GroupedEnter
  <1>3. CASE q \in Group /\ CallTold(q)
    <2>1. /\ lock = "free" /\ \A m \in Group : at[m] = "idle"
          /\ group = "told" /\ q \in Members(rules[told])
          /\ lock' = q /\ at' = [at EXCEPT ![q] = "recv"]
          /\ ready' = ready \cup {Leader} /\ tentatively_ready' = tentatively_ready \ {Leader}
          /\ group' = "formed" /\ told' = 0
          /\ UNCHANGED <<rules, min_ready, wanted, calls, state, committed, state_waiters, outbox, box,
                         awaited, data_moved, fault>>
      BY <1>3 DEF CallTold, Resting
    <2>2. calls[q] > 0 /\ Bit(q) = Leader
      BY <1>3, <2>1 DEF GroupedInv, GroupInv, Asked, Bit
    <2> QED BY <1>3, <2>1, <2>2, GroupedEnter
  <1> QED BY <1>1, <1>2, <1>3


LEMMA GroupedCommit ==
    ASSUME GroupedInv, WellFormed, Commit
    PROVE  GroupedInv'
  <1>i. PICK i \in DOMAIN rules :
            /\ min_ready[i] \subseteq ready /\ committed' = i
            /\ outbox' = [n \in 1 .. Cardinality(Tentative) |->
                            [to |-> Leader, msg |-> [type |-> "fire", rule |-> i]]]
    BY DEF Commit
  <1>1. /\ outbox = <<>> /\ lock # "free" /\ committed = 0
        /\ UNCHANGED <<rules, min_ready, wanted, calls, state, ready, tentatively_ready,
                       state_waiters, lock, box, at, group, told, awaited, data_moved, fault>>
    BY DEF Commit, Advancing
  <1>2. i \in Nat /\ i # 0 /\ Leader \in Port
    <2>1. rules \in Seq(Rule)
      BY DEF GroupedInv, GroupedTypes
    <2>2. DOMAIN rules = 1 .. Len(rules) /\ Len(rules) \in Nat
      BY <2>1
    <2>3. i \in 1 .. Len(rules)
      BY <2>2
    <2>4. i \in Nat /\ i # 0
      BY <2>2, <2>3
    <2> QED BY <2>4, PortsApart
  <1>3. group # "told"
    BY <1>1 DEF GroupedInv, GroupInv
  <1>4. CASE ~Asked
    <2>1. Tentative = {}
      BY <1>4 DEF Tentative, GroupedInv, GroupInv
    <2>2. Cardinality(Tentative) = 0
      BY <2>1, FS_EmptySet
    <2>3. outbox' = <<>>
      BY <1>i, <2>2
    <2>m. UNCHANGED <<box, outbox>>
      BY <1>1, <2>3
    <2>4. GroupedTypes'
      BY <1>1, <1>i, <1>2, <2>3 DEF GroupedInv, GroupedTypes
    <2>5. Setting' /\ OutboxInv' /\ ReadyInv'
      BY <1>1, <2>m DEF GroupedInv, Setting, OutboxInv, ReadyInv, Asked, Bit
    <2>6. CommitInv'
      BY <1>1, <1>i DEF GroupedInv, CommitInv
    <2>7. LeaderMail'
      BY <1>1, <1>4, <2>m, SameMail DEF GroupedInv, LeaderMail, Asked
    <2>8. GroupInv'
      BY <1>1, <1>4 DEF GroupedInv, GroupInv, Asked
    <2>9. PortsInv'
      BY <1>1, <2>m, PortsKept DEF GroupedInv, Bit
    <2> QED BY <1>1, <2>4, <2>5, <2>6, <2>7, <2>8, <2>9 DEF GroupedInv
  <1>5. CASE Asked
    <2>1. group = "asking" /\ at[Leader] = "idle" /\ Silent(Leader)
      BY <1>1, <1>3, <1>5 DEF WellFormed, Asked, GroupedInv, GroupInv, LeaderMail
    <2>2. Tentative = {Leader}
      BY <1>5 DEF Tentative, GroupedInv, GroupInv
    <2>3. Cardinality(Tentative) = 1
      BY <2>2, FS_Singleton
    <2> DEFINE fire == [type |-> "fire", rule |-> i]
    <2>4. outbox' = <<[to |-> Leader, msg |-> fire]>>
      BY <1>i, <2>3
    <2>5. fire \in Message /\ fire.type = "fire"
      BY <1>2, MessageTyped
    <2>6. /\ \A q : Going(q)' <=> q = Leader
          /\ \A q : ~Going(q)
      BY <1>1, <2>4 DEF Going
    <2>7. \A q, m : q # Leader => (Carries(q, m)' <=> Carries(q, m)) /\ (Silent(q)' <=> Silent(q))
      BY <1>1, <2>4, <2>6 DEF Carries, Silent
    <2>8. \A m : ~Carries(Leader, m) /\ (Carries(Leader, m)' <=> m = fire)
      BY <1>1, <2>1, <2>4, <2>6 DEF Carries, Silent
    <2>9. \A p, mv : GetOf(p, mv)' = GetOf(p, mv) /\ GetOf(p, mv) # fire
      BY <1>1, <2>5 DEF GetOf
    <2> HIDE DEF fire
    <2>10. \A p : Pending(p)' = Pending(p) /\ \A g : Moving(p, g)' <=> Moving(p, g)
      <3>1. ASSUME NEW p, NEW mv, NEW g PROVE Carries(g, GetOf(p, mv))' <=> Carries(g, GetOf(p, mv))
        <4>1. CASE g = Leader
          BY <2>8, <2>9, <4>1
        <4>2. CASE g # Leader
          BY <2>7, <2>9, <4>2
        <4> QED BY <4>1, <4>2
      <3> QED BY <3>1 DEF Pending, Moving
    <2>11. GroupedTypes'
      <3>1. outbox' \in Seq([to : Port, msg : Message])
        BY <1>2, <2>4, <2>5
      <3> QED BY <1>1, <1>i, <1>2, <3>1 DEF GroupedInv, GroupedTypes
    <2>12. Setting' /\ ReadyInv'
      BY <1>1 DEF GroupedInv, Setting, ReadyInv, Asked, Bit
    <2>13. OutboxInv'
      BY <1>1, <2>1, <2>4 DEF OutboxInv, Silent
    <2>14. CommitInv'
      BY <1>1, <1>i DEF GroupedInv, CommitInv
    <2>15. LeaderMail'
      BY <1>1, <1>i, <1>2, <2>1, <2>8 DEF LeaderMail, fire
    <2>16. GroupInv'
      BY <1>1, <2>1 DEF GroupedInv, GroupInv, Asked
    <2>17. PortsInv'
      <3>1. ASSUME NEW g \in Getter PROVE GetterMail(g)'
        <4>1. g = Leader => at'[g] = "idle"
          BY <1>1, <2>1
        <4> QED BY <1>1, <2>7, <2>10, <4>1 DEF GetterMail, GroupedInv, PortsInv, Bit
      <3>2. ASSUME NEW p \in Putter PROVE PutterMail(p)'
        <4>1. CASE p = Leader
          BY <1>1, <2>1, <2>10, <4>1 DEF PutterMail, GroupedInv, PortsInv
        <4>2. CASE p # Leader
          <5>1. ~AwaitSent(p)
            BY <1>1 DEF AwaitSent
          <5> QED BY <1>1, <2>6, <2>10, <4>2, <5>1, PutterKept DEF GroupedInv, PortsInv, Bit
        <4> QED BY <4>1, <4>2
      <3>3. ASSUME NEW p \in Putter PROVE MovedOnce(p)'
        BY <1>1, <2>10, MovedKept DEF GroupedInv, PortsInv, Moved
      <3> QED BY <3>1, <3>2, <3>3 DEF PortsInv
    <2> QED BY <1>1, <2>11, <2>12, <2>13, <2>14, <2>15, <2>16, <2>17 DEF GroupedInv
  <1> QED BY <1>4, <1>5

\* an asking or waiting group takes what came for its leader
LEMMA LeaderTakes ==
    ASSUME GroupedInv, WellFormed, NEW m \in Message, Carries(Leader, m), m.type \in {"state", "fire"},
           at[Leader] = "idle", box[Leader] # <<>>, box' = [box EXCEPT ![Leader] = Tail(@)],
           \A p \in Putter : calls'[p] = calls[p],
           UNCHANGED <<outbox, awaited, data_moved, at>>,
           \A q \in Port : (Bit(q) \in ready)' <=> Bit(q) \in ready
    PROVE  /\ Head(box[Leader]) = m /\ Silent(Leader)' /\ PortsInv'
           /\ lock' = lock => OutboxInv'
           /\ box' \in [Port -> Seq(Message)]
  <1>t. box \in [Port -> Seq(Message)] /\ Leader \in Port
    BY PortsApart DEF GroupedInv, GroupedTypes
  <1>1. box[Leader] = <<m>> /\ ~Going(Leader)
    BY <1>t, CarriesOne DEF GroupedInv
  <1>2. box'[Leader] = <<>> /\ \A q \in Port : q # Leader => box'[q] = box[q]
    BY <1>t, <1>1
  <1>3. \A q : Going(q)' <=> Going(q)
    BY DEF Going
  <1>4. /\ \A q \in Port : q # Leader => (Silent(q)' <=> Silent(q))
        /\ \A q \in Port : \A k : q # Leader => (Carries(q, k)' <=> Carries(q, k))
    BY <1>2, <1>3 DEF Silent, Carries
  <1>5. Silent(Leader)' /\ \A k : ~Carries(Leader, k)'
    BY <1>1, <1>2, <1>3 DEF Silent, Carries, Going
  <1>6. ASSUME NEW p \in Putter PROVE Pending(p)' = Pending(p) /\ \A g : Moving(p, g)' <=> Moving(p, g)
    <2>1. ASSUME NEW mv, NEW g \in Getter PROVE Carries(g, GetOf(p, mv))' <=> Carries(g, GetOf(p, mv))
      <3>1. GetOf(p, mv)' = GetOf(p, mv) /\ GetOf(p, mv).type = "get"
        BY DEF GetOf
      <3>2. CASE g = Leader
        BY <1>5, <3>1, <3>2, CarriesOne DEF GroupedInv, Port
      <3>3. CASE g # Leader
        BY <1>4, <3>1, <3>3 DEF Port
      <3> QED BY <3>2, <3>3
    <2> QED BY <2>1 DEF Pending, Moving
  <1>7. ASSUME NEW g \in Getter PROVE GetterMail(g)'
    BY <1>4, <1>5, <1>6 DEF GetterMail, GroupedInv, PortsInv, Port
  <1>8. ASSUME NEW p \in Putter PROVE PutterMail(p)'
    <2>1. CASE p = Leader
      BY <1>6, <2>1 DEF PutterMail, GroupedInv, PortsInv
    <2>2. CASE p # Leader
      <3>1. AwaitSent(p) => \A g \in Pending(p) : box[g] = <<>> => box'[g] = <<>>
        <4>1. Pending(p) \subseteq Port
          BY DEF Pending, Port
        <4> QED BY <1>2, <4>1
      <3> QED BY <1>2, <1>3, <1>6, <2>2, <3>1, PutterKept DEF GroupedInv, PortsInv, Port, AwaitSent
    <2> QED BY <2>1, <2>2
  <1>9. ASSUME NEW p \in Putter PROVE MovedOnce(p)'
    <2>1. \A n : Moved(p, n)' => Moved(p, n)
      BY <1>2 DEF Moved, Port
    <2> QED BY <1>6, <2>1, MovedKept DEF GroupedInv, PortsInv
  <1>10. PortsInv'
    BY <1>7, <1>8, <1>9 DEF PortsInv
  <1>11. lock' = lock => OutboxInv'
    <2>1. outbox \in Seq([to : Port, msg : Message])
      BY DEF GroupedInv, GroupedTypes
    <2>2. ASSUME NEW n \in DOMAIN outbox PROVE outbox[n].to \in Port
      <3>1. outbox[n] \in [to : Port, msg : Message]
        <4>1. DOMAIN outbox = 1 .. Len(outbox)
          BY <2>1
        <4> QED BY <2>1, <4>1, ElementOfSeq
      <3> QED BY <3>1
    <2> QED BY <1>2, <2>2 DEF GroupedInv, OutboxInv
  <1>12. box' \in [Port -> Seq(Message)]
    BY <1>t, <1>1
  <1> QED BY <1>1, <1>5, <1>10, <1>11, <1>12

LEMMA GroupedFormed ==
    ASSUME GroupedInv, WellFormed, Formed
    PROVE  GroupedInv'
  <1>1. /\ group = "waiting" /\ box[Leader] # <<>> /\ box' = [box EXCEPT ![Leader] = Tail(@)]
        /\ fault' = (fault \/ Head(box[Leader]).type # "state") /\ group' = "formed"
        /\ UNCHANGED <<rules, min_ready, wanted, calls, state, ready, tentatively_ready, committed,
                       state_waiters, lock, outbox, at, told, awaited, data_moved>>
    BY DEF Formed, Receives
  <1>2. at[Leader] = "idle" /\ \A m \in Group : at[m] = "idle"
    BY <1>1 DEF WellFormed, GroupedInv, GroupInv
  <1>3. ~state_waiters
    BY <1>1, <1>2 DEF GroupedInv, LeaderMail, Silent
  <1>4. Carries(Leader, [type |-> "state"])
    BY <1>1, <1>2, <1>3 DEF GroupedInv, LeaderMail
  <1>5. /\ Head(box[Leader]) = [type |-> "state"] /\ Silent(Leader)' /\ PortsInv' /\ OutboxInv'
        /\ box' \in [Port -> Seq(Message)]
    BY <1>1, <1>2, <1>4, LeaderTakes, MessageTyped DEF Bit
  <1>6. ~fault'
    <2>1. Head(box[Leader]).type = "state"
      BY <1>5
    <2> QED BY <1>1, <2>1 DEF GroupedInv
  <1>7. GroupedTypes'
    BY <1>1, <1>5, <1>6 DEF GroupedInv, GroupedTypes
  <1>8. (Setting /\ CommitInv /\ ReadyInv)'
    BY <1>1 DEF GroupedInv, Setting, CommitInv, ReadyInv, Asked, Bit
  <1>9. LeaderMail'
    BY <1>1, <1>5 DEF LeaderMail
  <1>10. GroupInv'
    BY <1>1, <1>2, <1>3 DEF GroupedInv, GroupInv, Asked
  <1> QED BY <1>5, <1>6, <1>7, <1>8, <1>9, <1>10 DEF GroupedInv

LEMMA GroupedDetermined ==
    ASSUME GroupedInv, WellFormed, Determined
    PROVE  GroupedInv'
  <1>1. /\ group = "asking" /\ box[Leader] # <<>> /\ box' = [box EXCEPT ![Leader] = Tail(@)]
        /\ fault' = (fault \/ Head(box[Leader]).type # "fire") /\ group' = "told"
        /\ told' = (IF Head(box[Leader]).type = "fire" THEN Head(box[Leader]).rule ELSE 0)
        /\ UNCHANGED <<rules, min_ready, wanted, calls, state, ready, tentatively_ready, committed,
                       state_waiters, lock, outbox, at, awaited, data_moved>>
    BY DEF Determined
  <1>2. at[Leader] = "idle" /\ \A m \in Group : at[m] = "idle"
    BY <1>1 DEF WellFormed, GroupedInv, GroupInv, Asked
  <1>3. committed # 0 /\ committed \in Nat
    BY <1>1, <1>2 DEF GroupedInv, GroupedTypes, LeaderMail, Silent
  <1>4. Carries(Leader, [type |-> "fire", rule |-> committed])
    BY <1>1, <1>2, <1>3 DEF GroupedInv, LeaderMail
  <1>5. /\ Head(box[Leader]) = [type |-> "fire", rule |-> committed] /\ Silent(Leader)' /\ PortsInv'
        /\ OutboxInv' /\ box' \in [Port -> Seq(Message)]
    <2>1. [type |-> "fire", rule |-> committed] \in Message
      BY <1>3, MessageTyped
    <2> QED BY <1>1, <1>2, <1>4, <2>1, LeaderTakes DEF Bit
  <1>6. ~fault' /\ told' = committed
    <2>1. Head(box[Leader]).type = "fire" /\ Head(box[Leader]).rule = committed
      BY <1>5
    <2> QED BY <1>1, <2>1 DEF GroupedInv
  <1>7. GroupedTypes'
    BY <1>1, <1>3, <1>5, <1>6 DEF GroupedInv, GroupedTypes
  <1>8. (Setting /\ CommitInv /\ ReadyInv)'
    BY <1>1 DEF GroupedInv, Setting, CommitInv, ReadyInv, Asked, Bit
  <1>9. LeaderMail'
    BY <1>1, <1>5 DEF LeaderMail
  <1>10. GroupInv'
    BY <1>1, <1>2, <1>3, <1>6 DEF GroupedInv, GroupInv, Asked
  <1> QED BY <1>5, <1>6, <1>7, <1>8, <1>9, <1>10 DEF GroupedInv

\* a protocol that is grouped is one without constraints, whose rules have one
\* member of the group at most
LEMMA GroupOfOne ==
    ASSUME Setting, AllGroupable, wanted # {}, NEW i \in DOMAIN rules
    PROVE  /\ rules[i].when = {0, 1}
           /\ \A a, b \in Members(rules[i]) \cap Group : a = b
  <1>1. PICK d \in Defs : rules = d.rules /\ wanted = d.wanted
    BY DEF Setting
  <1>2. Groupable(d) /\ d.wanted # {}
    BY <1>1 DEF Setting, AllGroupable
  <1> QED BY <1>1, <1>2 DEF Groupable

LEMMA RuleTyped ==
    ASSUME GroupedInv, WellFormed, NEW i \in DOMAIN rules
    PROVE  /\ rules[i].putter \in Putter /\ rules[i].getters \in Seq(Getter)
           /\ \A j, k \in DOMAIN rules[i].getters :
                 rules[i].getters[j] = rules[i].getters[k] => j = k
           /\ Members(rules[i]) = {rules[i].putter} \cup Range(rules[i].getters)
           /\ Members(rules[i]) \subseteq Port
           /\ min_ready[i] = IF group = "none" THEN Members(rules[i])
                             ELSE Grouped(Members(rules[i]))
  <1>1. rules \in Seq(Rule)
    BY DEF GroupedInv, GroupedTypes
  <1>2. rules[i] \in Rule
    <2>1. DOMAIN rules = 1 .. Len(rules)
      BY <1>1
    <2> QED BY <1>1, <2>1, ElementOfSeq
  <1>3. rules[i].putter \in Putter /\ rules[i].getters \in Seq(Getter)
    BY <1>2 DEF Rule
  <1>4. Members(rules[i]) = {rules[i].putter} \cup Range(rules[i].getters)
    BY DEF Members, Range
  <1>5. Range(rules[i].getters) \subseteq Getter
    BY <1>3, RangeOfSeq
  <1>6. \A j, k \in DOMAIN rules[i].getters : rules[i].getters[j] = rules[i].getters[k] => j = k
    BY DEF WellFormed, GroupedInv, Setting
  <1> QED BY <1>3, <1>4, <1>5, <1>6 DEF GroupedInv, Setting, Port

\* the members of the committed rule wait, once no group is only asking
LEMMA MembersWait ==
    ASSUME GroupedInv, WellFormed, AllGroupable, committed # 0, ~Asked
    PROVE  /\ \A q \in Members(rules[committed]) : at[q] = "recv" /\ Bit(q) \in ready
           /\ \A q \in Port : at[q] # "idle" =>
                 (Bit(q) \in min_ready[committed] <=> q \in Members(rules[committed]))
  <1> DEFINE R == Members(rules[committed])
  <1>1. committed \in DOMAIN rules /\ min_ready[committed] \subseteq ready
    BY DEF GroupedInv, CommitInv
  <1>2. R \subseteq Port /\ min_ready[committed] = IF group = "none" THEN R ELSE Grouped(R)
    BY <1>1, RuleTyped
  <1>3. group # "none" => \A a, b \in R \cap Group : a = b
    BY <1>1, GroupOfOne DEF GroupedInv, Setting
  <1>4. Leader \in ready => \E m \in Group : at[m] = "recv" /\ Bit(m) = Leader
    BY DEF GroupedInv, ReadyInv
  <1>5. \A q \in ready : q # Leader => at[q] = "recv" /\ Bit(q) = q
    BY DEF GroupedInv, ReadyInv
  <1> HIDE DEF R
  <1>6. ASSUME NEW q \in R PROVE at[q] = "recv" /\ Bit(q) \in ready
    <2>1. CASE q \in min_ready[committed] /\ q # Leader
      BY <1>1, <1>5, <2>1
    <2>2. CASE q = Leader /\ group = "none"
      <3>1. q \in ready
        BY <1>1, <1>2, <1>6, <2>2
      <3> QED BY <1>4, <2>2, <3>1 DEF Bit
    <2>3. CASE q \in Group /\ group # "none"
      <3>1. Leader \in ready
        BY <1>1, <1>2, <1>6, <2>3 DEF Grouped
      <3>2. PICK m \in Group : at[m] = "recv"
        BY <1>4, <3>1
      <3>3. group = "formed"
        BY <2>3, <3>2 DEF GroupedInv, GroupedTypes, GroupInv, Asked
      <3>4. m \in R
        <4>1. Leader \in min_ready[committed]
          BY <1>2, <1>6, <2>3 DEF Grouped
        <4> QED BY <1>1, <3>1, <3>2, <3>3, <4>1 DEF GroupedInv, GroupInv, R
      <3> QED BY <1>3, <1>6, <2>3, <3>1, <3>2, <3>4 DEF Bit
    <2>4. CASE q \notin Group
      <3>1. q \in min_ready[committed] /\ q # Leader
        BY <1>2, <1>6, <2>4 DEF WellFormed, Grouped
      <3> QED BY <2>1, <3>1
    <2> QED BY <1>2, <1>6, <2>1, <2>2, <2>3, <2>4
  <1>7. ASSUME NEW q \in Port, at[q] # "idle" PROVE Bit(q) \in min_ready[committed] <=> q \in R
    <2>1. CASE group = "none"
      BY <1>2, <2>1 DEF Bit
    <2>2. CASE group # "none" /\ q \notin Group
      BY <1>2, <2>2 DEF WellFormed, Bit, Grouped
    <2>3. CASE group # "none" /\ q \in Group
      <3>1. Bit(q) = Leader
        BY <2>3 DEF Bit
      <3>2. q \in R => Leader \in min_ready[committed]
        BY <1>2, <2>3 DEF Grouped
      <3>3. ASSUME Leader \in min_ready[committed] PROVE q \in R
        <4>1. PICK x \in R : x \in Group
          BY <1>2, <2>3, <3>3 DEF WellFormed, Grouped
        <4>2. at[x] # "idle"
          BY <1>6, <4>1
        <4>3. x = q
          BY <1>7, <2>3, <4>1, <4>2 DEF GroupedInv, GroupInv
        <4> QED BY <4>1, <4>3
      <3> QED BY <3>1, <3>2, <3>3
    <2> QED BY <2>1, <2>2, <2>3
  <1> QED BY <1>6, <1>7 DEF R

\* what distribute_ptr and notify_waiters decide to send
AwaitOf(p) == [type |-> "await", count |-> p]
Asking(r, k) == GetOf(r.putter, k = 1)
Deciding(r, notes) ==
    /\ r \in Rule /\ notes \in {0, 1}
    /\ \A j, k \in DOMAIN r.getters : r.getters[j] = r.getters[k] => j = k
    /\ notes = 1 => Leader \notin {r.putter} \cup Range(r.getters)
Decided(r, notes) ==
    Distribute(r) \o (IF notes = 1 THEN <<[to |-> Leader, msg |-> [type |-> "state"]]>> ELSE <<>>)
Decision(O, r, notes) ==
    /\ O \in Seq([to : Port, msg : Message]) /\ O # <<>>
    /\ O[1] = [to |-> r.putter, msg |-> AwaitOf(Len(r.getters))]
    /\ \A j, k \in DOMAIN O : O[j].to = O[k].to => j = k
    /\ \A n \in DOMAIN O :
          \/ O[n] = [to |-> r.putter, msg |-> AwaitOf(Len(r.getters))]
          \/ \E k \in DOMAIN r.getters : O[n] = [to |-> r.getters[k], msg |-> Asking(r, k)]
          \/ notes = 1 /\ O[n] = [to |-> Leader, msg |-> [type |-> "state"]]
    /\ \A k \in DOMAIN r.getters : \E n \in DOMAIN O :
          O[n] = [to |-> r.getters[k], msg |-> Asking(r, k)]
    /\ notes = 1 => \E n \in DOMAIN O : O[n] = [to |-> Leader, msg |-> [type |-> "state"]]

LEMMA Distributed ==
    ASSUME WellFormed, GroupedTypes, NEW r, NEW notes, Deciding(r, notes)
    PROVE  Decision(Decided(r, notes), r, notes)
  <1>0. /\ r \in Rule /\ notes \in {0, 1}
        /\ \A j, k \in DOMAIN r.getters : r.getters[j] = r.getters[k] => j = k
        /\ notes = 1 => Leader \notin {r.putter} \cup Range(r.getters)
    BY DEF Deciding
  <1> DEFINE O == Decided(r, notes)
  <1> DEFINE note == notes = 1
  <1> DEFINE N == Len(r.getters)
             ask(k) == [to |-> r.getters[k], msg |-> Asking(r, k)]
             first == [to |-> r.putter, msg |-> AwaitOf(N)]
             last == [to |-> Leader, msg |-> [type |-> "state"]]
             mid == [k \in DOMAIN r.getters |-> ask(k)]
             tail == IF note THEN <<last>> ELSE <<>>
  <1>1. /\ r.putter \in Putter /\ r.getters \in Seq(Getter) /\ N \in Nat
        /\ DOMAIN r.getters = 1 .. N
        /\ \A k \in 1 .. N : r.getters[k] \in Getter
        /\ \A j, k \in 1 .. N : r.getters[j] = r.getters[k] => j = k
    BY <1>0 DEF Rule
  <1>2. O = <<first>> \o mid \o tail
    BY DEF Distribute, GetOf, AwaitOf, Asking, Decided
  <1> HIDE DEF O
  <1>3. /\ first \in [to : Port, msg : Message] /\ last \in [to : Port, msg : Message]
        /\ \A k \in 1 .. N : ask(k) \in [to : Port, msg : Message]
    <2>1. calls[r.putter] \in Nat
      BY <1>1 DEF GroupedTypes, Port
    <2>2. AwaitOf(N) \in Message /\ \A k : Asking(r, k) \in Message
      BY <1>1, <2>1, MessageTyped DEF AwaitOf, GetOf, Asking
    <2> QED BY <1>1, <2>2, MessageTyped, PortsApart
  <1>4. /\ first.to = r.putter /\ last.to = Leader /\ \A k : ask(k).to = r.getters[k]
    OBVIOUS
  <1> HIDE DEF first, ask, last
  <1>5. mid \in Seq([to : Port, msg : Message]) /\ Len(mid) = N /\ \A k \in 1 .. N : mid[k] = ask(k)
    BY <1>1, <1>3
  <1>7. <<first>> \in Seq([to : Port, msg : Message]) /\ Len(<<first>>) = 1 /\ <<first>>[1] = first
    BY <1>3
  <1> DEFINE M == IF note THEN N + 2 ELSE N + 1
  <1>8. /\ O \in Seq([to : Port, msg : Message])
        /\ M \in Nat /\ Len(O) = M
        /\ O[1] = first
        /\ \A k \in 1 .. N : O[k + 1] = ask(k)
        /\ note => O[N + 2] = last
    <2> DEFINE head == <<first>> \o mid
    <2>1. head \in Seq([to : Port, msg : Message]) /\ Len(head) = N + 1
      BY <1>1, <1>5, <1>7
    <2>2. \A k \in 1 .. N : head[k + 1] = ask(k)
      BY <1>1, <1>5, <1>7
    <2>3. head[1] = first
      BY <1>1, <1>5, <1>7
    <2>o. O = head \o tail
      BY <1>2
    <2> HIDE DEF head
    <2>4. CASE note
      <3>1. tail = <<last>> /\ M = N + 2
        BY <2>4 DEF tail
      <3>t. tail \in Seq([to : Port, msg : Message]) /\ Len(tail) = 1 /\ tail[1] = last
        <4>1. <<last>> \in Seq([to : Port, msg : Message]) /\ Len(<<last>>) = 1 /\ <<last>>[1] = last
          BY <1>3
        <4> QED BY <3>1, <4>1
      <3>2. O \in Seq([to : Port, msg : Message]) /\ Len(O) = N + 2
        <4>1. head \o tail \in Seq([to : Port, msg : Message])
          BY <2>1, <3>t, ConcatProperties
        <4>2. Len(head \o tail) = N + 2
          BY <1>1, <2>1, <3>t, ConcatProperties
        <4> QED BY <2>o, <4>1, <4>2
      <3>3. \A k \in 1 .. N + 1 : O[k] = head[k]
        BY <1>1, <2>1, <2>o, <3>t
      <3>4. O[N + 2] = last
        BY <1>1, <2>1, <2>o, <3>t
      <3>5. 1 \in 1 .. N + 1 /\ \A k \in 1 .. N : k + 1 \in 1 .. N + 1
        BY <1>1
      <3>6. O[1] = first /\ \A k \in 1 .. N : O[k + 1] = ask(k)
        BY <2>2, <2>3, <3>3, <3>5
      <3>7. M \in Nat /\ Len(O) = M
        BY <1>1, <3>1, <3>2
      <3> QED BY <3>2, <3>4, <3>6, <3>7
    <2>5. CASE ~note
      <3>1. tail = <<>> /\ M = N + 1
        BY <2>5 DEF tail
      <3>2. O = head
        BY <2>1, <2>o, <3>1
      <3>3. M \in Nat /\ Len(O) = M
        BY <1>1, <2>1, <3>1, <3>2
      <3> QED BY <2>1, <2>2, <2>3, <2>5, <3>2, <3>3
    <2> QED BY <2>4, <2>5
  <1>9. DOMAIN O = 1 .. M /\ O # <<>> /\ 1 \in 1 .. M
    BY <1>1, <1>8
  <1>10. ASSUME NEW n \in DOMAIN O
         PROVE  n = 1 \/ (\E k \in 1 .. N : n = k + 1) \/ (note /\ n = N + 2)
    <2>1. n \in Nat /\ 1 <= n /\ n <= M
      BY <1>1, <1>8, <1>9
    <2>2. CASE 1 < n /\ n <= N + 1
      <3>1. n - 1 \in 1 .. N /\ n = (n - 1) + 1
        BY <1>1, <2>1, <2>2
      <3> QED BY <3>1
    <2>3. CASE n > N + 1
      <3>1. note
        BY <1>1, <2>1, <2>3
      <3>2. n = N + 2
        BY <1>1, <2>1, <2>3, <3>1
      <3> QED BY <3>1, <3>2
    <2> QED BY <1>1, <2>1, <2>2, <2>3
  <1>11. \A n \in DOMAIN O : O[n] = first \/ (\E k \in 1 .. N : O[n] = ask(k)) \/ (note /\ O[n] = last)
    BY <1>8, <1>10
  <1>12. /\ \A k \in 1 .. N : k + 1 \in DOMAIN O
         /\ note => N + 2 \in DOMAIN O
    <2>1. \A k \in 1 .. N : k + 1 \in 1 .. M
      BY <1>1
    <2>2. note => N + 2 \in 1 .. M
      BY <1>1
    <2> QED BY <1>9, <2>1, <2>2
  <1>13. ASSUME NEW j \in DOMAIN O, NEW k \in DOMAIN O, O[j].to = O[k].to PROVE j = k
    <2>1. \A x \in 1 .. N : r.getters[x] # r.putter
      BY <1>0, <1>1, PortsApart
    <2>2. note => Leader # r.putter /\ \A x \in 1 .. N : r.getters[x] # Leader
      BY <1>0, <1>1 DEF Range
    <2>3. CASE j = 1
      BY <1>4, <1>8, <1>10, <1>13, <2>1, <2>2, <2>3
    <2>4. CASE note /\ j = N + 2
      <3>1. O[j].to = Leader
        BY <1>4, <1>8, <2>4
      <3>2. k # 1
        BY <1>4, <1>8, <1>13, <2>2, <2>4, <3>1
      <3>3. ASSUME NEW y \in 1 .. N, k = y + 1 PROVE FALSE
        <4>1. O[k].to = r.getters[y]
          BY <1>4, <1>8, <3>3
        <4> QED BY <1>13, <2>2, <2>4, <3>1, <4>1
      <3> QED BY <1>10, <2>4, <3>2, <3>3
    <2>5. ASSUME NEW x \in 1 .. N, j = x + 1 PROVE j = k
      <3>1. O[j].to = r.getters[x]
        BY <1>4, <1>8, <2>5
      <3>2. CASE k = 1
        BY <1>4, <1>8, <1>13, <2>1, <3>1, <3>2
      <3>3. CASE note /\ k = N + 2
        BY <1>4, <1>8, <1>13, <2>2, <3>1, <3>3
      <3>4. ASSUME NEW y \in 1 .. N, k = y + 1 PROVE j = k
        <4>1. r.getters[x] = r.getters[y]
          BY <1>4, <1>8, <1>13, <3>1, <3>4
        <4>2. x = y
          BY <1>1, <4>1
        <4> QED BY <2>5, <3>4, <4>2
      <3> QED BY <1>10, <3>2, <3>3, <3>4
    <2> QED BY <1>10, <2>3, <2>4, <2>5
  <1>14. Decision(O, r, notes)
    BY <1>1, <1>8, <1>9, <1>11, <1>12, <1>13 DEF first, ask, last, Decision
  <1> QED BY <1>14 DEF O

LEMMA FireMail ==
    ASSUME GroupedInv, WellFormed, AllGroupable, outbox = <<>>, committed # 0, ~Asked,
           NEW r, r = rules[committed], NEW notes \in {0, 1}, notes = 1 => state_waiters,
           outbox' = Decided(r, notes),
           UNCHANGED <<box, calls>>
    PROVE  LET R == Members(r)
           IN  /\ outbox' \in Seq([to : Port, msg : Message]) /\ outbox' # <<>>
               /\ outbox'[1] = [to |-> r.putter, msg |-> AwaitOf(Cardinality(Range(r.getters)))]
               /\ \A j, k \in DOMAIN outbox' : outbox'[j].to = outbox'[k].to => j = k
               /\ \A n \in DOMAIN outbox' : box[outbox'[n].to] = <<>>
               /\ \A q \in Port : q \notin R /\ ~(notes = 1 /\ q = Leader) =>
                     /\ (Going(q)' <=> Going(q)) /\ (Silent(q)' <=> Silent(q))
                     /\ \A m : Carries(q, m)' <=> Carries(q, m)
               /\ notes = 1 => Carries(Leader, [type |-> "state"])' /\ at[Leader] = "idle"
               /\ Pending(r.putter)' = Range(r.getters)
               /\ \A p \in Putter : p # r.putter =>
                     Pending(p)' = Pending(p) /\ \A g : Moving(p, g)' <=> Moving(p, g)
               /\ \A g, h : Moving(r.putter, g)' /\ Moving(r.putter, h)' => g = h
  <1> DEFINE note == notes = 1
             R == Members(r)
             S == Range(r.getters)
             p0 == r.putter
             stateMsg == [type |-> "state"]
  <1>1. committed \in DOMAIN rules /\ r \in Rule
    <2>1. committed \in DOMAIN rules /\ rules \in Seq(Rule)
      BY DEF GroupedInv, CommitInv, GroupedTypes
    <2>2. DOMAIN rules = 1 .. Len(rules)
      BY <2>1
    <2> QED BY <2>1, <2>2, ElementOfSeq
  <1>2. /\ p0 \in Putter /\ r.getters \in Seq(Getter) /\ R = {p0} \cup S /\ R \subseteq Port
        /\ \A j, k \in DOMAIN r.getters : r.getters[j] = r.getters[k] => j = k
    BY <1>1, RuleTyped
  <1>g. /\ DOMAIN r.getters = 1 .. Len(r.getters) /\ Len(r.getters) \in Nat
        /\ S \subseteq Getter /\ S \subseteq R /\ p0 \in R
        /\ \A k \in DOMAIN r.getters : r.getters[k] \in S
        /\ \A x \in S : \E k \in DOMAIN r.getters : x = r.getters[k]
        /\ r.getters \in [1 .. Len(r.getters) -> S]
    <2>1. r.getters \in Seq(Getter)
      BY <1>2
    <2>2. S \subseteq Getter
      BY <2>1, RangeOfSeq
    <2>3. DOMAIN r.getters = 1 .. Len(r.getters) /\ Len(r.getters) \in Nat
      BY <2>1
    <2>4. /\ \A k \in DOMAIN r.getters : r.getters[k] \in S
          /\ \A x \in S : \E k \in DOMAIN r.getters : x = r.getters[k]
      BY DEF Range
    <2>5. r.getters \in [1 .. Len(r.getters) -> Getter]
      BY <2>1
    <2>6. r.getters \in [1 .. Len(r.getters) -> S]
      BY <2>3, <2>4, <2>5
    <2> QED BY <1>2, <2>2, <2>3, <2>4, <2>6
  <1>3. \A q \in R : at[q] = "recv" /\ Bit(q) \in ready
    BY MembersWait
  <1>4. \A q \in R : Silent(q)
    BY <1>2, <1>3 DEF GroupedInv, PortsInv, GetterMail, PutterMail, Port
  <1>5. note => at[Leader] = "idle" /\ Leader \notin R /\ Silent(Leader)
    <2>1. note => group = "waiting" /\ at[Leader] = "idle"
      BY DEF WellFormed, GroupedInv, GroupInv
    <2> QED BY <1>3, <2>1 DEF GroupedInv, LeaderMail
  <1>6. Cardinality(S) = Len(r.getters)
    <2>1. r.getters \in Bijection(1 .. Len(r.getters), S)
      <3>1. \A j, k \in 1 .. Len(r.getters) : r.getters[j] = r.getters[k] => j = k
        BY <1>2, <1>g
      <3>2. \A x \in S : \E k \in 1 .. Len(r.getters) : r.getters[k] = x
        BY <1>g DEF WellFormed
      <3> HIDE DEF S
      <3> QED BY <1>g, <3>1, <3>2 DEF Bijection, Injection, Surjection, IsInjective
    <2>2. ExistsBijection(1 .. Len(r.getters), S)
      BY <2>1 DEF ExistsBijection
    <2> QED BY <1>g, <2>2, FS_CountingElements
  <1>t. GroupedTypes /\ Leader \in Port
    BY PortsApart DEF GroupedInv
  <1>7. /\ outbox' \in Seq([to : Port, msg : Message]) /\ outbox' # <<>>
        /\ outbox'[1] = [to |-> p0, msg |-> AwaitOf(Len(r.getters))]
        /\ \A j, k \in DOMAIN outbox' : outbox'[j].to = outbox'[k].to => j = k
        /\ \A n \in DOMAIN outbox' :
              \/ outbox'[n] = [to |-> p0, msg |-> AwaitOf(Len(r.getters))]
              \/ \E k \in DOMAIN r.getters : outbox'[n] = [to |-> r.getters[k], msg |-> Asking(r, k)]
              \/ note /\ outbox'[n] = [to |-> Leader, msg |-> stateMsg]
        /\ \A k \in DOMAIN r.getters : \E n \in DOMAIN outbox' :
              outbox'[n] = [to |-> r.getters[k], msg |-> Asking(r, k)]
        /\ note => \E n \in DOMAIN outbox' : outbox'[n] = [to |-> Leader, msg |-> stateMsg]
    <2>1. notes = 1 => Leader \notin {r.putter} \cup Range(r.getters)
      BY <1>2, <1>5
    <2>2. Decision(Decided(r, notes), r, notes)
      <3>1. Deciding(r, notes)
        BY <1>1, <1>2, <2>1 DEF Deciding
      <3> QED BY <1>t, <3>1, Distributed
    <2>3. Decision(outbox', r, notes)
      BY <2>2
    <2> QED BY <2>3 DEF Decision
  <1> HIDE DEF R, S, p0, stateMsg
  <1>8. \A n \in DOMAIN outbox' : outbox'[n].to \in R \/ (note /\ outbox'[n].to = Leader)
    <2> SUFFICES ASSUME NEW n \in DOMAIN outbox' PROVE outbox'[n].to \in R \/ (note /\ outbox'[n].to = Leader)
      OBVIOUS
    <2>1. CASE outbox'[n] = [to |-> p0, msg |-> AwaitOf(Len(r.getters))]
      BY <1>g, <2>1
    <2>2. ASSUME NEW k \in DOMAIN r.getters, outbox'[n] = [to |-> r.getters[k], msg |-> Asking(r, k)]
          PROVE  outbox'[n].to \in R
      BY <1>g, <2>2
    <2>3. CASE note /\ outbox'[n] = [to |-> Leader, msg |-> stateMsg]
      BY <2>3
    <2> QED BY <1>7, <2>1, <2>2, <2>3
  <1>9. \A n \in DOMAIN outbox' : box[outbox'[n].to] = <<>>
    BY <1>4, <1>5, <1>8 DEF Silent
  <1>10. ASSUME NEW q \in Port, q \notin R, ~(note /\ q = Leader)
         PROVE  /\ (Going(q)' <=> Going(q)) /\ (Silent(q)' <=> Silent(q))
                /\ \A m : Carries(q, m)' <=> Carries(q, m)
    <2>1. ~Going(q) /\ ~Going(q)'
      BY <1>8, <1>10 DEF Going
    <2> QED BY <2>1 DEF Silent, Carries, Going
  <1>11. note => Carries(Leader, stateMsg)'
    BY <1>5, <1>7 DEF Silent, Carries
  <1>12. ASSUME NEW k \in DOMAIN r.getters, NEW m
         PROVE  Carries(r.getters[k], m)' <=> m = Asking(r, k)
    <2>1. r.getters[k] \in S /\ r.getters[k] \in R
      BY <1>2, <1>12 DEF S, Range
    <2>2. PICK n \in DOMAIN outbox' : outbox'[n] = [to |-> r.getters[k], msg |-> Asking(r, k)]
      BY <1>7
    <2>3. box'[r.getters[k]] = <<>>
      BY <1>4, <2>1 DEF Silent
    <2>4. ASSUME NEW j \in DOMAIN outbox', outbox'[j].to = r.getters[k]
          PROVE  outbox'[j].msg = Asking(r, k)
      <3>1. outbox'[n].to = r.getters[k] /\ outbox'[n].msg = Asking(r, k)
        BY <2>2
      <3>2. j = n
        BY <1>7, <2>4, <3>1
      <3> QED BY <3>1, <3>2
    <2> QED BY <2>2, <2>3, <2>4 DEF Carries
  <1>13. ASSUME NEW p \in Putter, NEW mv, NEW g \in Getter
         PROVE  /\ GetOf(p, mv)' = GetOf(p, mv)
                /\ p # p0 => (Carries(g, GetOf(p, mv))' <=> Carries(g, GetOf(p, mv)))
                /\ Carries(g, GetOf(p0, mv))' => g \in S
                /\ ~Carries(g, GetOf(p0, mv))
    <2>1. GetOf(p, mv)' = GetOf(p, mv) /\ GetOf(p, mv).from = p /\ GetOf(p, mv).type = "get"
      BY DEF GetOf
    <2>0. GetOf(p0, mv).from = p0 /\ GetOf(p0, mv).type = "get"
      BY DEF GetOf
    <2>2. g \in Port /\ g # p0
      BY <1>2, PortsApart DEF Port
    <2>3. ~Carries(g, GetOf(p0, mv))
      <3>1. Pending(p0) = {}
        BY <1>2, <1>3 DEF GroupedInv, PortsInv, PutterMail
      <3>2. CASE g \in R
        BY <1>4, <3>2, <2>2, CarriesOne DEF GroupedInv
      <3>3. CASE g \notin R /\ note /\ g = Leader
        BY <1>5, <3>3, <2>2, CarriesOne DEF GroupedInv
      <3>4. CASE g \notin R /\ ~(note /\ g = Leader)
        <4>1. ~Going(g)
          BY <1>8, <3>4 DEF Going
        <4>2. ASSUME Carries(g, GetOf(p0, mv)) PROVE FALSE
          <5>1. box[g] = <<GetOf(p0, mv)>>
            BY <4>1, <4>2 DEF Carries, Going
          <5>2. GetOf(p0, mv) \in Message
            <6>1. box[g] \in Seq(Message)
              BY <2>2, <1>t DEF GroupedTypes
            <6>2. Len(box[g]) = 1 /\ 1 \in 1 .. 1 /\ box[g][1] = GetOf(p0, mv)
              BY <5>1
            <6> QED BY <6>1, <6>2, ElementOfSeq
          <5>3. mv \in BOOLEAN
            BY <2>0, <5>2 DEF Message, GetOf
          <5> QED BY <3>1, <4>2, <5>3 DEF Pending
        <4> QED BY <4>2
      <3> QED BY <3>2, <3>3, <3>4
    <2>4. CASE g \in R
      <3>1. PICK k \in DOMAIN r.getters : g = r.getters[k]
        BY <1>2, <1>g, <2>2, <2>4
      <3>2. p # p0 => ~Carries(g, GetOf(p, mv))'
        <4>0. \A b : GetOf(p0, b).from = p0
          BY DEF GetOf
        <4>1. Asking(r, k).from = p0
          BY <4>0 DEF Asking, p0
        <4> QED BY <1>12, <2>1, <3>1, <4>1
      <3>3. ~Carries(g, GetOf(p, mv))
        BY <1>4, <2>2, <2>4, CarriesOne DEF GroupedInv
      <3> QED BY <1>g, <2>1, <2>3, <3>1, <3>2, <3>3
    <2>5. CASE g \notin R /\ note /\ g = Leader
      <3>1. ~Carries(g, GetOf(p, mv))
        BY <1>5, <2>2, <2>5, CarriesOne DEF GroupedInv
      <3>2. box'[g] = <<>>
        BY <1>5, <2>5 DEF Silent
      <3>3. \A j \in DOMAIN outbox' : outbox'[j].to = g => outbox'[j].msg = stateMsg
        BY <1>7, <2>5, <1>5
      <3>4. stateMsg.type = "state"
        BY DEF stateMsg
      <3>5. /\ ~Carries(g, GetOf(p, mv))' /\ ~Carries(g, GetOf(p0, mv))'
        <4>1. GetOf(p0, mv)' = GetOf(p0, mv)
          BY DEF GetOf
        <4>2. \A x : x.type = "get" => ~Carries(g, x)'
          BY <3>2, <3>3, <3>4 DEF Carries
        <4> QED BY <2>0, <2>1, <4>1, <4>2
      <3> QED BY <2>1, <2>3, <3>1, <3>5
    <2>6. CASE g \notin R /\ ~(note /\ g = Leader)
      <3>1. \A m : Carries(g, m)' <=> Carries(g, m)
        BY <1>10, <2>2, <2>6
      <3>2. GetOf(p0, mv)' = GetOf(p0, mv)
        BY DEF GetOf
      <3> QED BY <2>1, <2>3, <3>1, <3>2
    <2> QED BY <2>4, <2>5, <2>6
  <1>14. Pending(p0)' = S
    <2>1. \A g \in Getter, mv \in BOOLEAN : Carries(g, GetOf(p0, mv))' => g \in S
      BY <1>2, <1>13
    <2>2. ASSUME NEW g \in S PROVE g \in Getter /\ \E mv \in BOOLEAN : Carries(g, GetOf(p0, mv))'
      <3>1. PICK k \in DOMAIN r.getters : g = r.getters[k]
        BY <1>g, <2>2
      <3>2. g \in Getter
        BY <1>g, <2>2
      <3>3. PICK mv \in BOOLEAN : mv <=> k = 1
        OBVIOUS
      <3>4. GetOf(p0, mv)' = Asking(r, k)
        BY <3>3 DEF GetOf, Asking, p0
      <3>5. Carries(g, GetOf(p0, mv))'
        BY <1>12, <3>1, <3>4
      <3> QED BY <3>2, <3>5
    <2> QED BY <2>1, <2>2 DEF Pending
  <1>15. ASSUME NEW p \in Putter, p # p0
         PROVE  Pending(p)' = Pending(p) /\ \A g : Moving(p, g)' <=> Moving(p, g)
    BY <1>13, <1>15 DEF Pending, Moving
  <1>16. ASSUME NEW g, NEW h, Moving(p0, g)', Moving(p0, h)' PROVE g = h
    <2>1. ASSUME NEW x, Moving(p0, x)' PROVE x = r.getters[1]
      <3>1. x \in Getter /\ Carries(x, GetOf(p0, TRUE))'
        BY <2>1 DEF Moving
      <3>2. PICK k \in DOMAIN r.getters : x = r.getters[k]
        BY <1>2, <1>g, <1>13, <3>1
      <3>3. GetOf(p0, TRUE) = Asking(r, k)
        <4>1. GetOf(p0, TRUE)' = GetOf(p0, TRUE)
          BY DEF GetOf
        <4> QED BY <1>12, <3>1, <3>2, <4>1
      <3>4. k = 1
        <4>1. \A b : GetOf(p0, b).move = b
          BY DEF GetOf
        <4>2. GetOf(p0, TRUE).move = Asking(r, k).move
          BY <3>3
        <4>3. Asking(r, k).move = (k = 1)
          BY <4>1 DEF Asking, p0
        <4> QED BY <4>1, <4>2, <4>3
      <3> QED BY <3>2, <3>4
    <2> QED BY <1>16, <2>1
  <1> QED BY <1>5, <1>6, <1>7, <1>9, <1>10, <1>11, <1>14, <1>15, <1>16 DEF R, S, p0, stateMsg

\* a constraint that is false ends the commit: no group, whose protocol has none, waits
LEMMA GroupedRefuse ==
    ASSUME GroupedInv, WellFormed, AllGroupable, Fire, state \notin rules[committed].when
    PROVE  GroupedInv'
  <1>1. /\ outbox = <<>> /\ lock' = "free" /\ committed # 0 /\ committed' = 0 /\ Tentative = {}
        /\ UNCHANGED <<rules, min_ready, wanted, calls, state, ready, tentatively_ready,
                       state_waiters, outbox, box, at, group, told, awaited, data_moved, fault>>
    BY DEF Fire, Advancing
  <1>2. ~Asked
    BY <1>1 DEF Tentative, GroupedInv, GroupInv
  <1>3. group = "none"
    <2>1. committed \in DOMAIN rules /\ state \in {0, 1}
      BY <1>1 DEF GroupedInv, CommitInv, GroupedTypes
    <2> QED BY <2>1, GroupOfOne DEF GroupedInv, Setting
  <1>4. GroupedTypes'
    BY <1>1 DEF GroupedInv, GroupedTypes
  <1>5. (Setting /\ OutboxInv /\ CommitInv /\ ReadyInv)'
    BY <1>1 DEF GroupedInv, Setting, OutboxInv, CommitInv, ReadyInv, Asked, Bit
  <1>6. LeaderMail'
    BY <1>1, <1>3, SameMail DEF GroupedInv, LeaderMail
  <1>7. GroupInv'
    BY <1>1, <1>3 DEF GroupedInv, GroupInv, Asked
  <1>8. PortsInv'
    BY <1>1, PortsKept DEF GroupedInv, Bit
  <1> QED BY <1>1, <1>4, <1>5, <1>6, <1>7, <1>8 DEF GroupedInv

LEMMA GroupedFire ==
    ASSUME GroupedInv, WellFormed, AllGroupable, Fire, state \in rules[committed].when
    PROVE  GroupedInv'
  <1>n. PICK notes \in {0, 1} : notes = 1 <=> (state_waiters /\ 1 - state \in wanted)
    OBVIOUS
  <1>r. PICK r : r = rules[committed]
    OBVIOUS
  <1> DEFINE R == Members(r)
             p0 == r.putter
             S == Range(r.getters)
  <1>1. /\ outbox = <<>> /\ lock # "free" /\ committed # 0 /\ committed' = 0 /\ Tentative = {}
        /\ state' = 1 - state /\ outbox' = Decided(r, notes) /\ lock' = lock
        /\ ready' = ready \ min_ready[committed]
        /\ state_waiters' = (state_waiters /\ notes = 0)
        /\ UNCHANGED <<rules, min_ready, wanted, calls, tentatively_ready, box, at, group, told,
                       awaited, data_moved, fault>>
    BY <1>n, <1>r DEF Fire, Advancing, Decided
  <1>2. ~Asked
    BY <1>1 DEF Tentative, GroupedInv, GroupInv
  <1>3. /\ committed \in DOMAIN rules /\ p0 \in Putter /\ S \subseteq Getter /\ R = {p0} \cup S
        /\ R \subseteq Port /\ min_ready[committed] \subseteq Port
    <2>1. committed \in DOMAIN rules
      BY <1>1 DEF GroupedInv, CommitInv
    <2>2. S \subseteq Getter
      BY <1>r, <2>1, RuleTyped, RangeOfSeq
    <2>3. min_ready[committed] \subseteq Port
      BY <1>1, <2>1 DEF GroupedInv, CommitInv, GroupedTypes
    <2> QED BY <1>r, <2>1, <2>2, <2>3, RuleTyped
  <1>4. /\ \A q \in R : at[q] = "recv" /\ Bit(q) \in ready
        /\ \A q \in Port : at[q] # "idle" => (Bit(q) \in min_ready[committed] <=> q \in R)
    BY <1>1, <1>2, <1>r, MembersWait
  <1>5. /\ outbox' \in Seq([to : Port, msg : Message]) /\ outbox' # <<>>
        /\ outbox'[1] = [to |-> p0, msg |-> AwaitOf(Cardinality(S))]
        /\ \A j, k \in DOMAIN outbox' : outbox'[j].to = outbox'[k].to => j = k
        /\ \A n \in DOMAIN outbox' : box[outbox'[n].to] = <<>>
        /\ \A q \in Port : q \notin R /\ ~(notes = 1 /\ q = Leader) =>
              /\ (Going(q)' <=> Going(q)) /\ (Silent(q)' <=> Silent(q))
              /\ \A m : Carries(q, m)' <=> Carries(q, m)
        /\ notes = 1 => Carries(Leader, [type |-> "state"])' /\ at[Leader] = "idle"
        /\ Pending(p0)' = S
        /\ \A p \in Putter : p # p0 =>
              Pending(p)' = Pending(p) /\ \A g : Moving(p, g)' <=> Moving(p, g)
        /\ \A g, h : Moving(p0, g)' /\ Moving(p0, h)' => g = h
    BY <1>1, <1>2, <1>n, <1>r, FireMail
  <1>6. ASSUME NEW q \in Port, at[q] # "idle"
        PROVE  (Bit(q) \in ready)' <=> Bit(q) \in ready /\ q \notin R
    <2>1. Bit(q)' = Bit(q)
      BY <1>1 DEF Bit
    <2> QED BY <1>1, <1>4, <1>6, <2>1
  <1> HIDE DEF R, S, p0
  <1>7. GroupedTypes'
    <2>1. state \in {0, 1} /\ state_waiters \in BOOLEAN /\ ready \in SUBSET Port
      BY DEF GroupedInv, GroupedTypes
    <2>2. state' \in {0, 1} /\ state_waiters' \in BOOLEAN /\ ready' \in SUBSET Port
      BY <1>1, <2>1
    <2> QED BY <1>1, <1>5, <2>2 DEF GroupedInv, GroupedTypes
  <1>8. Setting' /\ OutboxInv' /\ CommitInv'
    BY <1>1, <1>5 DEF GroupedInv, Setting, OutboxInv, CommitInv
  <1>t. Leader \in Port /\ Leader \in Group /\ group' = group
    BY <1>1, PortsApart DEF WellFormed
  <1>w. state_waiters => group = "waiting"
    BY DEF GroupedInv, GroupInv
  <1>9. LeaderMail'
    <2> SUFFICES ASSUME at[Leader] = "idle" PROVE LeaderMail'
      BY <1>1 DEF LeaderMail
    <2>1. Leader \notin R /\ group # "asking"
      BY <1>2, <1>4 DEF Asked
    <2>2. CASE notes = 1
      <3>1. group = "waiting" /\ ~state_waiters'
        <4>1. notes # 0
          BY <2>2
        <4>2. group = "waiting"
          BY <1>n, <1>w, <2>2
        <4>3. ~state_waiters'
          BY <1>1, <4>1, Zenon
        <4> QED BY <1>1, <4>2, <4>3
      <3> QED BY <1>1, <1>5, <2>1, <2>2, <3>1 DEF LeaderMail
    <2>3. CASE notes = 0
      <3>1. /\ Silent(Leader)' <=> Silent(Leader)
            /\ \A m : Carries(Leader, m)' <=> Carries(Leader, m)
        BY <1>5, <1>t, <2>1, <2>3
      <3>2. state_waiters' = state_waiters
        BY <1>1, <2>3 DEF GroupedInv, GroupedTypes
      <3> QED BY <1>1, <2>1, <3>1, <3>2 DEF GroupedInv, LeaderMail
    <2> QED BY <2>2, <2>3
  <1>10. GroupInv'
    <2>1. Asked' <=> Asked
      BY <1>1 DEF Asked
    <2>2. group # "told"
      BY <1>2 DEF Asked
    <2>3. ASSUME group = "formed", Leader \in ready', NEW m \in Group, at[m] = "recv"
          PROVE  \A i \in DOMAIN rules : Leader \in min_ready[i] => m \in Members(rules[i])
      <3>1. Leader \in ready /\ Leader \notin min_ready[committed]
        BY <1>1, <2>3
      <3>2. m \notin R
        <4>1. m \in Port /\ Bit(m) = Leader
          BY <2>3, PortsApart DEF Bit
        <4> QED BY <1>4, <2>3, <3>1, <4>1
      <3> QED BY <1>r, <2>3, <3>1, <3>2 DEF GroupedInv, GroupInv, R
    <2> QED BY <1>1, <1>2, <2>1, <2>2, <2>3 DEF GroupedInv, GroupInv
  <1>11. ReadyInv'
    <2>1. \A q : Bit(q)' = Bit(q)
      BY <1>1 DEF Bit
    <2> QED BY <1>1, <1>2, <2>1 DEF GroupedInv, ReadyInv
  <1>12. PortsInv'
    <2>1. ASSUME NEW g \in Getter PROVE GetterMail(g)'
      <3>0. GetterMail(g) /\ g \in Port
        BY <2>1 DEF GroupedInv, PortsInv, Port
      <3>1. at[g] # "collect"
        BY <3>0 DEF GetterMail
      <3>2. at[g] = "idle" /\ g # Leader => Silent(g)'
        BY <1>4, <1>5, <3>0 DEF GetterMail
      <3>3. at[g] = "recv" => ~(notes = 1 /\ g = Leader)
        BY <1>5
      <3>4. at[g] = "recv" /\ (Bit(g) \in ready)' => Silent(g)'
        BY <1>5, <1>6, <3>0, <3>3 DEF GetterMail
      <3>5. ASSUME at[g] = "recv", ~(Bit(g) \in ready)' PROVE \E p \in Putter : g \in Pending(p)'
        <4>1. CASE g \in R
          <5>1. g \in S
            BY <1>3, <2>1, <4>1, PortsApart
          <5> QED BY <1>3, <1>5, <5>1
        <4>2. CASE g \notin R
          <5>1. Bit(g) \notin ready
            BY <1>6, <3>0, <3>5, <4>2
          <5>2. PICK p \in Putter : g \in Pending(p)
            BY <3>0, <3>5, <5>1 DEF GetterMail
          <5>3. p # p0
            BY <1>3, <1>4, <5>2 DEF GroupedInv, PortsInv, PutterMail
          <5> QED BY <1>5, <5>2, <5>3
        <4> QED BY <4>1, <4>2
      <3> QED BY <1>1, <3>1, <3>2, <3>4, <3>5 DEF GetterMail
    <2>2. ASSUME NEW p \in Putter, p # p0 PROVE PutterMail(p)'
      <3>0. PutterMail(p) /\ p \in Port /\ p \notin R /\ ~AwaitSent(p)
        BY <1>1, <1>3, <2>2, PortsApart DEF GroupedInv, PortsInv, Port, AwaitSent
      <3>1. Pending(p)' = Pending(p)
        BY <1>5, <2>2
      <3>2. at[p] # "idle" => /\ (Bit(p) \in ready)' <=> Bit(p) \in ready
                              /\ (Going(p)' <=> Going(p)) /\ (Silent(p)' <=> Silent(p))
        BY <1>5, <1>6, <3>0
      <3>3. at[p] = "idle" /\ p # Leader => (Silent(p)' <=> Silent(p))
        BY <1>5, <3>0
      <3>4. AwaitCame(p) /\ at[p] # "idle" => AwaitCame(p)'
        BY <1>1, <3>1, <3>2 DEF AwaitCame, AllGotten
      <3> QED BY <1>1, <3>0, <3>1, <3>2, <3>3, <3>4 DEF PutterMail, AllGotten
    <2>3. PutterMail(p0)'
      <3>1. at[p0] = "recv" /\ ~(Bit(p0) \in ready)'
        BY <1>3, <1>4, <1>6
      <3>2. \A q \in R : box[q] = <<>>
        <4>1. \A q \in R : Silent(q)
          BY <1>3, <1>4 DEF GroupedInv, PortsInv, GetterMail, PutterMail, Port
        <4> QED BY <4>1 DEF Silent
      <3>3. AwaitSent(p0)'
        BY <1>1, <1>3, <1>5, <3>2 DEF AwaitSent, AwaitOf
      <3> QED BY <1>1, <3>1, <3>3 DEF PutterMail
    <2>4. ASSUME NEW p \in Putter, p # p0 PROVE MovedOnce(p)'
      BY <1>1, <1>5, <2>4, MovedKept DEF GroupedInv, PortsInv, Moved
    <2>5. MovedOnce(p0)'
      <3>1. at[p0] = "recv" /\ box[p0] = <<>>
        BY <1>3, <1>4 DEF GroupedInv, PortsInv, PutterMail, Silent
      <3>2. \A j : ~Moved(p0, j)'
        BY <1>1, <3>1 DEF Moved
      <3> QED BY <1>1, <1>5, <3>1, <3>2 DEF MovedOnce
    <2> QED BY <2>1, <2>2, <2>3, <2>4, <2>5 DEF PortsInv
  <1> QED BY <1>1, <1>7, <1>8, <1>9, <1>10, <1>11, <1>12 DEF GroupedInv

LEMMA TailOf ==
    ASSUME NEW X, NEW s \in Seq(X), s # <<>>
    PROVE  /\ Tail(s) \in Seq(X) /\ Head(s) = s[1] /\ 1 \in DOMAIN s /\ s[1] \in X
           /\ Len(Tail(s)) = Len(s) - 1 /\ Len(s) \in Nat
           /\ \A n \in DOMAIN Tail(s) : /\ n + 1 \in DOMAIN s /\ n + 1 # 1
                                        /\ Tail(s)[n] = s[n + 1]
           /\ \A j \in DOMAIN s : j # 1 => \E n \in DOMAIN Tail(s) : j = n + 1
           /\ \A j, k \in DOMAIN Tail(s) : j + 1 = k + 1 => j = k
  <1>1. /\ Len(s) \in Nat /\ DOMAIN s = 1 .. Len(s) /\ Len(s) # 0
        /\ Tail(s) \in Seq(X) /\ Len(Tail(s)) = Len(s) - 1
        /\ DOMAIN Tail(s) = 1 .. Len(s) - 1
    BY EmptySeq
  <1>2. ASSUME NEW n \in 1 .. Len(s) - 1 PROVE Tail(s)[n] = s[n + 1]
    BY <1>1, <1>2
  <1>3. ASSUME NEW j \in 1 .. Len(s), j # 1 PROVE \E n \in 1 .. Len(s) - 1 : j = n + 1
    <2>1. j - 1 \in 1 .. Len(s) - 1 /\ j = (j - 1) + 1
      BY <1>1, <1>3
    <2> QED BY <2>1
  <1>4. 1 \in DOMAIN s /\ s[1] \in X
    BY <1>1
  <1>5. \A n \in 1 .. Len(s) - 1 : n + 1 \in 1 .. Len(s) /\ n + 1 # 1
    BY <1>1
  <1>6. \A j, k \in 1 .. Len(s) - 1 : j + 1 = k + 1 => j = k
    BY <1>1
  <1>7. Head(s) = s[1]
    BY <1>1
  <1>8. \A n \in DOMAIN Tail(s) : n + 1 \in DOMAIN s /\ n + 1 # 1 /\ Tail(s)[n] = s[n + 1]
    BY <1>1, <1>2, <1>5
  <1>9. \A j \in DOMAIN s : j # 1 => \E n \in DOMAIN Tail(s) : j = n + 1
    BY <1>1, <1>3
  <1>10. \A j, k \in DOMAIN Tail(s) : j + 1 = k + 1 => j = k
    BY <1>1, <1>6
  <1> QED BY <1>1, <1>4, <1>7, <1>8, <1>9, <1>10

\* what the protocol is about to send to a putter is not an answer
LEMMA NoGottenSent ==
    ASSUME GroupedInv, WellFormed, NEW p \in Putter, NEW n \in DOMAIN outbox, outbox[n].to = p
    PROVE  outbox[n].msg.type # "gotten"
  <1>1. Going(p) /\ p \in Port
    BY DEF Going, Port
  <1>2. PutterMail(p)
    BY DEF GroupedInv, PortsInv
  <1>3. ~Silent(p)
    BY <1>1 DEF Silent
  <1>4. ASSUME NEW m, Carries(p, m) PROVE outbox[n].msg = m
    <2>1. box[p] = <<>>
      BY <1>1, <1>4 DEF Carries
    <2>2. PICK j \in DOMAIN outbox : outbox[j] = [to |-> p, msg |-> m]
      BY <1>1, <1>4, <2>1 DEF Carries
    <2>3. j = n
      BY <2>2 DEF GroupedInv, OutboxInv
    <2> QED BY <2>2, <2>3
  <1>5. CASE at[p] = "recv"
    <2>1. AwaitSent(p)
      BY <1>1, <1>2, <1>3, <1>5 DEF PutterMail, AwaitCame
    <2>2. 1 \in DOMAIN outbox
      <3>1. outbox \in Seq([to : Port, msg : Message]) /\ outbox # <<>>
        BY <2>1 DEF AwaitSent, GroupedInv, GroupedTypes
      <3> QED BY <3>1, TailOf
    <2>3. outbox[1].to = p /\ outbox[1].msg.type = "await"
      BY <2>1 DEF AwaitSent
    <2>4. n = 1
      BY <2>2, <2>3 DEF GroupedInv, OutboxInv
    <2> QED BY <2>3, <2>4
  <1>6. CASE at[p] = "idle"
    <2>1. p = Leader
      BY <1>2, <1>3, <1>6 DEF PutterMail
    <2>2. CASE group = "waiting" /\ ~state_waiters
      <3>1. Carries(p, [type |-> "state"])
        BY <1>6, <2>1, <2>2 DEF GroupedInv, LeaderMail
      <3>2. outbox[n].msg = [type |-> "state"]
        BY <1>4, <3>1
      <3> QED BY <3>2
    <2>3. CASE group = "asking" /\ committed # 0
      <3>1. Carries(p, [type |-> "fire", rule |-> committed])
        BY <1>6, <2>1, <2>3 DEF GroupedInv, LeaderMail
      <3>2. outbox[n].msg = [type |-> "fire", rule |-> committed]
        BY <1>4, <3>1
      <3> QED BY <3>2
    <2> QED BY <1>3, <1>6, <2>1, <2>2, <2>3 DEF GroupedInv, LeaderMail
  <1>7. CASE at[p] = "collect"
    BY <1>1, <1>2, <1>7 DEF PutterMail
  <1> QED BY <1>1, <1>5, <1>6, <1>7 DEF GroupedInv, GroupedTypes

LEMMA GroupedSend ==
    ASSUME GroupedInv, WellFormed, Send
    PROVE  GroupedInv'
  <1>m. PICK m : m = outbox[1]
    OBVIOUS
  <1> DEFINE q == m.to
  <1>1. /\ outbox # <<>> /\ outbox' = Tail(outbox)
        /\ box' = [box EXCEPT ![Head(outbox).to] = Append(@, Head(outbox).msg)]
        /\ UNCHANGED <<rules, min_ready, wanted, calls, state, ready, tentatively_ready, committed,
                       state_waiters, lock, at, group, told, awaited, data_moved, fault>>
    BY DEF Send
  <1>2. outbox \in Seq([to : Port, msg : Message]) /\ box \in [Port -> Seq(Message)]
    BY DEF GroupedInv, GroupedTypes
  <1>3. /\ Tail(outbox) \in Seq([to : Port, msg : Message]) /\ Head(outbox) = m
        /\ 1 \in DOMAIN outbox /\ m \in [to : Port, msg : Message]
        /\ \A n \in DOMAIN outbox' : /\ n + 1 \in DOMAIN outbox /\ n + 1 # 1
                                     /\ outbox'[n] = outbox[n + 1]
        /\ \A j \in DOMAIN outbox : j # 1 => \E n \in DOMAIN outbox' : j = n + 1
        /\ \A j, k \in DOMAIN outbox' : j + 1 = k + 1 => j = k
    <2>1. PICK T : T = Tail(outbox)
      OBVIOUS
    <2> DEFINE X == [to : Port, msg : Message]
    <2>s. outbox \in Seq(X)
      BY <1>2
    <2> HIDE DEF X
    <2>t. /\ Tail(outbox) \in Seq(X) /\ Head(outbox) = outbox[1] /\ 1 \in DOMAIN outbox /\ outbox[1] \in X
          /\ \A n \in DOMAIN Tail(outbox) : /\ n + 1 \in DOMAIN outbox /\ n + 1 # 1
                                            /\ Tail(outbox)[n] = outbox[n + 1]
          /\ \A j \in DOMAIN outbox : j # 1 => \E n \in DOMAIN Tail(outbox) : j = n + 1
          /\ \A j, k \in DOMAIN Tail(outbox) : j + 1 = k + 1 => j = k
      BY <1>1, <2>s, TailOf
    <2>2. /\ T \in Seq([to : Port, msg : Message]) /\ Head(outbox) = outbox[1]
          /\ 1 \in DOMAIN outbox /\ outbox[1] \in [to : Port, msg : Message]
          /\ \A n \in DOMAIN T : n + 1 \in DOMAIN outbox /\ n + 1 # 1 /\ T[n] = outbox[n + 1]
          /\ \A j \in DOMAIN outbox : j # 1 => \E n \in DOMAIN T : j = n + 1
          /\ \A j, k \in DOMAIN T : j + 1 = k + 1 => j = k
      BY <2>1, <2>t DEF X
    <2>3. outbox' = T
      BY <1>1, <2>1
    <2> QED BY <1>m, <2>1, <2>2, <2>3
  <1>4. q \in Port /\ m.msg \in Message /\ m = [to |-> q, msg |-> m.msg]
    BY <1>3
  <1>5. box[q] = <<>> /\ Going(q)
    BY <1>3, <1>m DEF GroupedInv, OutboxInv, Going
  <1>6. box'[q] = <<m.msg>> /\ box'[q] # <<>> /\ \A x \in Port : x # q => box'[x] = box[x]
    <2>1. box' = [box EXCEPT ![q] = Append(box[q], m.msg)]
      BY <1>1, <1>3
    <2>2. Append(box[q], m.msg) = <<m.msg>>
      BY <1>4, <1>5
    <2>3. <<m.msg>> # <<>>
      OBVIOUS
    <2> QED BY <1>2, <1>4, <2>1, <2>2, <2>3
  <1>7. \A n \in DOMAIN outbox : outbox[n].to = q => n = 1
    BY <1>3, <1>m DEF GroupedInv, OutboxInv
  <1> HIDE DEF q
  <1>8. /\ ~Going(q)'
        /\ \A x : x # q => (Going(x)' <=> Going(x))
    <2>1. \A n \in DOMAIN outbox' : outbox'[n].to # q
      BY <1>3, <1>7
    <2>2. ASSUME NEW x, x # q, Going(x) PROVE Going(x)'
      <3>1. PICK j \in DOMAIN outbox : outbox[j].to = x
        BY <2>2 DEF Going
      <3>2. j # 1
        BY <1>m, <2>2, <3>1 DEF q
      <3>3. PICK n \in DOMAIN outbox' : j = n + 1
        BY <1>3, <3>2
      <3>4. outbox'[n].to = x
        BY <1>3, <3>1, <3>3
      <3> QED BY <3>4 DEF Going
    <2>3. ASSUME NEW x, Going(x)' PROVE Going(x)
      <3>1. PICK n \in DOMAIN outbox' : outbox'[n].to = x
        BY <2>3 DEF Going
      <3> QED BY <1>3, <3>1 DEF Going
    <2> QED BY <2>1, <2>2, <2>3 DEF Going
  <1>9. ASSUME NEW x \in Port, NEW k PROVE Carries(x, k)' <=> Carries(x, k)
    <2>1. CASE x = q
      <3>1. Carries(q, k) => k = m.msg
        <4>1. ASSUME NEW n \in DOMAIN outbox, outbox[n] = [to |-> q, msg |-> k] PROVE k = m.msg
          <5>1. n = 1
            BY <1>7, <4>1
          <5> QED BY <1>m, <4>1, <5>1
        <4> QED BY <1>5, <4>1 DEF Carries
      <3>2. Carries(q, m.msg)
        BY <1>3, <1>4, <1>5, <1>m DEF Carries
      <3>3. Carries(q, k)' <=> k = m.msg
        <4>1. box'[q] = <<m.msg>> /\ box'[q] # <<>>
          BY <1>6
        <4>2. k = m.msg <=> box'[q] = <<k>>
          BY <4>1
        <4> QED BY <1>8, <4>1, <4>2 DEF Carries
      <3> QED BY <2>1, <3>1, <3>2, <3>3
    <2>2. CASE x # q
      <3>1. ASSUME NEW j \in DOMAIN outbox, outbox[j] = [to |-> x, msg |-> k]
            PROVE  \E n \in DOMAIN outbox' : outbox'[n] = [to |-> x, msg |-> k]
        <4>1. j # 1
          BY <1>m, <2>2, <3>1 DEF q
        <4> QED BY <1>3, <3>1, <4>1
      <3>2. ASSUME NEW n \in DOMAIN outbox', outbox'[n] = [to |-> x, msg |-> k]
            PROVE  \E j \in DOMAIN outbox : outbox[j] = [to |-> x, msg |-> k]
        BY <1>3, <3>2
      <3>3. box'[x] = box[x] /\ (Going(x)' <=> Going(x))
        BY <1>6, <1>8, <2>2
      <3> QED BY <3>1, <3>2, <3>3 DEF Carries
    <2> QED BY <2>1, <2>2
  <1>10. ASSUME NEW x \in Port PROVE Silent(x)' <=> Silent(x)
    <2>1. CASE x = q
      <3>1. ~Silent(x) /\ ~Silent(x)'
        BY <1>5, <1>6, <2>1 DEF Silent
      <3> QED BY <3>1
    <2>2. CASE x # q
      BY <1>6, <1>8, <2>2 DEF Silent
    <2> QED BY <2>1, <2>2
  <1>11. ASSUME NEW p PROVE Pending(p)' = Pending(p) /\ \A g : Moving(p, g)' <=> Moving(p, g)
    <2>1. \A mv : GetOf(p, mv)' = GetOf(p, mv)
      BY <1>1 DEF GetOf
    <2> QED BY <1>9, <2>1 DEF Pending, Moving, Port
  <1>12. GroupedTypes'
    <2>1. box' \in [Port -> Seq(Message)]
      BY <1>1, <1>2, <1>3, <1>4
    <2> QED BY <1>1, <1>3, <2>1 DEF GroupedInv, GroupedTypes
  <1>13. OutboxInv'
    <2>1. ASSUME NEW n \in DOMAIN outbox' PROVE box'[outbox'[n].to] = <<>>
      <3>1. outbox'[n].to # q /\ Going(outbox'[n].to)
        BY <1>3, <1>7 DEF Going
      <3>2. outbox'[n] \in [to : Port, msg : Message]
        <4>1. DOMAIN outbox' = 1 .. Len(outbox')
          BY <1>1, <1>3
        <4> QED BY <1>1, <1>3, <4>1, ElementOfSeq
      <3>3. box[outbox'[n].to] = <<>>
        BY <1>3 DEF GroupedInv, OutboxInv
      <3> QED BY <1>6, <3>1, <3>2, <3>3
    <2>2. ASSUME NEW j \in DOMAIN outbox', NEW k \in DOMAIN outbox', outbox'[j].to = outbox'[k].to PROVE j = k
      <3>1. j + 1 = k + 1
        BY <1>3, <2>2 DEF GroupedInv, OutboxInv
      <3> QED BY <1>3, <3>1
    <2>3. lock' # "free"
      BY <1>1 DEF GroupedInv, OutboxInv
    <2> QED BY <2>1, <2>2, <2>3 DEF OutboxInv
  <1>14. (Setting /\ CommitInv /\ GroupInv /\ ReadyInv)'
    BY <1>1 DEF GroupedInv, Setting, CommitInv, GroupInv, ReadyInv, Asked, Bit
  <1>15. LeaderMail'
    BY <1>1, <1>9, <1>10, PortsApart DEF GroupedInv, LeaderMail
  <1>16. PortsInv'
    <2>1. ASSUME NEW g \in Getter PROVE GetterMail(g)'
      BY <1>1, <1>10, <1>11, GetterKept DEF GroupedInv, PortsInv, Bit, Port
    <2>2. ASSUME NEW p \in Putter PROVE PutterMail(p)'
      <3>0. p \in Port /\ PutterMail(p) /\ Bit(p)' = Bit(p)
        BY <1>1 DEF Port, GroupedInv, PortsInv, Bit
      <3>1. CASE p = q
        <4>1. at[p] = "recv" => ~(AwaitCame(p))
          BY <1>5, <3>1 DEF AwaitCame
        <4>2. at[p] # "collect" /\ ~Silent(p)
          BY <1>5, <3>0, <3>1 DEF PutterMail, Silent
        <4>3. AwaitSent(p) => AwaitCame(p)'
          <5>1. ASSUME AwaitSent(p) PROVE AwaitCame(p)'
            <6> DEFINE c == Cardinality(Pending(p))
            <6>1. m.msg = [type |-> "await", count |-> c]
              BY <1>m, <5>1 DEF AwaitSent
            <6>2. c \in Nat
              <7>1. IsFiniteSet(Pending(p))
                BY FS_Subset DEF WellFormed, Pending
              <7> QED BY <7>1, FS_CardinalityType
            <6>3. Head(box'[p]) = m.msg /\ Tail(box'[p]) = <<>> /\ box'[p] # <<>>
              <7>1. Head(<<m.msg>>) = m.msg /\ Tail(<<m.msg>>) = <<>>
                OBVIOUS
              <7> QED BY <1>6, <3>1, <7>1
            <6>4. c = Len(Tail(box'[p])) + Cardinality(Pending(p)')
              <7>1. Len(Tail(box'[p])) = 0
                <8>1. Len(<<>>) = 0
                  OBVIOUS
                <8> QED BY <6>3, <8>1
              <7>2. c = 0 + c
                BY <6>2
              <7> QED BY <1>11, <7>1, <7>2
            <6>5. AllGotten(Tail(box'[p]))
              BY <6>3 DEF AllGotten
            <6> HIDE DEF c
            <6> QED BY <1>8, <3>1, <6>1, <6>2, <6>3, <6>4, <6>5 DEF AwaitCame, AllGotten
          <5> QED BY <5>1
        <4> QED BY <1>1, <1>10, <1>11, <3>0, <4>1, <4>2, <4>3 DEF PutterMail
      <3>2. CASE p # q
        <4>1. ~AwaitSent(p)
          BY <1>m, <3>2 DEF AwaitSent, q
        <4> QED BY <1>1, <1>6, <1>8, <1>11, <3>0, <3>2, <4>1, PutterKept
      <3> QED BY <3>1, <3>2
    <2>3. ASSUME NEW p \in Putter PROVE MovedOnce(p)'
      <3>1. ASSUME NEW n, Moved(p, n)' PROVE Moved(p, n)
        <4>1. CASE p = q
          <5>1. m.msg.type # "gotten"
            BY <1>3, <1>m, <2>3, <4>1, NoGottenSent DEF q
          <5>2. n = 1 /\ box'[p][1] = m.msg
            BY <1>6, <3>1, <4>1 DEF Moved
          <5> QED BY <3>1, <5>1, <5>2 DEF Moved
        <4>2. CASE p # q
          BY <1>6, <3>1, <4>2 DEF Moved, Port
        <4> QED BY <4>1, <4>2
      <3> QED BY <1>1, <1>11, <3>1, MovedKept DEF GroupedInv, PortsInv
    <2> QED BY <2>1, <2>2, <2>3 DEF PortsInv
  <1> QED BY <1>1, <1>12, <1>13, <1>14, <1>15, <1>16 DEF GroupedInv

\* a putter in its call takes the next message of its channel
LEMMA PutterTook ==
    ASSUME GroupedInv, WellFormed, NEW p \in Putter, at[p] \in {"recv", "collect"},
           Bit(p) \notin ready, box[p] # <<>>, box' = [box EXCEPT ![p] = Tail(@)],
           at' = [at EXCEPT ![p] = "collect"],
           \A x \in Putter : x # p => awaited'[x] = awaited[x] /\ (x \in data_moved' <=> x \in data_moved),
           UNCHANGED <<rules, min_ready, wanted, calls, state, ready, tentatively_ready, committed,
                       state_waiters, lock, outbox, group, told>>
    PROVE  /\ at' \in [Port -> {"idle", "recv", "collect"}] /\ box' \in [Port -> Seq(Message)]
           /\ at'[p] = "collect" /\ (Going(p)' <=> Going(p)) /\ box'[p] = Tail(box[p])
           /\ box[p] \in Seq(Message)
           /\ Pending(p)' = Pending(p) /\ \A g : Moving(p, g)' <=> Moving(p, g)
           /\ (Setting /\ OutboxInv /\ CommitInv /\ LeaderMail /\ GroupInv /\ ReadyInv)'
           /\ \A g \in Getter : GetterMail(g)'
           /\ \A x \in Putter : x # p => PutterMail(x)' /\ MovedOnce(x)'
  <1>t. /\ at \in [Port -> {"idle", "recv", "collect"}] /\ box \in [Port -> Seq(Message)] /\ p \in Port
        /\ outbox \in Seq([to : Port, msg : Message])
        /\ \A g \in Getter : g # p /\ g \in Port
        /\ Leader \in Port /\ Leader \in Group /\ Group \subseteq Port
    BY PortsApart DEF WellFormed, GroupedInv, GroupedTypes, Port
  <1>1. box[p] \in Seq(Message) /\ Tail(box[p]) \in Seq(Message)
    BY <1>t
  <1>2. /\ at' \in [Port -> {"idle", "recv", "collect"}] /\ box' \in [Port -> Seq(Message)]
        /\ box'[p] = Tail(box[p]) /\ at'[p] = "collect"
        /\ \A x \in Port : x # p => box'[x] = box[x] /\ at'[x] = at[x]
    BY <1>t, <1>1
  <1>3. /\ \A x : Going(x)' <=> Going(x)
        /\ \A x : Bit(x)' = Bit(x)
        /\ Asked' <=> Asked
    BY DEF Going, Bit, Asked
  <1>4. ASSUME NEW x \in Port, x # p
        PROVE  (Silent(x)' <=> Silent(x)) /\ \A k : Carries(x, k)' <=> Carries(x, k)
    BY <1>2, <1>3, <1>4 DEF Silent, Carries
  <1>5. ASSUME NEW x PROVE Pending(x)' = Pending(x) /\ \A g : Moving(x, g)' <=> Moving(x, g)
    <2>1. \A mv : GetOf(x, mv)' = GetOf(x, mv)
      BY DEF GetOf
    <2>2. \A g \in Getter : \A mv : Carries(g, GetOf(x, mv))' <=> Carries(g, GetOf(x, mv))
      BY <1>t, <1>4, <2>1
    <2> QED BY <2>2 DEF Pending, Moving
  <1>6. (Setting /\ CommitInv)'
    BY <1>3 DEF GroupedInv, Setting, CommitInv
  <1>7. OutboxInv'
    <2>1. ASSUME NEW n \in DOMAIN outbox PROVE box'[outbox[n].to] = <<>>
      <3>1. box[outbox[n].to] = <<>> /\ outbox[n].to # p
        BY DEF GroupedInv, OutboxInv
      <3>2. outbox[n] \in [to : Port, msg : Message]
        <4>1. DOMAIN outbox = 1 .. Len(outbox)
          BY <1>t
        <4> QED BY <1>t, <4>1, ElementOfSeq
      <3> QED BY <1>2, <3>1, <3>2
    <2> QED BY <2>1 DEF GroupedInv, OutboxInv
  <1>8. LeaderMail'
    <2>1. CASE Leader = p
      BY <1>2, <2>1 DEF LeaderMail
    <2>2. CASE Leader # p
      <3>1. at'[Leader] = at[Leader] /\ (Silent(Leader)' <=> Silent(Leader))
            /\ \A k : Carries(Leader, k)' <=> Carries(Leader, k)
        BY <1>2, <1>4, <1>t, <2>2
      <3> QED BY <3>1 DEF GroupedInv, LeaderMail
    <2> QED BY <2>1, <2>2
  <1>9. GroupInv'
    <2>1. \A m \in Group : (at'[m] = "idle" <=> at[m] = "idle") /\ (at'[m] = "recv" => at[m] = "recv")
      BY <1>2, <1>t
    <2> QED BY <1>3, <2>1 DEF GroupedInv, GroupInv
  <1>10. ReadyInv'
    <2>1. ASSUME NEW x \in ready, x # Leader PROVE at'[x] = "recv" /\ Bit(x) = x
      <3>1. at[x] = "recv" /\ Bit(x) = x /\ x \in Port
        BY <2>1 DEF GroupedInv, ReadyInv, GroupedTypes
      <3> QED BY <1>2, <2>1, <3>1
    <2>2. ASSUME Leader \in ready, ~Asked PROVE \E m \in Group : at'[m] = "recv" /\ Bit(m) = Leader
      <3>1. PICK m \in Group : at[m] = "recv" /\ Bit(m) = Leader
        BY <2>2 DEF GroupedInv, ReadyInv
      <3> QED BY <1>2, <1>t, <2>2, <3>1
    <2>3. \A x \in Port : at'[x] # "idle" => calls[x] > 0
      <3>1. \A x \in Port : at'[x] # "idle" => at[x] # "idle"
        BY <1>2, <1>t
      <3> QED BY <3>1 DEF GroupedInv, ReadyInv
    <2> QED BY <1>3, <2>1, <2>2, <2>3 DEF ReadyInv
  <1>11. ASSUME NEW g \in Getter PROVE GetterMail(g)'
    <2>1. GetterMail(g) /\ at'[g] = at[g] /\ (Silent(g)' <=> Silent(g))
      BY <1>2, <1>4, <1>t DEF GroupedInv, PortsInv
    <2>2. \A y \in Putter : g \in Pending(y) => g \in Pending(y)'
      BY <1>5
    <2> QED BY <1>3, <2>1, <2>2, GetterKept
  <1>12. ASSUME NEW x \in Putter, x # p PROVE PutterMail(x)' /\ MovedOnce(x)'
    <2>0. x \in Port /\ at'[x] = at[x] /\ box'[x] = box[x]
      BY <1>2, <1>12 DEF Port
    <2>1. \A g \in Pending(x) : box'[g] = box[g]
      BY <1>2, <1>t DEF Pending
    <2>2. PutterMail(x)'
      BY <1>3, <1>5, <1>12, <2>0, <2>1, PutterKept DEF GroupedInv, PortsInv, AwaitSent
    <2>3. MovedOnce(x)'
      BY <1>5, <1>12, <2>0, MovedKept DEF GroupedInv, PortsInv, Moved
    <2> QED BY <2>2, <2>3
  <1> QED BY <1>1, <1>2, <1>3, <1>5, <1>6, <1>7, <1>8, <1>9, <1>10, <1>11, <1>12

LEMMA GroupedAwait ==
    ASSUME GroupedInv, WellFormed, NEW p \in Putter, Await(p)
    PROVE  GroupedInv'
  <1>1. /\ at[p] = "recv" /\ box[p] # <<>> /\ box' = [box EXCEPT ![p] = Tail(@)]
        /\ at' = [at EXCEPT ![p] = "collect"] /\ data_moved' = data_moved \ {p}
        /\ fault' = (fault \/ Head(box[p]).type # "await")
        /\ awaited' = [awaited EXCEPT ![p] = IF Head(box[p]).type = "await" THEN Head(box[p]).count ELSE 0]
        /\ UNCHANGED <<rules, min_ready, wanted, calls, state, ready, tentatively_ready, committed,
                       state_waiters, lock, outbox, group, told>>
    BY DEF Await, Receives
  <1>2. AwaitCame(p) /\ Bit(p) \notin ready
    BY <1>1 DEF GroupedInv, PortsInv, PutterMail, Silent, AwaitSent
  <1>3. PICK c \in Nat : /\ Head(box[p]) = [type |-> "await", count |-> c]
                         /\ c = Len(Tail(box[p])) + Cardinality(Pending(p))
    BY <1>2 DEF AwaitCame
  <1>4. Head(box[p]).type = "await" /\ Head(box[p]).count = c
    BY <1>3
  <1>t. awaited \in [Putter -> Nat] /\ data_moved \in SUBSET Putter /\ fault = FALSE
    BY DEF GroupedInv, GroupedTypes
  <1>5. /\ awaited' \in [Putter -> Nat] /\ awaited'[p] = c /\ fault' = FALSE
        /\ data_moved' \in SUBSET Putter
        /\ \A x \in Putter : x # p => awaited'[x] = awaited[x] /\ (x \in data_moved' <=> x \in data_moved)
    <2>1. fault' = FALSE
      BY <1>1, <1>4, <1>t
    <2>2. awaited' = [awaited EXCEPT ![p] = c]
      BY <1>1, <1>4
    <2> QED BY <1>1, <1>t, <2>1, <2>2
  <1>6. /\ at' \in [Port -> {"idle", "recv", "collect"}] /\ box' \in [Port -> Seq(Message)]
        /\ at'[p] = "collect" /\ (Going(p)' <=> Going(p)) /\ box'[p] = Tail(box[p])
        /\ box[p] \in Seq(Message)
        /\ Pending(p)' = Pending(p) /\ \A g : Moving(p, g)' <=> Moving(p, g)
        /\ (Setting /\ OutboxInv /\ CommitInv /\ LeaderMail /\ GroupInv /\ ReadyInv)'
        /\ \A g \in Getter : GetterMail(g)'
        /\ \A x \in Putter : x # p => PutterMail(x)' /\ MovedOnce(x)'
    BY <1>1, <1>2, <1>5, PutterTook
  <1>7. GroupedTypes'
    BY <1>1, <1>5, <1>6 DEF GroupedInv, GroupedTypes
  <1>8. PutterMail(p)'
    BY <1>2, <1>3, <1>5, <1>6 DEF PutterMail, AwaitCame, AllGotten
  <1>9. MovedOnce(p)'
    <2>1. \A n \in DOMAIN Tail(box[p]) : /\ n + 1 \in DOMAIN box[p] /\ Tail(box[p])[n] = box[p][n + 1]
      BY <1>1, <1>6, TailOf
    <2>2. \A n : Moved(p, n)' => Moved(p, n + 1)
      BY <1>6, <2>1 DEF Moved
    <2>3. \A j, k \in DOMAIN Tail(box[p]) : j + 1 = k + 1 => j = k
      BY <1>1, <1>6, TailOf
    <2>4. \A n : Moved(p, n)' => n \in DOMAIN Tail(box[p])
      BY <1>6 DEF Moved
    <2>5. MovedOnce(p)
      BY DEF GroupedInv, PortsInv
    <2>6. p \notin data_moved'
      BY <1>1
    <2>7. \A j, k : Moved(p, j)' /\ Moved(p, k)' => j = k
      BY <2>2, <2>3, <2>4, <2>5 DEF MovedOnce
    <2> QED BY <1>6, <2>2, <2>5, <2>6, <2>7 DEF MovedOnce
  <1>10. PortsInv'
    BY <1>6, <1>8, <1>9 DEF PortsInv
  <1> QED BY <1>5, <1>6, <1>7, <1>10 DEF GroupedInv

LEMMA GroupedCollect ==
    ASSUME GroupedInv, WellFormed, NEW p \in Putter, Collect(p)
    PROVE  GroupedInv'
  <1> DEFINE moved == Head(box[p]).type = "gotten" /\ Head(box[p]).moved
  <1>1. /\ at[p] = "collect" /\ awaited[p] > 0 /\ box[p] # <<>> /\ box' = [box EXCEPT ![p] = Tail(@)]
        /\ fault' = (fault \/ Head(box[p]).type # "gotten" \/ (moved /\ p \in data_moved))
        /\ data_moved' = IF moved THEN data_moved \cup {p} ELSE data_moved
        /\ awaited' = [awaited EXCEPT ![p] = @ - 1]
        /\ UNCHANGED <<rules, min_ready, wanted, calls, state, ready, tentatively_ready, committed,
                       state_waiters, lock, outbox, at, group, told>>
    BY DEF Collect, Receives
  <1>t. /\ awaited \in [Putter -> Nat] /\ data_moved \in SUBSET Putter /\ fault = FALSE
        /\ at \in [Port -> {"idle", "recv", "collect"}] /\ box \in [Port -> Seq(Message)] /\ p \in Port
    BY DEF GroupedInv, GroupedTypes, Port
  <1>2. /\ ~Going(p) /\ AllGotten(box[p]) /\ awaited[p] = Len(box[p]) + Cardinality(Pending(p))
        /\ MovedOnce(p)
    BY <1>1 DEF GroupedInv, PortsInv, PutterMail
  <1>3. Bit(p) \notin ready
    <2>1. ASSUME Bit(p) \in ready PROVE FALSE
      <3>1. CASE Bit(p) # Leader \/ (p = Leader /\ group = "none")
        <4>1. CASE p # Leader
          <5>1. p \in ready
            BY <2>1, <3>1, <4>1 DEF Bit
          <5> QED BY <1>1, <4>1, <5>1 DEF GroupedInv, ReadyInv
        <4>2. CASE p = Leader /\ group = "none"
          <5>1. Leader \in ready
            BY <2>1, <4>2 DEF Bit
          <5>2. PICK m \in Group : at[m] = "recv" /\ Bit(m) = Leader
            BY <4>2, <5>1 DEF GroupedInv, ReadyInv, Asked
          <5> QED BY <1>1, <4>2, <5>2 DEF Bit
        <4> QED BY <3>1, <4>1, <4>2 DEF Bit
      <3>2. CASE p \in Group /\ group # "none"
        <4>1. Leader \in ready
          BY <2>1, <3>2 DEF Bit
        <4>2. ~Asked
          BY <1>1, <3>2 DEF GroupedInv, GroupInv
        <4>3. PICK m \in Group : at[m] = "recv"
          BY <4>1, <4>2 DEF GroupedInv, ReadyInv
        <4> QED BY <1>1, <3>2, <4>3 DEF GroupedInv, GroupInv
      <3>3. ASSUME ~(p \in Group /\ group # "none"), Bit(p) = Leader PROVE p = Leader /\ group = "none"
        <4>1. p = Leader
          BY <3>3 DEF Bit
        <4> QED BY <3>3, <4>1 DEF WellFormed
      <3> QED BY <3>1, <3>2, <3>3
    <2> QED BY <2>1
  <1>4. box[p] \in Seq(Message) /\ 1 \in DOMAIN box[p] /\ Head(box[p]) = box[p][1]
        /\ Len(Tail(box[p])) = Len(box[p]) - 1 /\ Len(box[p]) \in Nat
    BY <1>1, <1>t, TailOf
  <1>h. Head(box[p]) \in [type : {"gotten"}, moved : BOOLEAN]
    BY <1>2, <1>4 DEF AllGotten
  <1>5. Head(box[p]).type = "gotten" /\ (moved => Moved(p, 1))
    BY <1>4, <1>h DEF Moved
  <1>6. ~(moved /\ p \in data_moved)
    BY <1>1, <1>2, <1>5 DEF MovedOnce
  <1> HIDE DEF moved
  <1>7. /\ awaited' \in [Putter -> Nat] /\ awaited'[p] = awaited[p] - 1 /\ fault' = FALSE
        /\ data_moved' \in SUBSET Putter
        /\ \A x \in Putter : x # p => awaited'[x] = awaited[x] /\ (x \in data_moved' <=> x \in data_moved)
    <2>1. fault' = FALSE
      BY <1>1, <1>5, <1>6, <1>t
    <2>2. awaited[p] - 1 \in Nat
      BY <1>1, <1>t
    <2> QED BY <1>1, <1>t, <2>1, <2>2
  <1>8. at' = [at EXCEPT ![p] = "collect"]
    BY <1>1, <1>t
  <1>9. /\ at' \in [Port -> {"idle", "recv", "collect"}] /\ box' \in [Port -> Seq(Message)]
        /\ at'[p] = "collect" /\ (Going(p)' <=> Going(p)) /\ box'[p] = Tail(box[p])
        /\ Pending(p)' = Pending(p) /\ \A g : Moving(p, g)' <=> Moving(p, g)
        /\ (Setting /\ OutboxInv /\ CommitInv /\ LeaderMail /\ GroupInv /\ ReadyInv)'
        /\ \A g \in Getter : GetterMail(g)'
        /\ \A x \in Putter : x # p => PutterMail(x)' /\ MovedOnce(x)'
    BY <1>1, <1>3, <1>7, <1>8, PutterTook
  <1>10. GroupedTypes'
    BY <1>1, <1>7, <1>9 DEF GroupedInv, GroupedTypes
  <1>T. /\ \A n \in DOMAIN Tail(box[p]) : /\ n + 1 \in DOMAIN box[p] /\ n + 1 # 1
                                          /\ Tail(box[p])[n] = box[p][n + 1]
        /\ \A j, k \in DOMAIN Tail(box[p]) : j + 1 = k + 1 => j = k
    BY <1>1, <1>4, TailOf
  <1>11. PutterMail(p)'
    <2>1. AllGotten(Tail(box[p]))
      BY <1>2, <1>T DEF AllGotten
    <2>2. Cardinality(Pending(p)) \in Nat
      <3>1. IsFiniteSet(Pending(p))
        BY FS_Subset DEF WellFormed, Pending
      <3> QED BY <3>1, FS_CardinalityType
    <2>3. awaited'[p] = Len(box'[p]) + Cardinality(Pending(p)')
      BY <1>2, <1>4, <1>7, <1>9, <2>2
    <2> QED BY <1>2, <1>9, <2>1, <2>3 DEF PutterMail, AllGotten
  <1>12. MovedOnce(p)'
    <2>2. \A n : Moved(p, n)' => Moved(p, n + 1) /\ n + 1 # 1 /\ n \in DOMAIN Tail(box[p])
      BY <1>9, <1>T DEF Moved
    <2>3. \A j, k : Moved(p, j)' /\ Moved(p, k)' => j = k
      BY <1>2, <1>T, <2>2 DEF MovedOnce
    <2>4. ASSUME p \in data_moved' PROVE \A x : ~Moving(p, x)' /\ ~Moved(p, x)'
      <3>1. CASE moved
        BY <1>2, <1>5, <1>9, <2>2, <3>1 DEF MovedOnce
      <3>2. CASE ~moved
        BY <1>1, <1>2, <1>9, <2>2, <2>4, <3>2 DEF MovedOnce
      <3> QED BY <3>1, <3>2
    <2> QED BY <1>2, <1>9, <2>2, <2>3, <2>4 DEF MovedOnce
  <1>13. PortsInv'
    BY <1>9, <1>11, <1>12 DEF PortsInv
  <1> QED BY <1>7, <1>9, <1>10, <1>13 DEF GroupedInv

\* a pointer on its way to a getter is of the call its putter is in
LEMMA GetsOwned ==
    ASSUME GroupedInv, WellFormed, NEW g \in Getter, NEW m, Carries(g, m), m.type = "get"
    PROVE  /\ m.from \in Putter /\ g \in Pending(m.from)
           /\ \E mv \in BOOLEAN : m = GetOf(m.from, mv)
           /\ at[g] = "recv" /\ Bit(g) \notin ready
  <1>1. g \in Port /\ GetterMail(g) /\ ~Silent(g)
    BY CarriesOne DEF GroupedInv, PortsInv, Port
  <1>2. CASE at[g] = "idle"
    <2>1. g = Leader
      BY <1>1, <1>2 DEF GetterMail
    <2>2. CASE group = "waiting" /\ ~state_waiters
      <3>1. m = [type |-> "state"]
        BY <1>1, <1>2, <2>1, <2>2, CarriesOne DEF GroupedInv, LeaderMail
      <3> QED BY <3>1
    <2>3. CASE group = "asking" /\ committed # 0
      <3>1. m = [type |-> "fire", rule |-> committed]
        BY <1>1, <1>2, <2>1, <2>3, CarriesOne DEF GroupedInv, LeaderMail
      <3> QED BY <3>1
    <2> QED BY <1>1, <1>2, <2>1, <2>2, <2>3 DEF GroupedInv, LeaderMail
  <1>3. CASE at[g] = "recv"
    <2>1. Bit(g) \notin ready
      BY <1>1, <1>3 DEF GetterMail
    <2>2. PICK p \in Putter : g \in Pending(p)
      BY <1>1, <1>3, <2>1 DEF GetterMail
    <2>3. PICK mv \in BOOLEAN : Carries(g, GetOf(p, mv))
      BY <2>2 DEF Pending
    <2>4. m = GetOf(p, mv)
      BY <1>1, <2>3, CarriesOne DEF GroupedInv
    <2>5. m.from = p
      BY <2>4 DEF GetOf
    <2> QED BY <1>3, <2>1, <2>2, <2>4, <2>5
  <1>4. at[g] # "collect" /\ at[g] \in {"idle", "recv", "collect"}
    BY <1>1 DEF GetterMail, GroupedInv, GroupedTypes
  <1> QED BY <1>2, <1>3, <1>4

\* a putter returns once every getter it waited for has answered
LEMMA GroupedPutReturn ==
    ASSUME GroupedInv, WellFormed, NEW p \in Putter, PutReturn(p)
    PROVE  GroupedInv'
  <1>1. /\ at[p] = "collect" /\ awaited[p] = 0
        /\ at' = [at EXCEPT ![p] = "idle"] /\ calls' = [calls EXCEPT ![p] = @ - 1]
        /\ UNCHANGED <<rules, min_ready, wanted, state, ready, tentatively_ready, committed,
                       state_waiters, lock, outbox, box, group, told, awaited, data_moved, fault>>
    BY DEF PutReturn
  <1>t. /\ at \in [Port -> {"idle", "recv", "collect"}] /\ box \in [Port -> Seq(Message)] /\ p \in Port
        /\ calls \in [Port -> Nat] /\ calls[p] > 0 /\ calls[p] \in Nat
        /\ Leader \in Port /\ Leader \in Group /\ Group \subseteq Port
    BY <1>1, PortsApart DEF WellFormed, GroupedInv, GroupedTypes, ReadyInv, Port
  <1>2. Pending(p) = {} /\ Silent(p)
    <2>1. IsFiniteSet(Pending(p)) /\ box[p] \in Seq(Message)
      BY <1>t, FS_Subset DEF WellFormed, Pending
    <2>2. Cardinality(Pending(p)) \in Nat /\ Len(box[p]) \in Nat
      BY <2>1, FS_CardinalityType
    <2>3. ~Going(p) /\ 0 = Len(box[p]) + Cardinality(Pending(p))
      BY <1>1 DEF GroupedInv, PortsInv, PutterMail
    <2>4. Len(box[p]) = 0 /\ Cardinality(Pending(p)) = 0
      BY <2>2, <2>3
    <2>5. Pending(p) = {}
      BY <2>1, <2>4, FS_EmptySet
    <2>6. box[p] = <<>>
      BY <2>1, <2>4, EmptySeq
    <2> QED BY <2>3, <2>5, <2>6 DEF Silent
  <1>3. /\ at' \in [Port -> {"idle", "recv", "collect"}] /\ at'[p] = "idle"
        /\ \A x \in Port : x # p => at'[x] = at[x]
        /\ calls' \in [Port -> Nat] /\ \A x \in Port : x # p => calls'[x] = calls[x]
        /\ \A x \in Port : calls'[x] <= calls[x]
    <2>1. calls[p] - 1 \in Nat /\ calls[p] - 1 <= calls[p]
      BY <1>t
    <2>2. calls' = [calls EXCEPT ![p] = calls[p] - 1]
      BY <1>1
    <2>3. calls' \in [Port -> Nat] /\ calls'[p] = calls[p] - 1 /\ \A x \in Port : x # p => calls'[x] = calls[x]
      BY <1>t, <2>1, <2>2
    <2>4. ASSUME NEW x \in Port PROVE calls'[x] <= calls[x]
      <3>1. calls[x] \in Nat
        BY <1>t
      <3> QED BY <2>1, <2>3, <3>1
    <2> QED BY <1>1, <1>t, <2>3, <2>4
  <1>4. GroupedTypes'
    BY <1>1, <1>3 DEF GroupedInv, GroupedTypes
  <1>5. Setting'
    BY <1>1, <1>3, <1>4, SettingKept DEF GroupedInv
  <1>6. (OutboxInv /\ CommitInv)'
    BY <1>1 DEF GroupedInv, OutboxInv, CommitInv, Asked
  <1>7. (~Asked /\ group # "waiting") \/ p \notin Group
    BY <1>1 DEF GroupedInv, GroupInv
  <1>b. (\A x : Bit(x)' = Bit(x)) /\ (Asked' <=> Asked)
    BY <1>1 DEF Bit, Asked
  <1>8. LeaderMail'
    <2>1. CASE p = Leader
      BY <1>1, <1>2, <1>7, <1>t, <2>1, SameMail DEF LeaderMail, Asked
    <2>2. CASE p # Leader
      <3>1. at'[Leader] = at[Leader]
        BY <1>3, <1>t, <2>2
      <3> QED BY <1>1, <3>1, SameMail DEF GroupedInv, LeaderMail
    <2> QED BY <2>1, <2>2
  <1>9. GroupInv'
    <2>1. \A m \in Group : (at[m] = "idle" => at'[m] = "idle") /\ (at'[m] = "recv" => at[m] = "recv")
                           /\ (at'[m] # "idle" => at[m] # "idle")
      BY <1>1, <1>3, <1>t
    <2>2. Asked => \A m \in Group : calls'[m] > 0
      BY <1>3, <1>7, <1>t DEF GroupedInv, GroupInv
    <2> QED BY <1>1, <1>b, <2>1, <2>2 DEF GroupedInv, GroupInv
  <1>10. ReadyInv'
    <2>1. ASSUME NEW x \in ready, x # Leader PROVE at'[x] = "recv" /\ Bit(x) = x
      <3>1. at[x] = "recv" /\ Bit(x) = x /\ x \in Port
        BY <2>1 DEF GroupedInv, ReadyInv, GroupedTypes
      <3> QED BY <1>1, <1>3, <3>1
    <2>2. ASSUME Leader \in ready, ~Asked PROVE \E m \in Group : at'[m] = "recv" /\ Bit(m) = Leader
      <3>1. PICK m \in Group : at[m] = "recv" /\ Bit(m) = Leader
        BY <2>2 DEF GroupedInv, ReadyInv
      <3> QED BY <1>1, <1>3, <1>t, <3>1
    <2>3. ASSUME NEW x \in Port, at'[x] # "idle" PROVE calls'[x] > 0
      BY <1>3, <2>3 DEF GroupedInv, ReadyInv
    <2> QED BY <1>1, <1>b, <2>1, <2>2, <2>3 DEF ReadyInv
  <1>11. ASSUME NEW g \in Getter PROVE GetterMail(g)'
    <2>1. g # p /\ g \in Port /\ at'[g] = at[g]
      BY <1>3, PortsApart DEF Port
    <2>2. ASSUME NEW y \in Putter, g \in Pending(y) PROVE g \in Pending(y)'
      <3>1. y # p
        BY <1>2, <2>2
      <3>2. calls'[y] = calls[y]
        BY <1>3, <3>1 DEF Port
      <3> QED BY <1>1, <2>2, <3>2, SameMail
    <2> QED BY <1>1, <1>b, <2>1, <2>2, SameMail, GetterKept DEF GroupedInv, PortsInv
  <1>12. ASSUME NEW x \in Putter, x # p PROVE PutterMail(x)' /\ MovedOnce(x)'
    <2>1. x \in Port /\ at'[x] = at[x] /\ calls'[x] = calls[x]
      BY <1>3, <1>12 DEF Port
    <2>2. PutterMail(x)'
      BY <1>1, <1>b, <2>1, SameMail, PutterKept DEF GroupedInv, PortsInv, AwaitSent
    <2>3. MovedOnce(x)'
      BY <1>1, <2>1, SameMail, MovedKept DEF GroupedInv, PortsInv
    <2> QED BY <2>2, <2>3
  <1>13. \A g, mv : g \in Getter => ~Carries(g, GetOf(p, mv))'
    <2> SUFFICES ASSUME NEW g \in Getter, NEW mv, Carries(g, GetOf(p, mv)') PROVE FALSE
      BY <1>1, SameMail
    <2>1. GetOf(p, mv)'.type = "get" /\ GetOf(p, mv)'.from = p
      BY DEF GetOf
    <2>2. g \in Pending(p)
      BY <2>1, GetsOwned
    <2> QED BY <1>2, <2>2
  <1>14. Pending(p)' = {} /\ \A g : ~Moving(p, g)'
    BY <1>13 DEF Pending, Moving
  <1>15. PutterMail(p)' /\ MovedOnce(p)'
    <2>1. Silent(p)' /\ \A n : ~Moved(p, n)'
      BY <1>1, <1>2 DEF Silent, Moved, Going
    <2> QED BY <1>3, <1>14, <2>1 DEF PutterMail, MovedOnce
  <1>16. PortsInv'
    BY <1>11, <1>12, <1>15 DEF PortsInv
  <1> QED BY <1>1, <1>4, <1>5, <1>6, <1>8, <1>9, <1>10, <1>16 DEF GroupedInv

LEMMA Appended ==
    ASSUME NEW s \in Seq(Message), NEW e \in Message
    PROVE  /\ Append(s, e) \in Seq(Message) /\ Append(s, e) # <<>>
           /\ Len(Append(s, e)) = Len(s) + 1 /\ Len(s) \in Nat
           /\ \A n \in DOMAIN s : n \in DOMAIN Append(s, e) /\ Append(s, e)[n] = s[n]
           /\ \A n \in DOMAIN Append(s, e) : n \in DOMAIN s \/ (n = Len(s) + 1 /\ Append(s, e)[n] = e)
           /\ s # <<>> => /\ Head(Append(s, e)) = Head(s)
                          /\ Tail(Append(s, e)) = Append(Tail(s), e)
                          /\ Tail(s) \in Seq(Message)
  <1>1. /\ DOMAIN s = 1 .. Len(s) /\ Len(s) \in Nat
        /\ Append(s, e) \in Seq(Message) /\ Len(Append(s, e)) = Len(s) + 1
        /\ DOMAIN Append(s, e) = 1 .. Len(s) + 1
        /\ Append(s, e)[Len(s) + 1] = e
    BY AppendProperties
  <1>2. \A n \in 1 .. Len(s) : n \in 1 .. Len(s) + 1 /\ Append(s, e)[n] = s[n]
    BY <1>1
  <1>3. \A n \in 1 .. Len(s) + 1 : n \in 1 .. Len(s) \/ n = Len(s) + 1
    BY <1>1
  <1>4. Append(s, e) # <<>>
    BY <1>1
  <1>5. ASSUME s # <<>> PROVE /\ Head(Append(s, e)) = Head(s) /\ Tail(Append(s, e)) = Append(Tail(s), e)
                              /\ Tail(s) \in Seq(Message)
    BY <1>5, HeadTailAppend, HeadTailProperties
  <1> QED BY <1>1, <1>2, <1>3, <1>4, <1>5

LEMMA GroupedGet ==
    ASSUME GroupedInv, WellFormed, NEW g \in Getter, Get(g)
    PROVE  GroupedInv'
  <1>0. at[g] = "recv" /\ box[g] # <<>>
    BY DEF Get, Receives
  <1>t. /\ at \in [Port -> {"idle", "recv", "collect"}] /\ box \in [Port -> Seq(Message)] /\ g \in Port
        /\ calls \in [Port -> Nat] /\ calls[g] > 0 /\ calls[g] \in Nat
        /\ outbox \in Seq([to : Port, msg : Message])
        /\ Leader \in Port /\ Leader \in Group /\ Group \subseteq Port
    BY <1>0, PortsApart DEF WellFormed, GroupedInv, GroupedTypes, ReadyInv, Port
  <1>1. Bit(g) \notin ready
    BY <1>0 DEF GroupedInv, PortsInv, GetterMail, Silent
  <1>p. PICK p \in Putter : g \in Pending(p)
    BY <1>0, <1>1 DEF GroupedInv, PortsInv, GetterMail
  <1>m. PICK mv \in BOOLEAN : Carries(g, GetOf(p, mv))
    BY <1>p DEF Pending
  <1>M. PICK M : M = GetOf(p, mv)
    OBVIOUS
  <1>2. box[g] = <<M>> /\ ~Going(g) /\ \A k : Carries(g, k) => k = M
    BY <1>0, <1>m, <1>M, <1>t, CarriesOne DEF GroupedInv
  <1>3. /\ Head(box[g]) = M /\ Tail(box[g]) = <<>>
        /\ M.type = "get" /\ M.from = p /\ M.call = calls[p] /\ M.move = mv
    BY <1>2, <1>M DEF GetOf
  <1>4. /\ p \in Port /\ p # g /\ at[p] \in {"recv", "collect"} /\ ~Going(p)
        /\ at[p] = "recv" => AwaitCame(p) /\ Bit(p) \notin ready
    <2>1. p \in Port /\ p # g /\ PutterMail(p)
      BY PortsApart DEF Port, GroupedInv, PortsInv
    <2>2. at[p] # "idle" /\ (at[p] = "recv" => Bit(p) \notin ready)
      BY <1>p, <2>1 DEF PutterMail
    <2>3. ~AwaitSent(p)
      BY <1>0, <1>p DEF AwaitSent
    <2>4. at[p] \in {"idle", "recv", "collect"}
      BY <1>t, <2>1
    <2> QED BY <2>1, <2>2, <2>3, <2>4 DEF PutterMail, AwaitCame
  <1> DEFINE e == [type |-> "gotten", moved |-> mv]
             s == box[p]
             s2 == Append(s, e)
  <1>5. /\ e \in Message /\ s \in Seq(Message) /\ e \in [type : {"gotten"}, moved : BOOLEAN]
    BY <1>4, <1>t, MessageTyped
  <1>6. /\ s2 \in Seq(Message) /\ s2 # <<>>
        /\ Len(s2) = Len(s) + 1 /\ Len(s) \in Nat
        /\ \A n \in DOMAIN s : n \in DOMAIN s2 /\ s2[n] = s[n]
        /\ \A n \in DOMAIN s2 : n \in DOMAIN s \/ (n = Len(s) + 1 /\ s2[n] = e)
        /\ s # <<>> => Head(s2) = Head(s) /\ Tail(s2) = Append(Tail(s), e) /\ Tail(s) \in Seq(Message)
    BY <1>5, Appended
  <1>7. /\ fault' = FALSE /\ at' = [at EXCEPT ![g] = "idle"] /\ calls' = [calls EXCEPT ![g] = calls[g] - 1]
        /\ box' = [box EXCEPT ![g] = <<>>, ![p] = s2]
        /\ UNCHANGED <<rules, min_ready, wanted, state, ready, tentatively_ready, committed,
                       state_waiters, lock, outbox, group, told, awaited, data_moved>>
    <2>1. fault' = (fault \/ M.type # "get" \/ at[M.from] = "idle" \/ M.call # calls[M.from])
      BY <1>3 DEF Get
    <2>2. fault = FALSE
      BY DEF GroupedInv, GroupedTypes
    <2>3. fault' = FALSE
      BY <1>3, <1>4, <2>1, <2>2
    <2>4. box' = [box EXCEPT ![g] = Tail(@), ![M.from] = Append(@, [type |-> "gotten", moved |-> M.move])]
      BY <1>3 DEF Get
    <2>5. box' = [box EXCEPT ![g] = <<>>, ![p] = s2]
      BY <1>3, <1>4, <1>t, <2>4
    <2> QED BY <2>3, <2>5 DEF Get
  <1> HIDE DEF e, s, s2
  <1>8. /\ box' \in [Port -> Seq(Message)] /\ box'[g] = <<>> /\ box'[p] = s2
        /\ \A x \in Port : x # p /\ x # g => box'[x] = box[x]
        /\ at' \in [Port -> {"idle", "recv", "collect"}] /\ at'[g] = "idle"
        /\ \A x \in Port : x # g => at'[x] = at[x]
    <2> DEFINE b1 == [box EXCEPT ![g] = <<>>]
    <2>1. <<>> \in Seq(Message)
      OBVIOUS
    <2>2. b1 \in [Port -> Seq(Message)] /\ b1[g] = <<>> /\ \A x \in Port : x # g => b1[x] = box[x]
      BY <1>t, <2>1
    <2>3. box' = [b1 EXCEPT ![p] = s2]
      BY <1>7
    <2> HIDE DEF b1
    <2>4. box' \in [Port -> Seq(Message)] /\ box'[p] = s2 /\ \A x \in Port : x # p => box'[x] = b1[x]
      BY <1>4, <1>6, <2>2, <2>3
    <2>5. /\ at' \in [Port -> {"idle", "recv", "collect"}] /\ at'[g] = "idle"
          /\ \A x \in Port : x # g => at'[x] = at[x]
      BY <1>7, <1>t
    <2> QED BY <1>4, <1>t, <2>2, <2>4, <2>5
  <1>9. /\ calls' \in [Port -> Nat] /\ \A x \in Port : x # g => calls'[x] = calls[x]
        /\ \A x \in Port : calls'[x] <= calls[x]
    <2>1. calls[g] - 1 \in Nat /\ calls[g] - 1 <= calls[g]
      BY <1>t
    <2>3. calls' \in [Port -> Nat] /\ calls'[g] = calls[g] - 1 /\ \A x \in Port : x # g => calls'[x] = calls[x]
      BY <1>7, <1>t, <2>1
    <2>4. ASSUME NEW x \in Port PROVE calls'[x] <= calls[x]
      <3>1. calls[x] \in Nat
        BY <1>t
      <3> QED BY <2>1, <2>3, <3>1
    <2> QED BY <2>3, <2>4
  <1>10. /\ \A x : Going(x)' <=> Going(x)
         /\ \A x : Bit(x)' = Bit(x)
         /\ Asked' <=> Asked
    BY <1>7 DEF Going, Bit, Asked
  <1>11. ASSUME NEW x \in Port, x # p, x # g
         PROVE  (Silent(x)' <=> Silent(x)) /\ \A k : Carries(x, k)' <=> Carries(x, k)
    BY <1>7, <1>8, <1>10, <1>11 DEF Silent, Carries
  <1>12. Silent(g)' /\ \A k : ~Carries(g, k)'
    <2>1. ~Going(g)' /\ box'[g] = <<>>
      BY <1>2, <1>8, <1>10
    <2>2. \A k : <<k>> # <<>>
      OBVIOUS
    <2> QED BY <2>1, <2>2 DEF Silent, Carries, Going
  <1>13. \A y \in Putter : \A v : GetOf(y, v)' = GetOf(y, v)
    <2>1. \A y \in Putter : y \in Port /\ y # g
      BY PortsApart DEF Port
    <2> QED BY <1>9, <2>1 DEF GetOf
  <1>14. ASSUME NEW y \in Putter, NEW h \in Getter, h # g, NEW v
         PROVE  Carries(h, GetOf(y, v))' <=> Carries(h, GetOf(y, v))
    <2>1. h \in Port /\ h # p
      BY PortsApart DEF Port
    <2> QED BY <1>11, <1>13, <1>14, <2>1
  <1>15. ASSUME NEW y \in Putter
         PROVE  Pending(y)' = Pending(y) \ {g} /\ \A h : Moving(y, h)' <=> Moving(y, h) /\ h # g
    <2>1. Pending(y)' = Pending(y) \ {g}
      BY <1>12, <1>14 DEF Pending
    <2>2. ASSUME NEW h PROVE Moving(y, h)' <=> Moving(y, h) /\ h # g
      BY <1>12, <1>14 DEF Moving
    <2> QED BY <2>1, <2>2
  <1>16. ASSUME NEW y \in Putter, y # p PROVE g \notin Pending(y)
    <2>1. ASSUME NEW v, Carries(g, GetOf(y, v)) PROVE FALSE
      <3>1. GetOf(y, v) = M /\ GetOf(y, v).from = y
        BY <1>2, <2>1 DEF GetOf
      <3> QED BY <1>3, <1>16, <3>1
    <2> QED BY <2>1 DEF Pending
  <1>17. GroupedTypes'
    BY <1>7, <1>8, <1>9 DEF GroupedInv, GroupedTypes
  <1>18. Setting'
    BY <1>7, <1>9, <1>17, SettingKept DEF GroupedInv
  <1>19. OutboxInv'
    <2>1. ASSUME NEW n \in DOMAIN outbox PROVE box'[outbox[n].to] = <<>>
      <3>1. box[outbox[n].to] = <<>> /\ outbox[n].to # p
        BY <1>4 DEF GroupedInv, OutboxInv, Going
      <3>2. outbox[n] \in [to : Port, msg : Message]
        <4>1. DOMAIN outbox = 1 .. Len(outbox)
          BY <1>t
        <4> QED BY <1>t, <4>1, ElementOfSeq
      <3> QED BY <1>8, <3>1, <3>2
    <2> QED BY <1>7, <2>1 DEF GroupedInv, OutboxInv
  <1>20. CommitInv'
    BY <1>7, <1>10 DEF GroupedInv, CommitInv
  <1>21. g \in Group => ~Asked /\ group # "waiting"
    BY <1>0 DEF GroupedInv, GroupInv
  <1>22. LeaderMail'
    <2>1. CASE g = Leader
      BY <1>7, <1>12, <1>21, <1>t, <2>1 DEF LeaderMail, Asked
    <2>2. CASE p = Leader
      BY <1>4, <1>8, <2>2 DEF LeaderMail
    <2>3. CASE g # Leader /\ p # Leader
      <3>1. at'[Leader] = at[Leader] /\ (Silent(Leader)' <=> Silent(Leader))
            /\ \A k : Carries(Leader, k)' <=> Carries(Leader, k)
        BY <1>8, <1>11, <1>t, <2>3
      <3> QED BY <1>7, <3>1 DEF GroupedInv, LeaderMail
    <2> QED BY <2>1, <2>2, <2>3
  <1>23. GroupInv'
    <2>1. \A m \in Group : (at[m] = "idle" => at'[m] = "idle") /\ (at'[m] = "recv" => at[m] = "recv")
                           /\ (at'[m] # "idle" => at[m] # "idle")
      BY <1>0, <1>8, <1>t
    <2>2. Asked => \A m \in Group : calls'[m] > 0
      BY <1>9, <1>21, <1>t DEF GroupedInv, GroupInv
    <2> QED BY <1>7, <1>10, <2>1, <2>2 DEF GroupedInv, GroupInv
  <1>24. ReadyInv'
    <2>1. ASSUME NEW x \in ready, x # Leader PROVE at'[x] = "recv" /\ Bit(x) = x
      <3>1. at[x] = "recv" /\ Bit(x) = x /\ x \in Port
        BY <2>1 DEF GroupedInv, ReadyInv, GroupedTypes
      <3>2. x # g
        BY <1>1, <2>1, <3>1
      <3> QED BY <1>8, <3>1, <3>2
    <2>2. ASSUME Leader \in ready, ~Asked PROVE \E m \in Group : at'[m] = "recv" /\ Bit(m) = Leader
      <3>1. PICK m \in Group : at[m] = "recv" /\ Bit(m) = Leader
        BY <2>2 DEF GroupedInv, ReadyInv
      <3>2. m # g
        BY <1>1, <2>2, <3>1
      <3> QED BY <1>8, <1>t, <3>1, <3>2
    <2>3. ASSUME NEW x \in Port, at'[x] # "idle" PROVE calls'[x] > 0
      BY <1>8, <1>9, <2>3 DEF GroupedInv, ReadyInv
    <2> QED BY <1>7, <1>10, <2>1, <2>2, <2>3 DEF ReadyInv
  <1>25. ASSUME NEW h \in Getter PROVE GetterMail(h)'
    <2>1. CASE h = g
      BY <1>8, <1>12, <2>1 DEF GetterMail
    <2>2. CASE h # g
      <3>1. h \in Port /\ h # p /\ at'[h] = at[h]
        BY <1>8, <2>2, PortsApart DEF Port
      <3>2. ASSUME NEW y \in Putter, h \in Pending(y) PROVE h \in Pending(y)'
        BY <1>15, <2>2, <3>2
      <3>3. Silent(h)' <=> Silent(h)
        BY <1>11, <2>2, <3>1
      <3> QED BY <1>7, <1>10, <3>1, <3>2, <3>3, GetterKept DEF GroupedInv, PortsInv
    <2> QED BY <2>1, <2>2
  <1>26. ASSUME NEW x \in Putter, x # p PROVE PutterMail(x)' /\ MovedOnce(x)'
    <2>1. x \in Port /\ x # g /\ at'[x] = at[x] /\ box'[x] = box[x]
      BY <1>8, <1>26, PortsApart DEF Port
    <2>2. Pending(x)' = Pending(x)
      BY <1>15, <1>16, <1>26
    <2>3. \A h \in Pending(x) : box[h] = <<>> => box'[h] = <<>>
      <3>1. \A h \in Pending(x) : h \in Port /\ h # p
        BY PortsApart DEF Pending
      <3> QED BY <1>8, <3>1
    <2>4. PutterMail(x)'
      BY <1>7, <1>10, <2>1, <2>2, <2>3, PutterKept DEF GroupedInv, PortsInv, AwaitSent
    <2>5. MovedOnce(x)'
      BY <1>7, <1>15, <2>1, MovedKept DEF GroupedInv, PortsInv, Moved
    <2> QED BY <2>4, <2>5
  <1>27. Cardinality(Pending(p)') = Cardinality(Pending(p)) - 1 /\ Cardinality(Pending(p)) \in Nat
    <2>1. IsFiniteSet(Pending(p))
      BY FS_Subset DEF WellFormed, Pending
    <2> QED BY <1>15, <1>p, <2>1, FS_RemoveElement, FS_CardinalityType
  <1>28. PutterMail(p)'
    <2>0. at'[p] = at[p] /\ s = box[p]
      BY <1>4, <1>8 DEF s
    <2>1. CASE at[p] = "recv"
      <3>1. PICK c \in Nat : /\ Head(s) = [type |-> "await", count |-> c]
                             /\ c = Len(Tail(s)) + Cardinality(Pending(p))
        BY <1>4, <2>0, <2>1 DEF AwaitCame
      <3>2. s # <<>> /\ AllGotten(Tail(s)) /\ ~Going(p)
        BY <1>4, <2>0, <2>1 DEF AwaitCame
      <3>3. /\ Tail(s2) = Append(Tail(s), e) /\ Head(s2) = Head(s) /\ Tail(s) \in Seq(Message)
        BY <1>6, <3>2
      <3>4. Len(Tail(s2)) = Len(Tail(s)) + 1 /\ Len(Tail(s)) \in Nat
        BY <1>5, <3>3, Appended DEF e
      <3>5. AllGotten(Tail(s2))
        <4>1. \A n \in DOMAIN Append(Tail(s), e) :
                 \/ n \in DOMAIN Tail(s) /\ Append(Tail(s), e)[n] = Tail(s)[n]
                 \/ Append(Tail(s), e)[n] = e
          BY <1>5, <3>3, Appended
        <4> QED BY <1>5, <3>2, <3>3, <4>1 DEF AllGotten
      <3>6. c = Len(Tail(s2)) + Cardinality(Pending(p)')
        BY <1>27, <3>1, <3>4
      <3>7. AwaitCame(p)'
        BY <1>6, <1>8, <1>10, <3>1, <3>2, <3>3, <3>5, <3>6 DEF AwaitCame, AllGotten
      <3> QED BY <1>4, <1>7, <1>10, <2>0, <2>1, <3>7 DEF PutterMail
    <2>2. CASE at[p] = "collect"
      <3>1. AllGotten(s) /\ awaited[p] = Len(s) + Cardinality(Pending(p))
        BY <2>0, <2>2 DEF GroupedInv, PortsInv, PutterMail
      <3>2. AllGotten(s2)
        BY <1>5, <1>6, <3>1 DEF AllGotten
      <3>3. awaited[p] = Len(s2) + Cardinality(Pending(p)')
        BY <1>6, <1>27, <3>1
      <3> QED BY <1>4, <1>7, <1>8, <1>10, <2>0, <2>2, <3>2, <3>3 DEF PutterMail, AllGotten
    <2> QED BY <1>4, <2>1, <2>2
  <1>29. MovedOnce(p)'
    <2>0. MovedOnce(p) /\ at'[p] = at[p] /\ s = box[p]
      BY <1>4, <1>8 DEF GroupedInv, PortsInv, s
    <2>1. \A n : Moved(p, n)' => Moved(p, n) \/ (n = Len(s) + 1 /\ e.moved = TRUE)
      <3> SUFFICES ASSUME NEW n, Moved(p, n)' PROVE Moved(p, n) \/ (n = Len(s) + 1 /\ e.moved = TRUE)
        OBVIOUS
      <3>1. n \in DOMAIN s2 /\ s2[n] = [type |-> "gotten", moved |-> TRUE]
        BY <1>8 DEF Moved
      <3>2. CASE n \in DOMAIN s
        BY <1>6, <2>0, <3>1, <3>2 DEF Moved
      <3>3. CASE n = Len(s) + 1 /\ s2[n] = e
        BY <3>1, <3>3
      <3> QED BY <1>6, <3>1, <3>2, <3>3
    <2>2. CASE mv = FALSE
      <3>1. e.moved = FALSE
        BY <2>2 DEF e
      <3> QED BY <1>7, <1>15, <2>0, <2>1, <3>1, MovedKept
    <2>3. CASE mv = TRUE
      <3>1. Moving(p, g)
        BY <1>m, <2>3 DEF Moving
      <3>2. /\ \A x : ~Moving(p, x)'
            /\ \A n : ~Moved(p, n)
            /\ ~(at[p] = "collect" /\ p \in data_moved)
        BY <1>15, <2>0, <3>1 DEF MovedOnce
      <3> QED BY <1>7, <2>0, <2>1, <3>2 DEF MovedOnce
    <2> QED BY <2>2, <2>3
  <1>30. PortsInv'
    BY <1>25, <1>26, <1>28, <1>29 DEF PortsInv
  <1> QED BY <1>7, <1>17, <1>18, <1>19, <1>20, <1>22, <1>23, <1>24, <1>30 DEF GroupedInv

\* between calls no port of the group is ready and nothing is committed
LEMMA RestingClear ==
    ASSUME GroupedInv, WellFormed, Resting, ~Asked
    PROVE  /\ lock = "free" /\ outbox = <<>> /\ committed = 0 /\ Leader \notin ready
           /\ tentatively_ready = {} /\ told = 0
           /\ \A m \in Group : at[m] = "idle"
           /\ group # "waiting" => Silent(Leader) /\ ~state_waiters
  <1>1. lock = "free" /\ \A m \in Group : at[m] = "idle"
    BY DEF Resting
  <1>2. outbox = <<>> /\ committed = 0
    BY <1>1 DEF GroupedInv, OutboxInv, CommitInv
  <1>3. Leader \notin ready
    BY <1>1 DEF GroupedInv, ReadyInv
  <1>4. group # "waiting" => Silent(Leader)
    BY <1>1 DEF WellFormed, GroupedInv, LeaderMail, Asked
  <1> QED BY <1>1, <1>2, <1>3, <1>4 DEF GroupedInv, GroupInv, Asked

LEMMA GroupedNew ==
    ASSUME GroupedInv, WellFormed, AllGroupable, PortGroupNew
    PROVE  GroupedInv'
  <1>1. /\ group = "none" /\ wanted # {} /\ Resting
        /\ min_ready' = [i \in DOMAIN rules |-> Grouped(min_ready[i])]
        /\ fault' = (fault \/ \E i \in DOMAIN rules : Cardinality(min_ready[i] \cap Group) > 1)
        /\ group' = IF state \in wanted THEN "formed" ELSE "waiting"
        /\ state_waiters' = (state \notin wanted)
        /\ UNCHANGED <<rules, wanted, calls, state, ready, tentatively_ready, committed, lock, outbox,
                       box, at, told, awaited, data_moved>>
    BY DEF PortGroupNew
  <1>2. /\ lock = "free" /\ outbox = <<>> /\ committed = 0 /\ Leader \notin ready
        /\ tentatively_ready = {} /\ told = 0 /\ Silent(Leader)
        /\ \A m \in Group : at[m] = "idle"
    BY <1>1, RestingClear DEF Asked
  <1>3. min_ready = [i \in DOMAIN rules |-> Members(rules[i])]
    BY <1>1 DEF GroupedInv, Setting
  <1>4. fault' = FALSE
    <2>1. ASSUME NEW i \in DOMAIN rules PROVE ~(Cardinality(min_ready[i] \cap Group) > 1)
      <3> DEFINE S == min_ready[i] \cap Group
      <3>1. \A a, b \in S : a = b
        BY <1>1, <1>3, GroupOfOne DEF GroupedInv
      <3> HIDE DEF S
      <3>2. CASE S = {}
        <4>1. Cardinality(S) = 0
          BY <3>2, FS_EmptySet
        <4> QED BY <4>1 DEF S
      <3>3. CASE S # {}
        <4>1. PICK a \in S : S = {a}
          BY <3>1, <3>3
        <4>2. Cardinality(S) = 1
          BY <4>1, FS_Singleton
        <4> QED BY <4>2 DEF S
      <3> QED BY <3>2, <3>3
    <2>2. fault = FALSE
      BY DEF GroupedInv, GroupedTypes
    <2> QED BY <1>1, <2>1, <2>2
  <1>5. /\ group' \in {"formed", "waiting"} /\ state_waiters' \in BOOLEAN
        /\ group' = "waiting" <=> state_waiters'
    BY <1>1
  <1>6. GroupedTypes'
    BY <1>1, <1>4, <1>5 DEF GroupedInv, GroupedTypes
  <1>7. Setting'
    <2>1. min_ready' = [i \in DOMAIN rules |-> Grouped(Members(rules[i]))]
      BY <1>1, <1>3
    <2> QED BY <1>1, <1>5, <2>1 DEF GroupedInv, Setting
  <1>8. (OutboxInv /\ CommitInv)'
    BY <1>1, <1>2 DEF OutboxInv, CommitInv, GroupedInv
  <1>9. LeaderMail'
    BY <1>1, <1>2, <1>5, SameMail DEF LeaderMail
  <1>10. GroupInv'
    BY <1>1, <1>2, <1>5 DEF GroupInv, Asked
  <1>11. \A q \in Port : at[q] = "recv" => Bit(q)' = Bit(q)
    BY <1>1, <1>2 DEF Bit
  <1>12. ReadyInv'
    <2>1. \A q \in ready : q # Leader => at[q] = "recv" /\ Bit(q) = q /\ q \in Port
      BY DEF GroupedInv, ReadyInv, GroupedTypes
    <2> QED BY <1>1, <1>2, <1>11, <2>1 DEF GroupedInv, ReadyInv
  <1>13. PortsInv'
    BY <1>1, <1>11, PortsKept DEF GroupedInv
  <1> QED BY <1>4, <1>6, <1>7, <1>8, <1>9, <1>10, <1>12, <1>13 DEF GroupedInv

LEMMA GroupedAsk ==
    ASSUME GroupedInv, WellFormed, AllGroupable, Ask
    PROVE  GroupedInv'
  <1>1. /\ group = "formed" /\ Resting /\ \A m \in Group : calls[m] > 0
        /\ lock' = "group" /\ group' = "asking"
        /\ ready' = ready \cup {Leader} /\ tentatively_ready' = tentatively_ready \cup {Leader}
        /\ UNCHANGED <<rules, min_ready, wanted, calls, state, committed, state_waiters, outbox, box,
                       at, told, awaited, data_moved, fault>>
    BY DEF Ask
  <1>2. /\ lock = "free" /\ outbox = <<>> /\ committed = 0 /\ Leader \notin ready
        /\ tentatively_ready = {} /\ told = 0 /\ Silent(Leader) /\ ~state_waiters
        /\ \A m \in Group : at[m] = "idle"
    BY <1>1, RestingClear DEF Asked
  <1>t. Leader \in Port /\ Leader \in Group /\ Group \subseteq Port
    BY PortsApart DEF WellFormed
  <1>3. ASSUME NEW i \in DOMAIN rules PROVE Leader \in min_ready[i]
    <2>1. PICK d \in Defs : /\ rules = d.rules /\ wanted = d.wanted
                                   /\ \A p \in Port : calls[p] <= d.calls[p]
      BY DEF GroupedInv, Setting
    <2>2. wanted # {} /\ min_ready[i] = Grouped(Members(rules[i]))
      BY <1>1 DEF GroupedInv, Setting
    <2>3. \A m \in Group : d.calls[m] # 0
      <3> SUFFICES ASSUME NEW m \in Group PROVE d.calls[m] # 0
        OBVIOUS
      <3>1. calls[m] \in Nat /\ d.calls[m] \in Nat /\ m \in Port
        BY <1>t DEF WellFormed, GroupedInv, GroupedTypes, Port
      <3>2. calls[m] > 0 /\ calls[m] <= d.calls[m]
        BY <1>1, <2>1, <3>1
      <3> QED BY <3>1, <3>2
    <2>4. Members(rules[i]) \cap Group # {}
      BY <2>1, <2>2, <2>3 DEF AllGroupable, Groupable
    <2> QED BY <2>2, <2>4 DEF Grouped
  <1>4. GroupedTypes'
    BY <1>1, <1>t DEF GroupedInv, GroupedTypes
  <1>5. Setting'
    BY <1>1 DEF GroupedInv, Setting
  <1>6. (OutboxInv /\ CommitInv)'
    BY <1>1, <1>2 DEF OutboxInv, CommitInv, GroupedInv
  <1>7. LeaderMail'
    BY <1>1, <1>2, SameMail DEF LeaderMail
  <1>8. GroupInv'
    BY <1>1, <1>2, <1>3 DEF GroupedInv, GroupInv, Asked
  <1>9. \A q : Bit(q)' = Bit(q)
    BY <1>1 DEF Bit
  <1>10. ReadyInv'
    BY <1>1, <1>9 DEF GroupedInv, ReadyInv, Asked
  <1>11. \A q \in Port : at[q] = "recv" => ((Bit(q) \in ready)' <=> Bit(q) \in ready)
    BY <1>1, <1>2, <1>9, <1>t DEF Bit
  <1>12. PortsInv'
    BY <1>1, <1>11, PortsKept DEF GroupedInv
  <1> QED BY <1>1, <1>4, <1>5, <1>6, <1>7, <1>8, <1>10, <1>12 DEF GroupedInv

LEMMA GroupedDrop ==
    ASSUME GroupedInv, WellFormed, PortGroupDrop
    PROVE  GroupedInv'
  <1>1. /\ group = "formed" /\ Resting /\ group' = "none"
        /\ min_ready' = [i \in DOMAIN rules |->
                            (min_ready[i] \ Group) \cup (Members(rules[i]) \cap Group)]
        /\ fault' = (fault \/ Leader \in ready)
        /\ UNCHANGED <<rules, wanted, calls, state, ready, tentatively_ready, committed, state_waiters,
                       lock, outbox, box, at, told, awaited, data_moved>>
    BY DEF PortGroupDrop
  <1>2. /\ lock = "free" /\ outbox = <<>> /\ committed = 0 /\ Leader \notin ready
        /\ tentatively_ready = {} /\ told = 0 /\ Silent(Leader) /\ ~state_waiters
        /\ \A m \in Group : at[m] = "idle"
    BY <1>1, RestingClear DEF Asked
  <1>3. fault' = FALSE
    BY <1>1, <1>2 DEF GroupedInv, GroupedTypes
  <1>4. GroupedTypes'
    BY <1>1, <1>3 DEF GroupedInv, GroupedTypes
  <1>5. Setting'
    <2>1. min_ready = [i \in DOMAIN rules |-> Grouped(Members(rules[i]))]
      BY <1>1 DEF GroupedInv, Setting
    <2>2. ASSUME NEW R PROVE (Grouped(R) \ Group) \cup (R \cap Group) = R
      BY DEF WellFormed, Grouped
    <2>3. \A i \in DOMAIN rules :
             (min_ready[i] \ Group) \cup (Members(rules[i]) \cap Group) = Members(rules[i])
      BY <2>1, <2>2
    <2>4. min_ready' = [i \in DOMAIN rules |-> Members(rules[i])]
      BY <1>1, <2>3
    <2> QED BY <1>1, <2>4 DEF GroupedInv, Setting
  <1>6. (OutboxInv /\ CommitInv)'
    BY <1>1, <1>2 DEF OutboxInv, CommitInv, GroupedInv
  <1>7. LeaderMail'
    BY <1>1, <1>2, SameMail DEF LeaderMail
  <1>8. GroupInv'
    BY <1>1, <1>2 DEF GroupInv, Asked
  <1>9. \A q \in Port : at[q] = "recv" => Bit(q)' = Bit(q)
    BY <1>1, <1>2 DEF Bit
  <1>10. ReadyInv'
    <2>1. \A q \in ready : q # Leader => at[q] = "recv" /\ Bit(q) = q /\ q \in Port
      BY DEF GroupedInv, ReadyInv, GroupedTypes
    <2> QED BY <1>1, <1>2, <1>9, <2>1 DEF GroupedInv, ReadyInv
  <1>11. PortsInv'
    BY <1>1, <1>9, PortsKept DEF GroupedInv
  <1> QED BY <1>3, <1>4, <1>5, <1>6, <1>7, <1>8, <1>10, <1>11 DEF GroupedInv

-----------------------------------------------------------------------------
LEMMA GroupedStart ==
    ASSUME WellFormed, Init
    PROVE  GroupedInv
  <1>1. PICK d \in Defs : rules = d.rules /\ calls = d.calls /\ wanted = d.wanted
    BY DEF Init
  <1>2. /\ min_ready = [i \in DOMAIN rules |-> Members(rules[i])]
        /\ state = 0 /\ ready = {} /\ tentatively_ready = {} /\ committed = 0
        /\ state_waiters = FALSE /\ lock = "free" /\ outbox = <<>>
        /\ box = [p \in Port |-> <<>>] /\ at = [p \in Port |-> "idle"]
        /\ group = "none" /\ told = 0
        /\ awaited = [p \in Putter |-> 0] /\ data_moved = {} /\ fault = FALSE
    BY PortsApart DEF Init
  <1>3. GroupedTypes
    <2>1. rules \in Seq(Rule) /\ calls \in [Port -> Nat] /\ wanted \in SUBSET {0, 1}
      BY <1>1 DEF WellFormed, Port
    <2>2. box \in [Port -> Seq(Message)] /\ outbox \in Seq([to : Port, msg : Message])
      BY <1>2
    <2> QED BY <1>2, <2>1, <2>2 DEF GroupedTypes
  <1>4. Setting
    <2>1. \A p \in Port : calls[p] <= d.calls[p]
      <3> SUFFICES ASSUME NEW p \in Port PROVE calls[p] <= d.calls[p]
        OBVIOUS
      <3>1. calls[p] \in Nat /\ calls[p] = d.calls[p]
        BY <1>1, <1>3 DEF GroupedTypes
      <3> QED BY <3>1
    <2> QED BY <1>1, <1>2, <2>1 DEF Setting
  <1>5. \A q \in Port : Silent(q) /\ at[q] = "idle" /\ box[q] = <<>>
    BY <1>2 DEF Silent, Going
  <1>6. \A p : Pending(p) = {} /\ \A g : ~Moving(p, g)
    <2>1. \A g \in Getter : \A m : ~Carries(g, m)
      <3>1. \A k : <<k>> # <<>>
        OBVIOUS
      <3> QED BY <1>2, <1>5, <3>1 DEF Carries, Port
    <2> QED BY <2>1 DEF Pending, Moving
  <1>7. OutboxInv /\ CommitInv /\ LeaderMail
    <2>1. OutboxInv /\ CommitInv
      BY <1>2 DEF OutboxInv, CommitInv
    <2>2. Silent(Leader)
      BY <1>5, PortsApart
    <2> QED BY <1>2, <2>1, <2>2 DEF LeaderMail
  <1>8. GroupInv /\ ReadyInv
    BY <1>2, <1>5, PortsApart DEF GroupInv, ReadyInv, Asked
  <1>9. PortsInv
    <2>1. \A g \in Getter : GetterMail(g)
      BY <1>5 DEF GetterMail, Port
    <2>2. \A p \in Putter : PutterMail(p)
      BY <1>5, <1>6 DEF PutterMail, Port
    <2>3. \A p \in Putter : MovedOnce(p)
      BY <1>5, <1>6 DEF MovedOnce, Moved, Port
    <2> QED BY <2>1, <2>2, <2>3 DEF PortsInv
  <1> QED BY <1>2, <1>3, <1>4, <1>7, <1>8, <1>9 DEF GroupedInv

LEMMA GroupedStutter ==
    ASSUME GroupedInv, UNCHANGED groupedVars
    PROVE  GroupedInv'
  <1>1. UNCHANGED <<rules, min_ready, wanted, calls, state, ready, tentatively_ready, committed,
                    state_waiters, lock, outbox, box, at, group, told, awaited, data_moved, fault>>
    BY DEF groupedVars
  <1>2. (GroupedTypes /\ Setting /\ OutboxInv /\ CommitInv)'
    BY <1>1 DEF GroupedInv, GroupedTypes, Setting, OutboxInv, CommitInv, Asked
  <1>3. (GroupInv /\ ReadyInv)'
    BY <1>1 DEF GroupedInv, GroupInv, ReadyInv, Asked, Bit
  <1>4. LeaderMail'
    BY <1>1, SameMail DEF GroupedInv, LeaderMail
  <1>5. PortsInv'
    BY <1>1, PortsKept DEF GroupedInv, Bit
  <1> QED BY <1>1, <1>2, <1>3, <1>4, <1>5 DEF GroupedInv

LEMMA GroupedStep ==
    ASSUME GroupedInv, WellFormed, AllGroupable, Next
    PROVE  GroupedInv'
  <1>1. CASE Progress
    <2>1. CASE Commit
      BY <2>1, GroupedCommit
    <2>2. CASE Fire
      BY <2>2, GroupedFire, GroupedRefuse
    <2>3. CASE Send
      BY <2>3, GroupedSend
    <2>4. CASE Leave
      BY <2>4, GroupedLeave
    <2>5. ASSUME NEW p \in Putter, Await(p) \/ Collect(p) \/ PutReturn(p)
          PROVE  GroupedInv'
      BY <2>5, GroupedAwait, GroupedCollect, GroupedPutReturn
    <2>6. ASSUME NEW g \in Getter, Get(g) PROVE GroupedInv'
      BY <2>6, GroupedGet
    <2>7. CASE Formed
      BY <2>7, GroupedFormed
    <2>8. CASE Determined
      BY <2>8, GroupedDetermined
    <2>9. ASSUME NEW m \in Group, CallTold(m) PROVE GroupedInv'
      BY <2>9, GroupedCall, PortsApart
    <2> QED BY <1>1, <2>1, <2>2, <2>3, <2>4, <2>5, <2>6, <2>7, <2>8, <2>9 DEF Progress
  <1>2. ASSUME NEW p \in Port, Call(p) PROVE GroupedInv'
    BY <1>2, GroupedCall
  <1>3. ASSUME NEW m \in Group, CallMember(m) PROVE GroupedInv'
    BY <1>3, GroupedCall, PortsApart
  <1>4. CASE PortGroupNew
    BY <1>4, GroupedNew
  <1>5. CASE Ask
    BY <1>5, GroupedAsk
  <1>6. CASE PortGroupDrop
    BY <1>6, GroupedDrop
  <1> QED BY <1>1, <1>2, <1>3, <1>4, <1>5, <1>6, PortsApart DEF Next

LEMMA GetterOne ==
    ASSUME GroupedInv, WellFormed, NEW g \in Getter, ~Silent(g)
    PROVE  \E m : Carries(g, m)
  <1>1. GetterMail(g) /\ g \in Port /\ at[g] \in {"idle", "recv", "collect"}
    BY DEF GroupedInv, PortsInv, Port, GroupedTypes
  <1>2. CASE at[g] = "recv"
    BY <1>1, <1>2 DEF GetterMail, Pending
  <1>3. CASE at[g] = "idle"
    <2>1. g = Leader
      BY <1>1, <1>3 DEF GetterMail
    <2>2. CASE group = "waiting" /\ ~state_waiters
      BY <1>3, <2>1, <2>2 DEF GroupedInv, LeaderMail
    <2>3. CASE group = "asking" /\ committed # 0
      BY <1>3, <2>1, <2>3 DEF GroupedInv, LeaderMail
    <2> QED BY <1>3, <2>1, <2>2, <2>3 DEF GroupedInv, LeaderMail
  <1> QED BY <1>1, <1>2, <1>3 DEF GetterMail

LEMMA GroupedHeld ==
    ASSUME GroupedInv, WellFormed
    PROVE  HeldWhileRead
  <1> SUFFICES ASSUME NEW g \in Getter
               PROVE  /\ \A n \in DOMAIN box[g] : box[g][n].type = "get" =>
                            /\ at[box[g][n].from] \in {"recv", "collect"}
                            /\ box[g][n].call = calls[box[g][n].from]
                      /\ InTransit(g, "get") => at[g] = "recv"
    BY DEF HeldWhileRead
  <1>t. g \in Port /\ outbox \in Seq([to : Port, msg : Message])
    BY DEF Port, GroupedInv, GroupedTypes
  <1>1. ASSUME NEW n \in DOMAIN box[g]
        PROVE  Carries(g, box[g][n]) /\ box[g] # <<>>
    <2>1. box[g] # <<>>
      BY <1>1
    <2>2. PICK m : Carries(g, m)
      BY <2>1, GetterOne DEF Silent
    <2>3. box[g] = <<m>>
      BY <2>1, <2>2 DEF Carries
    <2>4. box[g][n] = m
      BY <1>1, <2>3
    <2> QED BY <2>1, <2>2, <2>4
  <1>2. ASSUME NEW n \in DOMAIN box[g], box[g][n].type = "get"
        PROVE  /\ at[box[g][n].from] \in {"recv", "collect"}
               /\ box[g][n].call = calls[box[g][n].from] /\ at[g] = "recv"
    <2>1. PICK m : m = box[g][n]
      OBVIOUS
    <2>2. /\ m.from \in Putter /\ g \in Pending(m.from) /\ at[g] = "recv"
          /\ \E mv \in BOOLEAN : m = GetOf(m.from, mv)
      BY <1>1, <1>2, <2>1, GetsOwned
    <2>3. m.call = calls[m.from]
      BY <2>2 DEF GetOf
    <2>4. at[m.from] # "idle" /\ m.from \in Port
      BY <2>2 DEF GroupedInv, PortsInv, PutterMail, Port
    <2>5. at[m.from] \in {"recv", "collect"}
      BY <2>4 DEF GroupedInv, GroupedTypes
    <2> QED BY <2>1, <2>2, <2>3, <2>5
  <1>3. ASSUME NEW n \in DOMAIN outbox, outbox[n].to = g, outbox[n].msg.type = "get" PROVE at[g] = "recv"
    <2>1. outbox[n] \in [to : Port, msg : Message]
      <3>1. DOMAIN outbox = 1 .. Len(outbox)
        BY <1>t
      <3> QED BY <1>t, <3>1, ElementOfSeq
    <2>2. outbox[n] = [to |-> g, msg |-> outbox[n].msg]
      BY <1>3, <2>1
    <2>3. box[g] = <<>>
      BY <1>3 DEF GroupedInv, OutboxInv
    <2>4. Carries(g, outbox[n].msg)
      BY <2>2, <2>3 DEF Carries
    <2> QED BY <1>3, <2>4, GetsOwned
  <1> QED BY <1>2, <1>3 DEF InTransit

LEMMA GroupedReady ==
    ASSUME GroupedInv, WellFormed
    PROVE  CertainlyReady
  <1>1. ASSUME NEW p \in ready, p # Leader
        PROVE  at[p] = "recv" /\ ~InTransit(p, "await") /\ ~InTransit(p, "get")
    <2>1. at[p] = "recv" /\ Bit(p) \in ready /\ p \in Port
      BY <1>1 DEF GroupedInv, ReadyInv, GroupedTypes
    <2>2. Silent(p)
      BY <2>1 DEF GroupedInv, PortsInv, GetterMail, PutterMail, Port
    <2>3. DOMAIN <<>> = {}
      OBVIOUS
    <2> QED BY <2>1, <2>2, <2>3 DEF Silent, Going, InTransit
  <1>2. Leader \in ready => group \in {"asking", "told"} \/ \E m \in Group : at[m] = "recv"
    BY DEF GroupedInv, ReadyInv, Asked
  <1>3. committed # 0 => min_ready[committed] \subseteq ready
    BY DEF GroupedInv, CommitInv
  <1>4. told # 0 => committed = told /\ Leader \in min_ready[told]
    BY DEF GroupedInv, GroupInv, CommitInv, Asked
  <1> QED BY <1>1, <1>2, <1>3, <1>4 DEF CertainlyReady

LEMMA GroupedBox ==
    ASSUME WellFormed, AllGroupable, GroupedInv, [Next]_groupedVars
    PROVE  GroupedInv'
  <1>1. CASE Next
    BY <1>1, GroupedStep
  <1>2. CASE UNCHANGED groupedVars
    BY <1>2, GroupedStutter
  <1> QED BY <1>1, <1>2

-----------------------------------------------------------------------------
(* Data of a type that is not Copy goes to one getter, which may move it *)

Allowed == {m \in Message : m.type = "get" => m.move = TRUE \/ m.from \in CopyPutters}
Parcel == [to : Port, msg : Allowed]
PermitInv == outbox \in Seq(Parcel) /\ box \in [Port -> Seq(Allowed)] /\ duplicated = FALSE

LEMMA OthersAllowed ==
    /\ \A c \in Nat : [type |-> "await", count |-> c] \in Allowed
    /\ \A b \in BOOLEAN : [type |-> "gotten", moved |-> b] \in Allowed
    /\ \A r \in Nat : [type |-> "fire", rule |-> r] \in Allowed
    /\ [type |-> "state"] \in Allowed
    /\ \A p \in Putter, c \in Nat, b \in BOOLEAN :
          b = TRUE \/ p \in CopyPutters =>
             [type |-> "get", from |-> p, call |-> c, move |-> b] \in Allowed
  BY MessageTyped DEF Allowed

\* the member of a rule that has one getter moves the datum
LEMMA RuleCopied ==
    ASSUME GroupedInv, WellFormed, AllCopied, NEW i \in DOMAIN rules
    PROVE  rules[i].putter \in CopyPutters \/ Len(rules[i].getters) <= 1
  <1>1. PICK d \in Defs : rules = d.rules
    BY DEF GroupedInv, Setting
  <1> QED BY <1>1 DEF AllCopied

LEMMA PermitFire ==
    ASSUME GroupedInv, WellFormed, AllCopied, PermitInv, Fire
    PROVE  PermitInv'
  <1>1. /\ committed # 0 /\ UNCHANGED <<box, duplicated>>
        /\ \/ UNCHANGED outbox
           \/ \E note \in {<<>>, <<[to |-> Leader, msg |-> [type |-> "state"]]>>} :
                 outbox' = Distribute(rules[committed]) \o note
    BY DEF Fire
  <1>2. CASE UNCHANGED outbox
    BY <1>1, <1>2 DEF PermitInv
  <1>3. ASSUME NEW note \in {<<>>, <<[to |-> Leader, msg |-> [type |-> "state"]]>>},
               outbox' = Distribute(rules[committed]) \o note
        PROVE  outbox' \in Seq(Parcel)
    <2>1. committed \in DOMAIN rules
      BY <1>1 DEF GroupedInv, CommitInv
    <2> PICK r : r = rules[committed]
      OBVIOUS
    <2>2. /\ r.putter \in Putter /\ r.getters \in Seq(Getter)
          /\ r.putter \in CopyPutters \/ Len(r.getters) <= 1
      BY <2>1, RuleTyped, RuleCopied
    <2> DEFINE N == Len(r.getters)
               ask(n) == [to |-> r.getters[n],
                          msg |-> [type |-> "get", from |-> r.putter, call |-> calls[r.putter],
                                   move |-> n = 1]]
               first == [to |-> r.putter, msg |-> [type |-> "await", count |-> N]]
               asked == [n \in DOMAIN r.getters |-> ask(n)]
    <2>3. N \in Nat /\ DOMAIN r.getters = 1 .. N /\ \A n \in 1 .. N : r.getters[n] \in Getter
      BY <2>2
    <2>4. calls[r.putter] \in Nat
      BY <2>2 DEF GroupedInv, GroupedTypes, Port
    <2>5. ASSUME NEW n \in 1 .. N PROVE ask(n) \in Parcel
      <3>1. (n = 1) = TRUE \/ r.putter \in CopyPutters
        BY <2>2, <2>3, <2>5
      <3>2. (n = 1) \in BOOLEAN /\ r.getters[n] \in Port
        BY <2>3 DEF Port
      <3>3. [type |-> "get", from |-> r.putter, call |-> calls[r.putter], move |-> n = 1] \in Allowed
        BY <2>2, <2>4, <3>1, <3>2, OthersAllowed
      <3> QED BY <3>2, <3>3 DEF Parcel
    <2>6. first \in Parcel
      BY <2>2, <2>3, OthersAllowed DEF Parcel, Port
    <2>7. note \in Seq(Parcel)
      <3>1. [to |-> Leader, msg |-> [type |-> "state"]] \in Parcel
        BY OthersAllowed, PortsApart DEF Parcel
      <3> PICK e : e = [to |-> Leader, msg |-> [type |-> "state"]]
        OBVIOUS
      <3>2. e \in Parcel /\ note \in {<<>>, <<e>>}
        BY <3>1
      <3> HIDE DEF Parcel
      <3>3. <<e>> \in Seq(Parcel) /\ <<>> \in Seq(Parcel)
        BY <3>2
      <3> QED BY <3>2, <3>3
    <2>8. Distribute(r) = <<first>> \o asked
      BY DEF Distribute
    <2> HIDE DEF ask, first, N
    <2>9. asked \in Seq(Parcel) /\ <<first>> \in Seq(Parcel)
      BY <2>3, <2>5, <2>6
    <2>10. Distribute(r) \in Seq(Parcel)
      BY <2>8, <2>9, ConcatProperties
    <2> QED BY <1>3, <2>7, <2>10, ConcatProperties
  <1> QED BY <1>1, <1>2, <1>3 DEF PermitInv

LEMMA PermitGet ==
    ASSUME GroupedInv, WellFormed, PermitInv, NEW g \in Getter, Get(g)
    PROVE  PermitInv'
  <1> PICK m : m = Head(box[g])
    OBVIOUS
  <1>1. box[g] # <<>> /\ box[g] \in Seq(Allowed) /\ g \in Port
    BY DEF Get, Receives, PermitInv, Port
  <1>2. m \in Allowed /\ Tail(box[g]) \in Seq(Allowed)
    BY <1>1, HeadTailProperties
  <1>3. m.type = "get" => m.from \in Putter /\ m.move \in BOOLEAN /\ (m.move = TRUE \/ m.from \in CopyPutters)
    BY <1>2 DEF Allowed, Message
  <1>4. duplicated' = FALSE
    BY <1>3 DEF Get, PermitInv
  <1>5. UNCHANGED outbox
    BY DEF Get
  <1>6. box' \in [Port -> Seq(Allowed)]
    <2>1. CASE m.type # "get"
      BY <1>1, <1>2, <2>1 DEF Get, PermitInv
    <2>2. CASE m.type = "get"
      <3>1. [type |-> "gotten", moved |-> m.move] \in Allowed
        BY <1>3, <2>2, OthersAllowed
      <3>2. m.from \in Port /\ m.from # g
        BY <1>3, <2>2, PortsApart
      <3>3. box' = [box EXCEPT ![g] = Tail(@),
                               ![m.from] = Append(@, [type |-> "gotten", moved |-> m.move])]
        BY <2>2 DEF Get
      <3>4. box[m.from] \in Seq(Allowed)
        BY <3>2 DEF PermitInv
      <3>5. Append(box[m.from], [type |-> "gotten", moved |-> m.move]) \in Seq(Allowed)
        BY <3>1, <3>4, AppendProperties
      <3> QED BY <1>1, <1>2, <3>2, <3>3, <3>5 DEF PermitInv
    <2> QED BY <2>1, <2>2
  <1> QED BY <1>4, <1>5, <1>6 DEF PermitInv

LEMMA PermitStep ==
    ASSUME GroupedInv, WellFormed, AllCopied, PermitInv, [Next]_groupedVars
    PROVE  PermitInv'
  <1>1. ASSUME NEW q \in Port, box[q] # <<>>, box' = [box EXCEPT ![q] = Tail(@)],
               UNCHANGED <<outbox, duplicated>>
        PROVE  PermitInv'
    <2>1. Tail(box[q]) \in Seq(Allowed)
      BY <1>1, HeadTailProperties DEF PermitInv
    <2> QED BY <1>1, <2>1 DEF PermitInv
  <1>2. CASE Commit
    <2>1. PICK i \in DOMAIN rules :
              outbox' = [n \in 1 .. Cardinality(Tentative) |->
                           [to |-> Leader, msg |-> [type |-> "fire", rule |-> i]]]
      BY <1>2 DEF Commit
    <2>2. i \in Nat
      <3>1. rules \in Seq(Rule)
        BY DEF GroupedInv, GroupedTypes
      <3> QED BY <3>1
    <2>3. [to |-> Leader, msg |-> [type |-> "fire", rule |-> i]] \in Parcel
      BY <2>2, OthersAllowed, PortsApart DEF Parcel
    <2>4. Cardinality(Tentative) \in Nat
      <3>1. IsFiniteSet(Tentative)
        BY PortsApart, FS_Subset DEF Tentative, GroupedInv, GroupedTypes
      <3> QED BY <3>1, FS_CardinalityType
    <2> HIDE DEF Parcel
    <2>5. outbox' \in Seq(Parcel)
      BY <2>1, <2>3, <2>4
    <2>6. UNCHANGED <<box, duplicated>>
      BY <1>2 DEF Commit
    <2> QED BY <2>5, <2>6 DEF PermitInv
  <1>3. CASE Fire
    BY <1>3, PermitFire
  <1>4. CASE Send
    <2> PICK m : m = Head(outbox)
      OBVIOUS
    <2>1. /\ outbox # <<>> /\ outbox' = Tail(outbox) /\ duplicated' = duplicated
          /\ box' = [box EXCEPT ![m.to] = Append(@, m.msg)]
      BY <1>4 DEF Send
    <2>2. m \in Parcel /\ Tail(outbox) \in Seq(Parcel)
      BY <2>1, HeadTailProperties DEF PermitInv
    <2>3. m.to \in Port /\ m.msg \in Allowed
      BY <2>2 DEF Parcel
    <2>4. Append(box[m.to], m.msg) \in Seq(Allowed)
      BY <2>3, AppendProperties DEF PermitInv
    <2> QED BY <2>1, <2>2, <2>3, <2>4 DEF PermitInv
  <1>5. ASSUME NEW p \in Putter, Await(p) \/ Collect(p) PROVE PermitInv'
    BY <1>1, <1>5 DEF Await, Collect, Receives, Port
  <1>6. ASSUME NEW g \in Getter, Get(g) PROVE PermitInv'
    BY <1>6, PermitGet
  <1>7. CASE Formed \/ Determined
    BY <1>1, <1>7, PortsApart DEF Formed, Determined, Receives
  <1>8. ASSUME UNCHANGED <<box, outbox, duplicated>> PROVE PermitInv'
    BY <1>8 DEF PermitInv
  <1>9. CASE Leave \/ PortGroupNew \/ Ask \/ PortGroupDrop \/ UNCHANGED groupedVars
    BY <1>8, <1>9 DEF Leave, PortGroupNew, Ask, PortGroupDrop, groupedVars
  <1>10. ASSUME NEW p, PutReturn(p) \/ Call(p) \/ CallMember(p) \/ CallTold(p) PROVE PermitInv'
    BY <1>8, <1>10 DEF PutReturn, Call, CallMember, CallTold, Enter
  <1> QED BY <1>2, <1>3, <1>4, <1>5, <1>6, <1>7, <1>9, <1>10 DEF Next, Progress

LEMMA PermitStart ==
    ASSUME WellFormed, Init
    PROVE  PermitInv
  BY DEF Init, PermitInv

LEMMA GroupedSafe ==
    ASSUME WellFormed, GroupedInv
    PROVE  /\ ~fault /\ HeldWhileRead /\ CertainlyReady
           /\ PermitInv => NoFault
  <1>1. PermitInv => NoFault
    BY DEF GroupedInv, PermitInv, NoFault
  <1> QED BY <1>1, GroupedHeld, GroupedReady DEF GroupedInv

(***************************************************************************)
(* In graveyard5/proto.rs, whatever its ports, rules and group, no port    *)
(* gets a message it does not expect; while a pointer is on its way to a   *)
(* getter its putter stays in the call that made it; a ready bit belongs   *)
(* to a call that waits, and a group has been told of the rule that is     *)
(* committed.                                                              *)
(***************************************************************************)
THEOREM GroupsAreSafe ==
    ASSUME WellFormed, AllGroupable
    PROVE  Spec => [](~fault /\ HeldWhileRead /\ CertainlyReady)
  <1>1. Init => GroupedInv
    BY GroupedStart
  <1>2. GroupedInv /\ [Next]_groupedVars => GroupedInv'
    BY GroupedBox
  <1>3. GroupedInv => ~fault /\ HeldWhileRead /\ CertainlyReady
    BY GroupedSafe
  <1> QED BY <1>1, <1>2, <1>3, PTL DEF Spec

(***************************************************************************)
(* And where what goes to several getters is Copy, no getter takes a datum *)
(* that it may neither move nor copy.                                      *)
(***************************************************************************)
THEOREM GroupsDoNotFault ==
    ASSUME WellFormed, AllGroupable, AllCopied
    PROVE  Spec => []NoFault
  <1>1. Init => GroupedInv /\ PermitInv
    BY GroupedStart, PermitStart
  <1>2. GroupedInv /\ PermitInv /\ [Next]_groupedVars => (GroupedInv /\ PermitInv)'
    BY GroupedBox, PermitStep
  <1>3. GroupedInv /\ PermitInv => NoFault
    BY GroupedSafe
  <1> QED BY <1>1, <1>2, <1>3, PTL DEF Spec

=============================================================================
