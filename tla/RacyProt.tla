------------------------------ MODULE RacyProt ------------------------------
(***************************************************************************)
(* graveyard5/primitives.rs, the protocol without a lock.  Every call sets *)
(* a byte and then tries the rules itself: whoever drains the putter's     *)
(* byte of a rule fires it.  A dropbox keeps one message, overwritten by   *)
(* the next, and counts what was sent.  Accesses to the bytes, plain or    *)
(* relaxed, are taken to happen in some order, and the guard of a rule to  *)
(* lie in one 64-bit chunk, which is read at once.                         *)
(***************************************************************************)
EXTENDS Naturals, Sequences, FiniteSetsExt, FiniteSets

CONSTANTS Ids,       \* locations
          Defs       \* sequences of arguments of add_rule: [is_mem, putter, getters,
                     \* mem_getters]

VARIABLES building,  \* the arguments for which add_rule is still to be called
          built,     \* whether build has made the protocol of it
          rules,     \* of the protocol, their guards and getter counts derived
          id_type,   \* location -> Pu, Ge, Mem or none
          ready,     \* byte of each location: none, PUTTY or GETTY
          at,        \* where each port is: idle, enter, drain, fire, recv, collect
          rule,      \* the rule its thread tries
          todo,      \* the getters its thread has still to tell
          msg, sent, \* dropbox of each port: the message, and the semaphore
          sema, not_yet_moved,   \* the putter spaces
          awaited,   \* answers each putter still waits for
          fault      \* a byte out of bounds, a message overwritten, or a read of
                     \* a datum that is gone

racyVars == <<building, built, rules, id_type, ready, at, rule, todo, msg, sent, sema, not_yet_moved,
              awaited, fault>>

Rule == [is_mem : BOOLEAN, putter : Ids, getters : SUBSET Ids, mem_getters : SUBSET Ids]
WellFormed == Ids \subseteq Nat /\ IsFiniteSet(Ids) /\ Defs \subseteq Seq(Rule)

Members(r) == {r.putter} \cup r.getters \cup r.mem_getters
InRules(i, d) == \E n \in DOMAIN d : i \in Members(d[n])

\* Bytes leaves none for a greatest location that is a multiple of 8
RoomForAll ==
    \A d \in Defs : d # <<>> =>
        \E m \in Ids : InRules(m, d) /\ m % 8 # 0 /\ \A i \in Ids : InRules(i, d) => i <= m

Each(x) == [i \in Ids |-> x]

Init ==
    /\ building \in Defs /\ built = FALSE /\ rules = <<>> /\ id_type = Each("none")
    /\ ready = Each("none") /\ at = Each("idle") /\ rule = Each(0) /\ todo = Each({})
    /\ msg = Each(0) /\ sent = Each(0) /\ sema = Each(0)
    /\ not_yet_moved = Each(FALSE) /\ awaited = Each(0) /\ fault = FALSE

-----------------------------------------------------------------------------
(* ProtBuilder *)

\* a location that clashes with its type makes add_rule panic
AddRule ==
    LET r == Head(building)
        type == [i \in Ids |-> CASE i \in r.getters     -> "Ge"
                                 [] i \in r.mem_getters -> "Mem"
                                 [] i = r.putter        -> IF r.is_mem THEN "Mem" ELSE "Pu"
                                 [] OTHER               -> "none"]
    IN  /\ building # <<>>
        /\ r.getters \cap r.mem_getters = {}
        /\ r.putter \notin r.getters /\ (r.putter \in r.mem_getters => r.is_mem)
        /\ \A i \in Ids : type[i] = "none" \/ id_type[i] \in {"none", type[i]}
        /\ building' = Tail(building) /\ rules' = Append(rules, r)
        /\ id_type' = [i \in Ids |-> IF type[i] = "none" THEN id_type[i] ELSE type[i]]
        /\ UNCHANGED <<built, ready, at, rule, todo, msg, sent, sema, not_yet_moved, awaited,
                       fault>>

Build ==
    /\ building = <<>> /\ ~built /\ built' = TRUE
    /\ UNCHANGED <<building, rules, id_type, ready, at, rule, todo, msg, sent, sema, not_yet_moved,
                   awaited, fault>>

\* with_len, given the greatest location rather than their number
Bytes == LET max_id_encountered == Max({i \in Ids : id_type[i] # "none"})
         IN  8 * ((max_id_encountered + 7) \div 8)

-----------------------------------------------------------------------------
(* put and get *)

Enter(i, byte) ==
    /\ built /\ at[i] = "idle"
    /\ ready' = [ready EXCEPT ![i] = byte]
    /\ at' = [at EXCEPT ![i] = "enter"] /\ rule' = [rule EXCEPT ![i] = 1]
    /\ fault' = (fault \/ i >= Bytes)

Put(p) ==
    /\ id_type[p] = "Pu" /\ Enter(p, "PUTTY")
    /\ not_yet_moved' = [not_yet_moved EXCEPT ![p] = TRUE]
    /\ UNCHANGED <<building, built, rules, id_type, todo, msg, sent, sema, awaited>>

Get(g) ==
    /\ id_type[g] = "Ge" /\ Enter(g, "GETTY")
    /\ UNCHANGED <<building, built, rules, id_type, todo, msg, sent, sema, not_yet_moved, awaited>>

IsSuperset(r) == /\ ready[r.putter] = "PUTTY"
                 /\ \A g \in r.getters \cup r.mem_getters : ready[g] = "GETTY"

\* enter looks at one rule
Try(i) ==
    /\ at[i] = "enter"
    /\ IF rule[i] > Len(rules)
       THEN at' = [at EXCEPT ![i] = "recv"] /\ UNCHANGED rule
       ELSE IF IsSuperset(rules[rule[i]])
       THEN at' = [at EXCEPT ![i] = "drain"] /\ UNCHANGED rule
       ELSE rule' = [rule EXCEPT ![i] = @ + 1] /\ UNCHANGED at
    /\ UNCHANGED <<building, built, rules, id_type, ready, todo, msg, sent, sema, not_yet_moved,
                   awaited, fault>>

\* Mutant: the result of draining is not looked at.
DrainBlindly(i) ==
    /\ at[i] = "drain"
    /\ LET r == rules[rule[i]]
       IN  /\ ready' = [ready EXCEPT ![r.putter] = "none"]
           /\ at' = [at EXCEPT ![i] = "fire"] /\ todo' = [todo EXCEPT ![i] = r.getters]
    /\ UNCHANGED <<building, built, rules, id_type, rule, msg, sent, sema, not_yet_moved, awaited, fault>>

\* atomic_drain_byte: one thread gets PUTTY and fires
Drain(i) ==
    /\ at[i] = "drain"
    /\ LET r == rules[rule[i]]
       IN  IF ready[r.putter] = "PUTTY"
           THEN /\ ready' = [ready EXCEPT ![r.putter] = "none"]
                /\ at' = [at EXCEPT ![i] = "fire"] /\ todo' = [todo EXCEPT ![i] = r.getters]
                /\ UNCHANGED rule
           ELSE /\ at' = [at EXCEPT ![i] = "enter"] /\ rule' = [rule EXCEPT ![i] = @ + 1]
                /\ UNCHANGED <<ready, todo>>
    /\ UNCHANGED <<building, built, rules, id_type, msg, sent, sema, not_yet_moved, awaited, fault>>

Send(i, m) ==
    /\ msg' = [msg EXCEPT ![i] = m] /\ sent' = [sent EXCEPT ![i] = @ + 1]
    /\ fault' = (fault \/ sent[i] > 0)

\* fire tells the getters in order, then the putter, and tries all rules again
Fire(i) ==
    /\ at[i] = "fire"
    /\ LET r == rules[rule[i]]
       IN  IF todo[i] # {}
           THEN /\ ready' = [ready EXCEPT ![Min(todo[i])] = "none"]
                /\ Send(Min(todo[i]), r.putter)
                /\ todo' = [todo EXCEPT ![i] = @ \ {Min(@)}]
                /\ UNCHANGED <<at, rule>>
           ELSE /\ Send(r.putter, Cardinality(r.getters) + Cardinality(r.mem_getters))
                /\ at' = [at EXCEPT ![i] = "enter"] /\ rule' = [rule EXCEPT ![i] = 1]
                /\ UNCHANGED <<ready, todo>>
    /\ UNCHANGED <<building, built, rules, id_type, sema, not_yet_moved, awaited>>

\* the getter moves or clones the datum and releases the putter's semaphore
Receive(g) ==
    /\ id_type[g] = "Ge" /\ at[g] = "recv" /\ sent[g] > 0
    /\ sent' = [sent EXCEPT ![g] = @ - 1]
    /\ sema' = [sema EXCEPT ![msg[g]] = @ + 1]
    /\ not_yet_moved' = [not_yet_moved EXCEPT ![msg[g]] = FALSE]
    /\ fault' = (fault \/ at[msg[g]] = "idle")
    /\ at' = [at EXCEPT ![g] = "idle"]
    /\ UNCHANGED <<building, built, rules, id_type, ready, rule, todo, msg, awaited>>

Await(p) ==
    /\ id_type[p] = "Pu" /\ at[p] = "recv" /\ sent[p] > 0
    /\ sent' = [sent EXCEPT ![p] = @ - 1]
    /\ awaited' = [awaited EXCEPT ![p] = msg[p]]
    /\ at' = [at EXCEPT ![p] = "collect"]
    /\ UNCHANGED <<building, built, rules, id_type, ready, rule, todo, msg, sema, not_yet_moved, fault>>

Collect(p) ==
    /\ at[p] = "collect"
    /\ IF awaited[p] = 0
       THEN at' = [at EXCEPT ![p] = "idle"] /\ UNCHANGED <<sema, awaited>>
       ELSE /\ sema[p] > 0 /\ sema' = [sema EXCEPT ![p] = @ - 1]
            /\ awaited' = [awaited EXCEPT ![p] = @ - 1]
            /\ UNCHANGED at
    /\ UNCHANGED <<building, built, rules, id_type, ready, rule, todo, msg, sent, not_yet_moved, fault>>

-----------------------------------------------------------------------------
Step(i) == Try(i) \/ Drain(i) \/ Fire(i) \/ Receive(i) \/ Await(i) \/ Collect(i)

Progress == \E i \in Ids : Step(i)

Next == \/ Progress \/ AddRule \/ Build
        \/ \E i \in Ids : Put(i) \/ Get(i)

-----------------------------------------------------------------------------
\* No location gets from two putters; where one does, the threads of both may tell it
\* and one message is overwritten.
OneSource == \A i, j \in DOMAIN rules :
                rules[i].getters \cap rules[j].getters # {} => rules[i].putter = rules[j].putter

(***************************************************************************)
(* Where no location gets from two putters, no message is overwritten and  *)
(* every getter reads a datum that is still there.                         *)
(***************************************************************************)
NoFault == OneSource => ~fault

(***************************************************************************)
(* The putter a getter was told of waits for that getter's answer; and so  *)
(* does one whose rule is being fired.                                     *)
(***************************************************************************)
HeldWhileRead ==
    OneSource => /\ \A g \in Ids : id_type[g] = "Ge" /\ sent[g] > 0 => at[msg[g]] # "idle"
                /\ \A i \in Ids : at[i] = "fire" => at[rules[rule[i]].putter] # "idle"

(***************************************************************************)
(* A putter's byte is set only while it waits for a rule.  A getter's may  *)
(* be left over when another rule's thread fired on what it had seen       *)
(* before, but not where there is one rule.                                *)
(***************************************************************************)
CertainlyReady ==
    OneSource => \A i \in Ids : ready[i] # "none" /\ (id_type[i] = "Pu" \/ Len(rules) = 1) =>
                    at[i] \notin {"idle", "collect"} /\ sent[i] = 0

(***************************************************************************)
(* The ports of all rules do not wait forever.  A thread may: it can go on *)
(* firing the rules of others.                                             *)
(***************************************************************************)
Fires(r) == ~r.is_mem /\ r.mem_getters = {}
Served == built /\ OneSource /\ (\A n \in DOMAIN rules : Fires(rules[n])) =>
            \E n \in DOMAIN rules : \E i \in Members(rules[n]) : at[i] = "idle"
NobodyStuck == []<>Served
=============================================================================
