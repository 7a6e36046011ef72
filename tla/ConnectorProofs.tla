-------------------------- MODULE ConnectorProofs --------------------------
(***************************************************************************)
(* What the handoff looks like from the ports, for the connectors it       *)
(* serves: no firing is missed, and every run of the protocol is a run of  *)
(* the atomic connector.  Both rest on the same fact: a value that a rule  *)
(* may select, or that is on its way to someone, stays what it is whatever *)
(* the threads do meanwhile.                                               *)
(***************************************************************************)
EXTENDS ProtoSafety

\* the getters that have yet to take the value of a space
Reading == {"stamp", "copy", "ask", "woncount", "await", "clone"}
Reads(g, s) == SentTo(g, s) \/ (src[g] = s /\ at[g] \in Reading)

\* a value a rule may select, or that someone is about to be handed
Live(s) ==
    \/ s \in ready /\ (s \in Memo => s \in full)
    \/ \E i \in DOMAIN todo : todo[i].putter = s
    \/ \E g \in PoGe : Reads(g, s)

ValuesKept == \A s \in Space : Live(s)' => Deref(s)' = Deref(s)

\* Where a live value may be.
LEMMA LiveWhere ==
    ASSUME SafetyInv, NEW s \in Space, Live(s)
    PROVE  /\ s \in ready \/ InTodo(s) \/ Held(s)
           /\ s \in PoPu => InCall(s)
           /\ s \in Memo /\ s \in ready => s \in full
  <1> USE Kinds
  <1>1. ASSUME NEW g \in PoGe, Reads(g, s) PROVE Held(s)
    BY <1>1 DEF Reads, Reading, SafetyInv, StageInv, InHandoff, Held, Touches, ToCount,
               Closes, SentTo
  <1>2. s \in ready \/ InTodo(s) \/ Held(s)
    BY <1>1 DEF Live, InTodo
  <1>3. s \in Memo /\ s \in ready => s \in full
    BY <1>1 DEF Live, InTodo, SafetyInv, CellInv
  <1> QED BY <1>2, <1>3 DEF SafetyInv, PortInv

\* A putter that is not in a call leaves and enters with what it likes.
LEMMA StackValues ==
    ASSUME TypeOK, SafetyInv', NEW p \in PoPu, ~InCall(p)',
           \A q \in PoPu : q # p => ptr'[q] = ptr[q] /\ heap'[q] = heap[q],
           \A m \in Memo : ptr'[m] = ptr[m], \A a \in StorePtr : heap'[a] = heap[a]
    PROVE  ValuesKept
  <1> USE Kinds
  <1>1. ~Live(p)'
    <2>1. ~(p \in ready') /\ ~InTodo(p)' /\ ~Held(p)'
      BY DEF SafetyInv, PortInv
    <2>2. \A i \in DOMAIN todo' : todo'[i].putter # p
      BY <2>1 DEF InTodo
    <2>3. ASSUME NEW g \in PoGe, Reads(g, p)' PROVE FALSE
      <3>1. (at[g] \in InHandoff)' => (at[g] \in Before \cup After)'
        BY DEF SafetyInv, StageInv
      <3>2. Touches(g, p)'
        BY <2>3, <3>1 DEF Reads, Reading, InHandoff, Touches, ToCount, Closes, SentTo
      <3> QED BY <2>1, <3>2 DEF Held
    <2> QED BY <2>1, <2>2, <2>3 DEF Live
  <1>2. ASSUME NEW s \in Space, s # p PROVE Deref(s)' = Deref(s)
    <2>1. ptr'[s] = ptr[s] /\ ptr[s] \in {s, None} \cup StorePtr
      BY <1>2 DEF TypeOK
    <2>2. ptr[s] # None => heap'[ptr[s]] = heap[ptr[s]]
      BY <1>2, <2>1 DEF TypeOK
    <2> QED BY <2>1, <2>2 DEF Deref
  <1> QED BY <1>1, <1>2 DEF ValuesKept

\* The getter that has taken a value was the last to read it.
LEMMA CopyValues ==
    ASSUME TypeOK, SafetyInv, NEW g \in PoGe, ExecuteCopy(g), UNCHANGED protoVars
    PROVE  ValuesKept
  <1> USE Kinds
  <1>0. PICK s \in Space : s = src[g]
    BY DEF ExecuteCopy, Goto, TypeOK, InHandoff
  <1>1. /\ at[g] = "copy" /\ Touches(g, s) /\ box[g] = None /\ tell[g] = None
        /\ at' = [at EXCEPT ![g] = IF IsCopy THEN "count" ELSE "final"]
        /\ ptr' = IF s \in PoPu THEN [ptr EXCEPT ![s] = None] ELSE ptr
        /\ heap' = IF IsCopy \/ ptr[s] = None THEN heap ELSE [heap EXCEPT ![ptr[s]] = None]
        /\ UNCHANGED <<box, src, ready, full, todo, tell>>
    BY <1>0 DEF ExecuteCopy, Goto, TypeOK, InHandoff, protoVars, SafetyInv, PortInv, InCall, Waiting,
           StageInv, Touches, ToCount, Closes
  <1>2. CASE s \in Memo /\ IsCopy
    <2>1. ptr' = ptr /\ heap' = heap
      BY <1>1, <1>2
    <2> QED BY <2>1 DEF ValuesKept, Deref
  <1>3. CASE s \in PoPu \/ ~IsCopy
    <2>1. Held(s) /\ s \notin ready /\ ~InTodo(s)
      BY <1>1 DEF Held, SafetyInv, PortInv, CellInv
    <2>2. \A h \in PoGe : Touches(h, s) => h = g
      BY <1>1, <1>3 DEF SafetyInv, CountInv
    <2>3. \A h \in PoGe : ~Reads(h, s)'
      BY <1>1, <2>2 DEF Reads, Reading, Touches, ToCount, Closes, SentTo, SafetyInv, StageInv,
                        InHandoff, TypeOK
    <2>4. ~Live(s)'
      BY <1>1, <2>1, <2>3 DEF Live, InTodo
    <2>5. ASSUME NEW z \in Space, z # s PROVE Deref(z)' = Deref(z)
      <3>1. ptr'[z] = ptr[z]
        BY <1>1, <2>5 DEF TypeOK
      <3>2. ptr[z] # None => heap'[ptr[z]] = heap[ptr[z]]
        BY <1>1, <1>3, <2>5 DEF TypeOK, SafetyInv, ContentInv
      <3> QED BY <3>1, <3>2 DEF Deref
    <2> QED BY <2>4, <2>5 DEF ValuesKept
  <1> QED BY <1>1, <1>2, <1>3

\* The getter that empties a cell was the last to have to do with it.
LEMMA FinalizeValues ==
    ASSUME TypeOK, SafetyInv, NEW g \in PoGe, FinalizeCell(g)
    PROVE  /\ ValuesKept
           /\ src[g] \notin full
           /\ ready' = ready \cup {src[g]}
  <1> USE Kinds
  <1>0. PICK m \in Memo : m = src[g]
    BY DEF FinalizeCell
  <1> DEFINE a == ptr[m]
  <1>1. /\ at[g] = "final" /\ Touches(g, m) /\ Closes(g, m) /\ box[g] = None
        /\ tell[g] = None
        /\ at' = [at EXCEPT ![g] = "sweep"]
        /\ make_empty(m, ptr, refs, ready)
        /\ UNCHANGED <<box, src, full, todo, tell>>
    BY <1>0 DEF FinalizeCell, Goto, TypeOK, InHandoff, SafetyInv, PortInv, InCall, Waiting,
           StageInv, Touches, ToCount, Closes, After
  <1>2. Held(m) /\ m \notin ready /\ ~InTodo(m) /\ m \notin full /\ ptr[m] \in StorePtr
    BY <1>1 DEF Held, SafetyInv, PortInv, CellInv, ContentInv, TypeOK
  <1>3. \A h \in PoGe : Touches(h, m) => h = g
    BY <1>1 DEF SafetyInv, CountInv
  <1>4. \A h \in PoGe : ~Reads(h, m)'
    BY <1>1, <1>3 DEF Reads, Reading, Touches, ToCount, Closes, SentTo, SafetyInv, StageInv,
                      InHandoff, TypeOK
  <1>5. ~Live(m)'
    BY <1>1, <1>2, <1>4 DEF Live, InTodo
  <1>6. /\ ptr' = [ptr EXCEPT ![m] = None] /\ ready' = ready \cup {m}
        /\ heap' = IF refs[a] = 1 THEN [heap EXCEPT ![a] = None] ELSE heap
    BY <1>1, <1>2 DEF make_empty
  <1>7. refs[a] = 1 => \A n \in Memo : ptr[n] = a => n = m
    <2>1. Counted(ptr, refs, owned)
      BY DEF SafetyInv, RefCount, Counted, Sharers
    <2> QED BY <1>2, <2>1, SoleSharer
  <1>8. ASSUME NEW z \in Space, z # m PROVE Deref(z)' = Deref(z)
    <2>1. ptr'[z] = ptr[z]
      BY <1>6, <1>8 DEF TypeOK
    <2>2. ptr[z] # None => heap'[ptr[z]] = heap[ptr[z]]
      <3>1. CASE z \in PoPu
        BY <1>2, <1>6, <3>1 DEF TypeOK
      <3>2. CASE z \in Memo
        BY <1>2, <1>6, <1>7, <1>8, <3>2 DEF TypeOK
      <3> QED BY <3>1, <3>2
    <2> QED BY <2>1, <2>2 DEF Deref
  <1> QED BY <1>0, <1>2, <1>5, <1>6, <1>8 DEF ValuesKept

\* No step of a thread changes a value that is live after it.
LEMMA ThreadsKeepValues ==
    ASSUME TypeOK, SafetyInv, SafetyInv', [Next]_vars, ~PerformAction
    PROVE  ValuesKept
  <1> USE Kinds
  <1>1. CASE UNCHANGED <<ptr, heap>>
    BY <1>1 DEF ValuesKept, Deref
  <1>2. ASSUME NEW p \in PoPu, PutBegin(p) \/ RecvPut(p) PROVE ValuesKept
    <2>1. ~InCall(p)'
      BY <1>2 DEF PutBegin, RecvPut, Goto, InCall, Waiting, TypeOK
    <2>2. /\ \A q \in PoPu : q # p => ptr'[q] = ptr[q] /\ heap'[q] = heap[q]
          /\ \A m \in Memo : ptr'[m] = ptr[m]
          /\ \A a \in StorePtr : heap'[a] = heap[a]
      BY <1>2 DEF PutBegin, RecvPut, TypeOK
    <2> QED BY <2>1, <2>2, StackValues
  <1>3. ASSUME NEW t \in Port, Revoke(t) PROVE ValuesKept
    <2>1. CASE t \in PoPu /\ t \in ready
      <3>1. ~InCall(t)'
        BY <1>3, <2>1 DEF Revoke, Goto, InCall, Waiting, StillReady, TypeOK
      <3>2. /\ \A q \in PoPu : q # t => ptr'[q] = ptr[q] /\ heap'[q] = heap[q]
            /\ \A m \in Memo : ptr'[m] = ptr[m]
            /\ \A a \in StorePtr : heap'[a] = heap[a]
        BY <1>3, <2>1 DEF Revoke, TypeOK
      <3> QED BY <2>1, <3>1, <3>2, StackValues
    <2>2. CASE ~(t \in PoPu /\ t \in ready)
      BY <1>1, <1>3, <2>2 DEF Revoke, StillReady
    <2> QED BY <2>1, <2>2
  <1>4. ASSUME NEW g \in PoGe, GetterStep(g) PROVE ValuesKept
    <2>1. ExecuteCopy(g) \/ UNCHANGED <<ptr, heap>>
      BY <1>4 DEF GetterStep, RecvGet, AcquireData, Stamp, Count, CheckMoved, Ask, WonCount, Await,
                  ExecuteClone, LoseCount, Release, SignalAsk, FinalizePort
    <2> QED BY <1>1, <1>4, <2>1, CopyValues DEF GetterStep
  <1>5. ASSUME NEW g \in PoGe, GetBegin(g) \/ FinalizeCell(g) PROVE ValuesKept
    BY <1>1, <1>5, FinalizeValues DEF GetBegin
  <1>6. ASSUME NEW t \in Port, Enter(t) \/ TimeOut(t) PROVE ValuesKept
    BY <1>1, <1>6 DEF Enter, TimeOut
  <1>7. CASE Coordinate
    BY <1>1, <1>7 DEF Coordinate, SelectRule, Arm, Tell, Unlock
  <1> QED BY <1>1, <1>2, <1>3, <1>4, <1>5, <1>6, <1>7
          DEF Next, PutterStep, vars, handoffVars

-----------------------------------------------------------------------------
(* No firing is missed *)

LEMMA RuleGuard ==
    ASSUME NEW r \in RuleId
    PROVE  Rules[r].guard \in Formula
  <1> DEFINE RuleDef == [guard : Formula, actions : Seq(ActionDef)]
  <1>1. Rules \in Seq(RuleDef) /\ r \in 1..Len(Rules)
    BY RuleAssumption DEF RuleId
  <1> HIDE DEF RuleDef
  <1>2. Rules[r] \in RuleDef
    BY <1>1
  <1> QED BY <1>2 DEF RuleDef

\* What the guard of a rule that is ready reads.
LEMMA GuardReads ==
    ASSUME Served, NEW r \in RuleId, NEW x \in Rules[r].guard.atoms, x.op = "ValueEq"
    PROVE  /\ {x.a, x.b} \subseteq Space \cap guard_ready(r)
           /\ {x.a, x.b} \cap Memo \subseteq guard_full(r)
  <1>1. {x.a, x.b} \subseteq {a.putter : a \in Actions(r)}
    BY DEF Served
  <1>2. \A a \in Actions(r) : a.putter \in Space
    BY RuleFacts DEF ActionDef
  <1> QED BY <1>1, <1>2 DEF guard_ready, guard_full

\* Whoever loses readiness disables rules, and never enables one.
LEMMA CanFireKept ==
    ASSUME Served, NEW r \in RuleId, ValuesKept, ready' \subseteq ready, full' = full,
           CanFire(r)'
    PROVE  CanFire(r)
  <1>1. is_ready(r) /\ is_ready(r)'
    BY DEF CanFire, is_ready
  <1>2. ASSUME NEW x \in Rules[r].guard.atoms PROVE EvalAtom(x)' = EvalAtom(x)
    <2>1. CASE x.op = "ValueEq"
      <3>1. ASSUME NEW s \in {x.a, x.b} PROVE Deref(s)' = Deref(s)
        <4>1. s \in Space /\ s \in ready' /\ (s \in Memo => s \in full')
          BY <1>1, <2>1, <3>1, GuardReads DEF is_ready
        <4> QED BY <4>1 DEF ValuesKept, Live
      <3>2. Deref(x.a)' = Deref(x.a) /\ Deref(x.b)' = Deref(x.b)
        BY <3>1
      <3> QED BY <2>1, <3>2 DEF EvalAtom
    <2>2. CASE x.op = "MemIsNull"
      BY <2>2 DEF EvalAtom
    <2>3. x.op \in {"MemIsNull", "ValueEq"}
      <3>1. Rules[r].guard \in Formula
        BY RuleGuard
      <3>2. x \in Atom
        BY <3>1 DEF Formula
      <3> QED BY <3>2 DEF Atom
    <2> QED BY <2>1, <2>2, <2>3
  <1>3. eval_formula(Rules[r].guard)' = eval_formula(Rules[r].guard)
    BY <1>2 DEF eval_formula
  <1> QED BY <1>1, <1>3 DEF CanFire

(***************************************************************************)
(* Whenever the lock is free the coordinator has nothing left to do, also  *)
(* for rules whose guards read values: no call, timeout or finalization    *)
(* makes a rule firable without somebody who holds the lock noticing       *)
(* (exhaust_rules and its callers).  A rule without actions could always   *)
(* fire.                                                                   *)
(***************************************************************************)
THEOREM NoFiringIsMissed ==
    ASSUME Served, \A r \in RuleId : Rules[r].actions # <<>>
    PROVE  Spec => []NoMissedFiring
  <1>1. Init => NoMissedFiring
    BY NothingToFireAtFirst DEF Init, NoMissedFiring, AllTold
  <1>2. TypeOK /\ SafetyInv /\ SafetyInv' /\ NoMissedFiring /\ [Next]_vars => NoMissedFiring'
    <2> SUFFICES ASSUME TypeOK, SafetyInv, SafetyInv', NoMissedFiring, [Next]_vars, lock' = None
                 PROVE  todo' = <<>> /\ AllTold' /\ \A r \in RuleId : ~CanFire(r)'
      BY DEF NoMissedFiring
    <2>1. CASE lock = None
      <3>1. todo = <<>> /\ AllTold /\ \A r \in RuleId : ~CanFire(r)
        BY <2>1 DEF NoMissedFiring
      <3>2. ready' \subseteq ready /\ full' = full /\ todo' = todo /\ AllTold'
        BY <2>1, <3>1, FreeLockSteps DEF vars, protoVars, AllTold
      <3>3. ValuesKept
        BY <3>1, ThreadsKeepValues DEF PerformAction
      <3> QED BY <3>1, <3>2, <3>3, CanFireKept
    <2>2. CASE lock # None
      <3>1. Unlock
        BY <2>2 DEF Next, vars, handoffVars, protoVars, PutBegin, PutterStep, GetBegin,
                    GetterStep, FinalizeCell, Enter, TimeOut, Revoke, Coordinate,
                    SelectRule, PerformAction, Arm, Tell
      <3>2. todo' = <<>> /\ AllTold' /\ ready' = ready /\ full' = full /\ \A r \in RuleId : ~CanFire(r)
        BY <3>1 DEF Unlock, Exhausted, AllTold
      <3>3. ValuesKept
        BY <3>1, ThreadsKeepValues DEF Unlock, PerformAction
      <3> QED BY <3>2, <3>3, CanFireKept
    <2> QED BY <2>1, <2>2
  <1> QED BY <1>1, <1>2, HandoffIsSafe, TypeCorrect, PTL DEF Spec

-----------------------------------------------------------------------------
(* The atomic connector *)

\* A get() that has yet to be handed something has written nothing.
Unwritten == \A g \in PoGe : at[g] = "enter" \/ InCall(g) => out[g] = None

LEMMA NothingWritten == Spec => []Unwritten
  <1>1. Init => Unwritten
    BY DEF Init, Unwritten
  <1>2. TypeOK /\ Unwritten /\ [Next]_vars => Unwritten'
    <2> SUFFICES ASSUME TypeOK, Unwritten, [Next]_vars, NEW g \in PoGe
                 PROVE  (at[g] = "enter" \/ InCall(g) => out[g] = None)'
      BY DEF Unwritten
    <2> USE Kinds DEF Unwritten, InCall, Waiting, TypeOK, Goto
    <2>1. ASSUME NEW p \in PoPu, PutBegin(p) \/ PutterStep(p)
          PROVE  (at[g] = "enter" \/ InCall(g) => out[g] = None)'
      BY <2>1 DEF PutBegin, PutterStep, RecvPut
    <2>2. ASSUME NEW h \in PoGe, GetBegin(h) \/ FinalizeCell(h)
          PROVE  (at[g] = "enter" \/ InCall(g) => out[g] = None)'
      <3>1. CASE GetBegin(h)
        BY <3>1 DEF GetBegin
      <3>2. CASE FinalizeCell(h)
        BY <3>2 DEF FinalizeCell
      <3> QED BY <2>2, <3>1, <3>2
    <2>3. ASSUME NEW h \in PoGe, GetterStep(h)
          PROVE  (at[g] = "enter" \/ InCall(g) => out[g] = None)'
      <3>1. at'[h] \notin {"enter", "recv", "revoke", "recv2", "coord"}
            /\ (\A k \in PoGe : k # h => at'[k] = at[k] /\ out'[k] = out[k])
        BY <2>3 DEF GetterStep, RecvGet, FirstStep, AcquireData, Stamp, ExecuteCopy, Count, CheckMoved,
                    Ask, WonCount, Await, ExecuteClone, LoseCount, Release, SignalAsk, FinalizePort
      <3> QED BY <3>1
    <2>4. ASSUME NEW t \in Port, Enter(t) \/ TimeOut(t) \/ Revoke(t)
          PROVE  (at[g] = "enter" \/ InCall(g) => out[g] = None)'
      BY <2>4 DEF Enter, TimeOut, Revoke, StillReady
    <2>5. ASSUME Coordinate
          PROVE  (at[g] = "enter" \/ InCall(g) => out[g] = None)'
      <3>1. Unlock \/ UNCHANGED <<at, out>>
        BY <2>5 DEF Coordinate, SelectRule, PerformAction, Arm, Tell
      <3>2. CASE Unlock
        BY <3>2 DEF Unlock
      <3> QED BY <3>1, <3>2
    <2>6. CASE UNCHANGED vars
      BY <2>6 DEF vars, handoffVars
    <2> QED BY <2>1, <2>2, <2>3, <2>4, <2>5, <2>6 DEF Next
  <1> QED BY <1>1, <1>2, TypeCorrect, PTL DEF Spec

\* Whoever is still to be supplied is supplied by one putter.
LEMMA OneGiver ==
    ASSUME TodoInv, NEW x, NEW i \in DOMAIN todo, x \in todo[i].getters
    PROVE  Supplier(x) # {} /\ Giver(x) = todo[i].putter
  <1>1. \A j \in DOMAIN todo : x \in todo[j].getters => j = i
    BY DEF TodoInv, Part
  <1>2. Supplier(x) = {todo[i].putter}
    BY <1>1 DEF Supplier
  <1> QED BY <1>2 DEF Giver

LEMMA Supplied ==
    ASSUME todo \in Seq(ActionDef), NEW x, Supplier(x) # {}
    PROVE  /\ Giver(x) \in Space
           /\ \E i \in DOMAIN todo : x \in todo[i].getters /\ Giver(x) = todo[i].putter
  <1>1. \E i \in DOMAIN todo : x \in todo[i].getters /\ Giver(x) = todo[i].putter
    BY DEF Supplier, Giver
  <1>2. \A i \in DOMAIN todo : todo[i].putter \in Space
    <2>1. \A i \in DOMAIN todo : todo[i] \in ActionDef
      OBVIOUS
    <2> QED BY <2>1 DEF ActionDef
  <1> QED BY <1>1, <1>2

\* The values of cells and of deliveries under the mapping, while nobody
\* changes hands.
LEMMA MemKept ==
    ASSUME SafetyInv', ValuesKept, full' = full, todo' = todo,
           todo \in Seq(ActionDef)
    PROVE  absMem' = absMem
  <1> USE Kinds
  <1>1. \A x : Supplier(x)' = Supplier(x) /\ Giver(x)' = Giver(x)
    BY DEF Supplier, Giver
  <1>2. ASSUME NEW m \in Memo PROVE absMem'[m] = absMem[m]
    <2>1. CASE m \in full /\ Supplier(m) # {}
      <3>1. PICK s \in Space : s = Giver(m) /\ \E i \in DOMAIN todo : s = todo[i].putter
        BY <2>1, Supplied
      <3>2. Deref(s)' = Deref(s)
        BY <3>1 DEF ValuesKept, Live
      <3>3. Deref(Giver(m))' = Deref(Giver(m))
        BY <1>1, <3>1, <3>2 DEF Deref
      <3> QED BY <1>1, <2>1, <3>3 DEF absMem
    <2>2. CASE m \in full /\ Supplier(m) = {}
      <3>1. /\ ~Held(m)'
            /\ \A i \in DOMAIN todo : m # todo[i].putter
        BY <2>2 DEF SafetyInv, ContentInv
      <3>2. \A i \in DOMAIN todo : m \notin todo[i].getters
        BY <2>2 DEF Supplier
      <3>3. ~InTodo(m)'
        BY <3>1, <3>2 DEF InTodo
      <3>4. m \in ready'
        BY <3>1, <3>3 DEF SafetyInv, CellInv
      <3>5. Deref(m)' = Deref(m)
        BY <2>2, <3>4 DEF ValuesKept, Live
      <3> QED BY <1>1, <2>2, <3>5 DEF absMem
    <2>3. CASE m \notin full
      BY <2>3 DEF absMem
    <2> QED BY <2>1, <2>2, <2>3
  <1> QED BY <1>2 DEF absMem

LEMMA GivenKept ==
    ASSUME TypeOK, ValuesKept, todo' = todo, todo \in Seq(ActionDef), NEW g \in PoGe,
           tell'[g] = tell[g], box'[g] = box[g], at'[g] = at[g], src'[g] = src[g], mode'[g] = mode[g], out'[g] = out[g]
    PROVE  absGiven'[g] = absGiven[g]
  <1> USE Kinds
  <1>1. Supplier(g)' = Supplier(g) /\ Giver(g)' = Giver(g)
    BY DEF Supplier, Giver
  <1>2. CASE Supplier(g) # {}
    <2>1. PICK s \in Space : s = Giver(g) /\ \E i \in DOMAIN todo : s = todo[i].putter
      BY <1>2, Supplied
    <2>2. Deref(s)' = Deref(s)
      BY <2>1 DEF ValuesKept, Live
    <2>3. Deref(Giver(g))' = Deref(Giver(g))
      BY <1>1, <2>1, <2>2 DEF Deref
    <2> QED BY <1>1, <1>2, <2>3 DEF absGiven
  <1>3. CASE Supplier(g) = {} /\ tell[g] # None
    <2>1. tell[g] \in Space
      BY <1>3 DEF TypeOK
    <2>2. Deref(tell[g])' = Deref(tell[g])
      BY <2>1 DEF ValuesKept, Live, Reads, SentTo, Deref
    <2> QED BY <1>1, <1>3, <2>2 DEF absGiven
  <1>4. CASE Supplier(g) = {} /\ tell[g] = None /\ box[g] # None
    <2>1. box[g] \in Space
      BY <1>4 DEF TypeOK
    <2>2. Deref(box[g])' = Deref(box[g])
      BY <2>1 DEF ValuesKept, Live, Reads, SentTo, Deref
    <2> QED BY <1>1, <1>4, <2>2 DEF absGiven
  <1> DEFINE Untold == Supplier(g) = {} /\ tell[g] = None /\ box[g] = None
  <1>5. CASE Untold /\ at[g] \in Reading
    <2>1. src[g] \in Space
      BY <1>5 DEF TypeOK, InHandoff, Reading
    <2>2. Deref(src[g])' = Deref(src[g])
      BY <1>5, <2>1 DEF ValuesKept, Live, Reads, Deref
    <2> QED BY <1>1, <1>5, <2>2 DEF absGiven, Reading
  <1>6. CASE Untold /\ at[g] \notin Reading
    BY <1>1, <1>6 DEF absGiven, Reading
  <1> QED BY <1>2, <1>3, <1>4, <1>5, <1>6

LEMMA OfferKept ==
    ASSUME ValuesKept, NEW p \in PoPu, p \in ready' <=> p \in ready
    PROVE  absOffer'[p] = absOffer[p]
  <1> USE Kinds
  <1>1. p \in ready => Deref(p)' = Deref(p)
    BY DEF ValuesKept, Live
  <1> QED BY <1>1 DEF absOffer

\* A step that gives nobody anything and changes nobody's readiness.
LEMMA Stutters ==
    ASSUME TypeOK, SafetyInv', ValuesKept, UNCHANGED <<full, todo>>,
           \A g \in PoGe : mode'[g] = mode[g] \/ g \notin ready,
           \A t \in Port : t \in ready' <=> t \in ready,
           \A g \in PoGe : absGiven'[g] = absGiven[g]
    PROVE  UNCHANGED Abstract!vars
  <1> USE Kinds
  <1>1. absMem' = absMem
    BY MemKept DEF TypeOK
  <1>2. absOffer' = absOffer
    <2>1. \A p \in PoPu : absOffer'[p] = absOffer[p]
      BY OfferKept
    <2> QED BY <2>1 DEF absOffer
  <1>3. absWant' = absWant
    BY DEF absWant
  <1>4. absGiven' = absGiven
    BY DEF absGiven
  <1> QED BY <1>1, <1>2, <1>3, <1>4 DEF Abstract!vars

\* What a getter is given does not depend on how far it has got.
LEMMA GetterGiven ==
    ASSUME TypeOK, SafetyInv, NEW g \in PoGe, GetterStep(g)
    PROVE  absGiven'[g] = absGiven[g]
  <1> USE Kinds
  <1>1. /\ Supplier(g) = {} /\ Supplier(g)' = {} /\ tell[g] = None /\ tell' = tell
        /\ at[g] \in InHandoff => box[g] = None /\ src[g] \in Space
        /\ at[g] = "recv" \/ at[g] = "recv2" \/ at[g] \in Before \cup After
    <2>1. /\ \/ at[g] \in {"recv", "recv2"} /\ box[g] # None
             \/ at[g] \in InHandoff
          /\ todo' = todo /\ tell' = tell
      BY DEF GetterStep, RecvGet, AcquireData, Goto, InHandoff, protoVars, Stamp, ExecuteCopy, Count,
             CheckMoved, Ask, WonCount, Await, ExecuteClone, LoseCount, Release, SignalAsk,
             FinalizePort
    <2>2. at[g] \in InHandoff => box[g] = None /\ src[g] \in Space /\ ~InTodo(g)
      BY DEF SafetyInv, PortInv, InCall, Waiting, InHandoff, TypeOK
    <2>3. ~InTodo(g) /\ tell[g] = None
      BY <2>1, <2>2 DEF SafetyInv, PortInv, InCall, Waiting, InHandoff
    <2>4. Supplier(g) = {} /\ Supplier(g)' = {}
      BY <2>1, <2>3 DEF InTodo, Supplier
    <2> QED BY <2>1, <2>2, <2>3, <2>4 DEF SafetyInv, StageInv
  <1>2. /\ mode' = mode /\ mode[g] \in {"data", "signal"}
        /\ absGiven[g] = IF mode[g] = "signal" THEN None
                         ELSE IF box[g] # None THEN Deref(box[g])
                         ELSE IF at[g] \in Reading THEN Deref(src[g]) ELSE out[g]
        /\ absGiven'[g] = IF mode[g] = "signal" THEN None
                          ELSE IF box'[g] # None THEN Deref(box[g])'
                          ELSE IF at'[g] \in Reading THEN Deref(src[g])' ELSE out'[g]
    <2>1. mode' = mode /\ mode[g] \in {"data", "signal"}
      BY DEF GetterStep, RecvGet, AcquireData, Stamp, ExecuteCopy, Count, CheckMoved, Ask, WonCount,
             Await, ExecuteClone, LoseCount, Release, SignalAsk, FinalizePort, TypeOK
    <2> QED BY <1>1, <2>1 DEF absGiven, Reading
  <1> USE DEF Goto, TypeOK, Reading, Deref
  <1>3. CASE RecvGet(g)
    BY <1>2, <1>3 DEF RecvGet, FirstStep
  <1>4. CASE Stamp(g)
    BY <1>1, <1>2, <1>4 DEF Stamp, InHandoff
  <1>5. CASE ExecuteCopy(g)
    BY <1>1, <1>2, <1>5 DEF ExecuteCopy, InHandoff
  <1>6. CASE Count(g)
    BY <1>1, <1>2, <1>6 DEF Count, InHandoff
  <1>7. CASE CheckMoved(g)
    BY <1>1, <1>2, <1>7 DEF CheckMoved, InHandoff
  <1>8. CASE Ask(g)
    BY <1>1, <1>2, <1>8 DEF Ask, InHandoff
  <1>9. CASE WonCount(g)
    BY <1>1, <1>2, <1>9 DEF WonCount, InHandoff
  <1>10. CASE SignalAsk(g)
    BY <1>1, <1>2, <1>10 DEF SignalAsk, InHandoff
  <1>11. CASE FinalizePort(g)
    BY <1>1, <1>2, <1>11 DEF FinalizePort, InHandoff
  <1> QED BY <1>3, <1>4, <1>5, <1>6, <1>7, <1>8, <1>9, <1>10, <1>11, StepsNotTaken
          DEF GetterStep, AcquireData

LEMMA GetterStutters ==
    ASSUME TypeOK, SafetyInv, SafetyInv', NEW g \in PoGe, GetterStep(g), ValuesKept
    PROVE  UNCHANGED Abstract!vars
  <1> USE Kinds
  <1>1. UNCHANGED <<full, todo, ready, mode, tell>>
    BY DEF GetterStep, RecvGet, AcquireData, Stamp, ExecuteCopy, Count, CheckMoved, Ask, WonCount,
           Await, ExecuteClone, LoseCount, Release, SignalAsk, FinalizePort, protoVars
  <1>2. ASSUME NEW h \in PoGe, h # g PROVE absGiven'[h] = absGiven[h]
    <2>1. at'[h] = at[h] /\ src'[h] = src[h] /\ out'[h] = out[h]
      BY <1>2 DEF GetterStep, RecvGet, AcquireData, Stamp, ExecuteCopy, Count, CheckMoved, Ask, WonCount,
                  Await, ExecuteClone, LoseCount, Release, SignalAsk, FinalizePort, Goto, TypeOK
    <2>2. box'[h] = box[h]
      BY <1>2 DEF GetterStep, RecvGet, AcquireData, Stamp, ExecuteCopy, Count, CheckMoved, Ask, WonCount,
                  Await, ExecuteClone, LoseCount, Release, SignalAsk, FinalizePort, TypeOK
    <2> QED BY <1>1, <2>1, <2>2, GivenKept DEF TypeOK
  <1> QED BY <1>1, <1>2, GetterGiven, Stutters

\* A getter that empties a cell has been given what it was to be given.
LEMMA FinalizeStutters ==
    ASSUME TypeOK, SafetyInv, SafetyInv', NEW g \in PoGe, FinalizeCell(g)
    PROVE  UNCHANGED Abstract!vars
  <1> USE Kinds
  <1>1. /\ ValuesKept /\ ready' = ready \cup {src[g]} /\ src[g] \in Memo
        /\ UNCHANGED <<full, todo, mode, src, box, out, tell>>
        /\ at[g] = "final" /\ at' = [at EXCEPT ![g] = "sweep"]
    BY FinalizeValues DEF FinalizeCell, Goto
  <1>2. ASSUME NEW h \in PoGe, h # g PROVE absGiven'[h] = absGiven[h]
    BY <1>1, <1>2, GivenKept DEF TypeOK
  <1>3. absGiven'[g] = absGiven[g]
    <2>1. ~InTodo(g) /\ box[g] = None /\ tell[g] = None
      BY <1>1 DEF SafetyInv, PortInv, InCall, Waiting
    <2>2. Supplier(g) = {} /\ Supplier(g)' = {}
      BY <1>1, <2>1 DEF InTodo, Supplier
    <2> QED BY <1>1, <2>1, <2>2 DEF absGiven, TypeOK
  <1>4. \A h \in PoGe : absGiven'[h] = absGiven[h]
    BY <1>2, <1>3
  <1>5. \A t \in Port : t \in ready' <=> t \in ready
    BY <1>1
  <1> QED BY <1>1, <1>4, <1>5, Stutters

\* Nobody is told or given anything, and no getter reads a value or stops to.
NothingHandedOver ==
    /\ UNCHANGED <<full, todo, tell, mode, src, out, ready>>
    /\ \A h \in PoGe : /\ box'[h] = box[h]
                       /\ at'[h] = at[h] \/ {at[h], at'[h]} \cap Reading = {}

\* Putters on their way in and out, time-outs and the lock.
LEMMA OthersStutter ==
    ASSUME TypeOK, SafetyInv, SafetyInv', ValuesKept,
           \/ \E p \in PoPu : PutBegin(p) \/ PutterStep(p)
           \/ \E t \in Port : TimeOut(t) \/ (Revoke(t) /\ t \notin ready)
           \/ Arm \/ Unlock
    PROVE  UNCHANGED Abstract!vars
  <1> USE Kinds
  <1>1. NothingHandedOver
    <2>1. ASSUME NEW q \in PoPu, PutBegin(q) PROVE NothingHandedOver
      <3>1. UNCHANGED <<full, todo, tell, mode, src, out, ready, box>>
        BY <2>1 DEF PutBegin, protoVars
      <3>2. \A h \in PoGe : at'[h] = at[h]
        BY <2>1 DEF PutBegin, Goto, TypeOK
      <3> QED BY <3>1, <3>2 DEF NothingHandedOver
    <2>2. ASSUME NEW q \in PoPu, PutterStep(q) PROVE NothingHandedOver
      <3>1. UNCHANGED <<full, todo, tell, mode, src, out, ready>>
        BY <2>2 DEF PutterStep, RecvPut, protoVars
      <3>2. \A h \in PoGe : at'[h] = at[h] /\ box'[h] = box[h]
        BY <2>2 DEF PutterStep, RecvPut, TypeOK
      <3> QED BY <3>1, <3>2 DEF NothingHandedOver
    <2>3. ASSUME NEW q \in Port, TimeOut(q) PROVE NothingHandedOver
      <3>1. UNCHANGED <<full, todo, tell, mode, src, out, ready, box>>
        BY <2>3 DEF TimeOut, protoVars
      <3>2. at[q] \notin Reading /\ at' = [at EXCEPT ![q] = "revoke"]
        BY <2>3 DEF TimeOut, Goto, Reading
      <3> QED BY <3>1, <3>2 DEF NothingHandedOver, Reading, TypeOK
    <2>4. ASSUME NEW q \in Port, Revoke(q), q \notin ready PROVE NothingHandedOver
      <3>1. UNCHANGED <<full, todo, tell, mode, src, out, ready, box>>
        BY <2>4 DEF Revoke, StillReady
      <3>2. at[q] \notin Reading /\ at' = [at EXCEPT ![q] = "recv2"]
        BY <2>4 DEF Revoke, StillReady, Goto, Reading
      <3> QED BY <3>1, <3>2 DEF NothingHandedOver, Reading, TypeOK
    <2>5. ASSUME Unlock PROVE NothingHandedOver
      <3>1. UNCHANGED <<full, todo, tell, mode, src, out, ready, box>>
        BY <2>5 DEF Unlock
      <3>2. /\ lock \in Port /\ at[lock] \in {"coord", "sweep"}
            /\ at' = [at EXCEPT ![lock] = IF at[lock] = "coord" THEN "recv" ELSE "idle"]
        BY <2>5 DEF Unlock, SafetyInv, LockInv, TypeOK
      <3> QED BY <3>1, <3>2 DEF NothingHandedOver, Reading, TypeOK
    <2>6. ASSUME Arm PROVE NothingHandedOver
      BY <2>6 DEF Arm, NothingHandedOver
    <2> QED BY <2>1, <2>2, <2>3, <2>4, <2>5, <2>6
  <1> USE <1>1 DEF NothingHandedOver
  <1>2. ASSUME NEW h \in PoGe PROVE absGiven'[h] = absGiven[h]
    <2>1. CASE at'[h] = at[h]
      BY <1>1, <2>1, GivenKept DEF TypeOK
    <2>2. CASE at'[h] # at[h]
      <3>1. at[h] \notin Reading /\ at'[h] \notin Reading
        BY <1>1, <2>2
      <3>2. Supplier(h)' = Supplier(h) /\ Giver(h)' = Giver(h)
        BY <1>1 DEF Supplier, Giver
      <3>3. CASE Supplier(h) # {}
        <4>1. PICK s \in Space : s = Giver(h) /\ \E i \in DOMAIN todo : s = todo[i].putter
          BY <3>3, Supplied DEF TypeOK
        <4>2. Deref(s)' = Deref(s)
          BY <1>1, <4>1 DEF ValuesKept, Live
        <4>3. Deref(Giver(h))' = Deref(Giver(h))
          BY <3>2, <4>1, <4>2 DEF Deref
        <4> QED BY <1>1, <3>2, <3>3, <4>3 DEF absGiven
      <3>4. CASE Supplier(h) = {} /\ tell[h] # None
        <4>1. tell[h] \in Space
          BY <3>4 DEF TypeOK
        <4>2. Deref(tell[h])' = Deref(tell[h])
          BY <1>1, <4>1 DEF ValuesKept, Live, Reads, SentTo, Deref
        <4> QED BY <1>1, <3>2, <3>4, <4>2 DEF absGiven
      <3>5. CASE Supplier(h) = {} /\ tell[h] = None /\ box[h] # None
        <4>1. box[h] \in Space
          BY <3>5 DEF TypeOK
        <4>2. Deref(box[h])' = Deref(box[h])
          BY <1>1, <4>1 DEF ValuesKept, Live, Reads, SentTo, Deref
        <4> QED BY <1>1, <3>2, <3>5, <4>2 DEF absGiven
      <3>6. CASE Supplier(h) = {} /\ tell[h] = None /\ box[h] = None
        BY <1>1, <3>1, <3>2, <3>6 DEF absGiven, Reading
      <3> QED BY <3>3, <3>4, <3>5, <3>6
    <2> QED BY <2>1, <2>2
  <1> QED BY <1>1, <1>2, Stutters

\* A getter's message holds what it was about to be sent.
LEMMA TellStutters ==
    ASSUME TypeOK, SafetyInv, SafetyInv', ValuesKept, NEW g \in PoGe, Tell(g)
    PROVE  UNCHANGED Abstract!vars
  <1> USE Kinds
  <1>1. /\ UNCHANGED <<full, todo, mode, src, out, ready, at, ptr, heap>>
        /\ tell[g] # None /\ box' = [box EXCEPT ![g] = tell[g]]
        /\ tell' = [tell EXCEPT ![g] = None]
    BY DEF Tell, putter_id
  <1>2. ASSUME NEW h \in PoGe, h # g PROVE absGiven'[h] = absGiven[h]
    BY <1>1, <1>2, GivenKept DEF TypeOK
  <1>3. absGiven'[g] = absGiven[g]
    <2>1. ~InTodo(g)
      BY <1>1 DEF SafetyInv, PortInv
    <2>2. Supplier(g) = {} /\ Supplier(g)' = {}
      BY <1>1, <2>1 DEF InTodo, Supplier
    <2>3. tell'[g] = None /\ box'[g] = tell[g]
      BY <1>1 DEF TypeOK
    <2>4. Deref(box[g])' = Deref(tell[g])
      BY <1>1, <2>3 DEF Deref
    <2> QED BY <1>1, <2>2, <2>3, <2>4 DEF absGiven
  <1> QED BY <1>1, <1>2, <1>3, Stutters

\* set_ready of a putter makes its offer known.
LEMMA EnterOffers ==
    ASSUME TypeOK, SafetyInv, SafetyInv', ValuesKept, NEW t \in PoPu, Enter(t)
    PROVE  Abstract!Offer(t)
  <1> USE Kinds
  <1>1. /\ UNCHANGED <<full, todo, tell, mode, src, out, box, ptr, heap>>
        /\ ready' = ready \cup {t} /\ at[t] = "enter" /\ \A h \in PoGe : at'[h] = at[h]
    BY DEF Enter, Goto, TypeOK
  <1>2. t \notin ready /\ Deref(t) \in Data
    <2>1. t \notin ready
      BY <1>1 DEF SafetyInv, PortInv, InCall, Waiting
    <2>2. ptr[t] = t /\ heap[t] # None
      BY <1>1 DEF SafetyInv, DatumInv
    <2> QED BY <2>1, <2>2 DEF Deref, TypeOK
  <1>3. absMem' = absMem
    BY <1>1, MemKept DEF TypeOK
  <1>4. absWant' = absWant
    BY <1>1 DEF absWant
  <1>5. absGiven' = absGiven
    <2>1. \A g \in PoGe : absGiven'[g] = absGiven[g]
      BY <1>1, GivenKept DEF TypeOK
    <2> QED BY <2>1 DEF absGiven
  <1>6. absOffer[t] = None /\ absOffer' = [absOffer EXCEPT ![t] = Deref(t)]
    BY <1>1, <1>2 DEF absOffer, Deref
  <1> QED BY <1>2, <1>3, <1>4, <1>5, <1>6 DEF Abstract!Offer

LEMMA EnterWants ==
    ASSUME TypeOK, SafetyInv, SafetyInv', Unwritten, ValuesKept, NEW t \in PoGe, Enter(t)
    PROVE  Abstract!Want(t)
  <1> USE Kinds
  <1>1. /\ UNCHANGED <<full, todo, tell, mode, src, out, box, ptr, heap>>
        /\ ready' = ready \cup {t} /\ at[t] = "enter" /\ at'[t] = "coord"
        /\ \A h \in PoGe : h # t => at'[h] = at[h]
    BY DEF Enter, Goto, TypeOK
  <1>2. t \notin ready /\ ~InTodo(t) /\ box[t] = None /\ tell[t] = None /\ out[t] = None
    BY <1>1 DEF SafetyInv, PortInv, InCall, Waiting, Unwritten
  <1>3. absMem' = absMem
    BY <1>1, MemKept DEF TypeOK
  <1>4. absOffer' = absOffer
    BY <1>1 DEF absOffer, Deref
  <1>5. absWant[t] = "none" /\ absWant' = [absWant EXCEPT ![t] = mode[t]]
    BY <1>1, <1>2 DEF absWant
  <1>6. Supplier(t) = {} /\ Supplier(t)' = {}
    BY <1>1, <1>2 DEF InTodo, Supplier
  <1>7. absGiven[t] = None /\ absGiven'[t] = None
    BY <1>1, <1>2, <1>6 DEF absGiven
  <1>8. absGiven' = absGiven
    <2>1. ASSUME NEW g \in PoGe, g # t PROVE absGiven'[g] = absGiven[g]
      BY <1>1, <2>1, GivenKept DEF TypeOK
    <2> QED BY <1>7, <2>1 DEF absGiven
  <1>9. mode[t] \in {"data", "signal"}
    BY DEF TypeOK
  <1> QED BY <1>3, <1>4, <1>5, <1>7, <1>8, <1>9 DEF Abstract!Want

\* A putter that takes its readiness back withdraws its offer.
LEMMA RevokeWithdraws ==
    ASSUME TypeOK, SafetyInv, SafetyInv', ValuesKept, NEW t \in PoPu, Revoke(t), t \in ready
    PROVE  Abstract!Withdraw(t)
  <1> USE Kinds
  <1>1. /\ UNCHANGED <<full, todo, tell, mode, src, out, box>>
        /\ ready' = ready \ {t} /\ \A h \in PoGe : at'[h] = at[h]
    BY DEF Revoke, StillReady, Goto, TypeOK
  <1>2. Deref(t) # None
    BY ReadyValue
  <1>3. absMem' = absMem
    BY <1>1, MemKept DEF TypeOK
  <1>4. absWant' = absWant
    BY <1>1 DEF absWant
  <1>5. absGiven' = absGiven
    <2>1. \A g \in PoGe : absGiven'[g] = absGiven[g]
      BY <1>1, GivenKept DEF TypeOK
    <2> QED BY <2>1 DEF absGiven
  <1>6. absOffer[t] # None /\ absOffer' = [absOffer EXCEPT ![t] = None]
    <2>1. \A p \in PoPu : p # t => absOffer'[p] = absOffer[p]
      BY <1>1, OfferKept
    <2>2. absOffer'[t] = None /\ absOffer[t] # None
      BY <1>1, <1>2 DEF absOffer
    <2> QED BY <2>1, <2>2 DEF absOffer
  <1> QED BY <1>3, <1>4, <1>5, <1>6 DEF Abstract!Withdraw

\* A getter that takes its readiness back wants nothing more.
LEMMA RevokeUnwants ==
    ASSUME TypeOK, SafetyInv, SafetyInv', Unwritten, ValuesKept, NEW t \in PoGe, Revoke(t),
           t \in ready
    PROVE  Abstract!Unwant(t)
  <1> USE Kinds
  <1>1. /\ UNCHANGED <<full, todo, tell, src, out, box, ptr, heap>>
        /\ ready' = ready \ {t} /\ at[t] = "revoke" /\ at'[t] = "idle"
        /\ mode' = [mode EXCEPT ![t] = "signal"]
        /\ \A h \in PoGe : h # t => at'[h] = at[h]
    BY DEF Revoke, StillReady, Goto, TypeOK
  <1>2. ~InTodo(t) /\ box[t] = None /\ tell[t] = None /\ out[t] = None
    BY <1>1 DEF SafetyInv, PortInv, InCall, Waiting, Unwritten
  <1>3. absMem' = absMem
    BY <1>1, MemKept DEF TypeOK
  <1>4. absOffer' = absOffer
    BY <1>1 DEF absOffer, Deref
  <1>5. mode[t] \in {"data", "signal"}
    BY DEF TypeOK
  <1>6. absWant[t] # "none" /\ absWant' = [absWant EXCEPT ![t] = "none"]
    BY <1>1, <1>5 DEF absWant, TypeOK
  <1>7. absGiven[t] = None /\ absGiven'[t] = None
    <2>1. Supplier(t) = {}
      BY <1>2 DEF InTodo, Supplier
    <2> QED BY <1>1, <1>2, <2>1 DEF absGiven, TypeOK
  <1>8. absGiven' = absGiven
    <2>1. ASSUME NEW g \in PoGe, g # t PROVE absGiven'[g] = absGiven[g]
      BY <1>1, <2>1, GivenKept DEF TypeOK
    <2> QED BY <1>7, <2>1 DEF absGiven
  <1> QED BY <1>3, <1>4, <1>6, <1>8 DEF Abstract!Unwant

\* A get() that is entered has collected what the last one was given, if any.
LEMMA GetBeginCollects ==
    ASSUME TypeOK, SafetyInv, SafetyInv', ValuesKept, NEW t \in PoGe, GetBegin(t)
    PROVE  Abstract!Collect(t) \/ UNCHANGED Abstract!vars
  <1> USE Kinds
  <1>1. /\ UNCHANGED <<full, todo, tell, src, box, ptr, heap, ready>>
        /\ at[t] = "idle" /\ at'[t] = "enter" /\ out'[t] = None
        /\ \A h \in PoGe : h # t => at'[h] = at[h] /\ mode'[h] = mode[h] /\ out'[h] = out[h]
    <2>1. /\ UNCHANGED <<full, todo, tell, src, box, ptr, heap, ready>>
          /\ at[t] = "idle" /\ at' = [at EXCEPT ![t] = "enter"] /\ out' = [out EXCEPT ![t] = None]
          /\ \E m \in {"data", "signal"} : mode' = [mode EXCEPT ![t] = m]
      BY DEF GetBegin, Goto, protoVars
    <2> QED BY <2>1 DEF TypeOK
  <1>2. t \notin ready /\ ~InTodo(t) /\ box[t] = None /\ tell[t] = None
    BY <1>1 DEF SafetyInv, PortInv, InCall, Waiting
  <1>3. absMem' = absMem
    BY <1>1, MemKept DEF TypeOK
  <1>4. absOffer' = absOffer
    BY <1>1 DEF absOffer, Deref
  <1>5. absWant' = absWant
    <2>1. \A g \in PoGe : absWant'[g] = absWant[g]
      BY <1>1, <1>2 DEF absWant
    <2> QED BY <2>1 DEF absWant
  <1>6. Supplier(t) = {} /\ Supplier(t)' = {}
    BY <1>1, <1>2 DEF InTodo, Supplier
  <1>7. absGiven'[t] = None
    BY <1>1, <1>2, <1>6 DEF absGiven
  <1>8. \A g \in PoGe : g # t => absGiven'[g] = absGiven[g]
    BY <1>1, GivenKept DEF TypeOK
  <1>9. absGiven' = [absGiven EXCEPT ![t] = None]
    BY <1>7, <1>8 DEF absGiven
  <1>10. ASSUME absGiven[t] = None PROVE absGiven' = absGiven
    <2>1. \A g \in PoGe : absGiven'[g] = absGiven[g]
      BY <1>7, <1>8, <1>10
    <2> QED BY <2>1 DEF absGiven
  <1> QED BY <1>3, <1>4, <1>5, <1>9, <1>10 DEF Abstract!Collect, Abstract!vars

\* The abstract connector has the same rules.
LEMMA SameRules ==
    ASSUME NEW r \in RuleId
    PROVE  /\ Abstract!Actions(r) = Actions(r) /\ Abstract!guard_ready(r) = guard_ready(r)
           /\ Abstract!assign_vals(r) = assign_vals(r) /\ Abstract!assign_mask(r) = assign_mask(r)
           /\ \A a : Abstract!pg(a) = pg(a) /\ Abstract!mg(a) = mg(a)
  BY DEF Abstract!Actions, Actions, Abstract!guard_ready, guard_ready, Abstract!assign_vals,
         assign_vals, Abstract!assign_mask, assign_mask, Abstract!pg, pg, Abstract!mg, mg,
         Abstract!SelfPut, SelfPut

\* The values of a rule that is ready, as the connector sees them.
LEMMA RuleValues ==
    ASSUME TypeOK, SafetyInv, todo = <<>>, NEW r \in RuleId, is_ready(r), NEW a \in Actions(r)
    PROVE  /\ a.putter \in Space /\ Deref(a.putter) \in Data
           /\ Abstract!Value(a.putter) = Deref(a.putter)
  <1> USE Kinds
  <1>1. /\ a.putter \in Space /\ a.putter \in ready
        /\ a.putter \in Memo => a.putter \in full
    BY RuleFacts DEF is_ready, guard_ready, guard_full, ActionDef
  <1>2. Deref(a.putter) \in Data
    BY <1>1, ReadyValue
  <1>3. \A x : Supplier(x) = {}
    BY DEF Supplier
  <1>4. PICK s \in Space : s = a.putter
    BY <1>1
  <1>5. Abstract!Value(s) = Deref(s)
    BY <1>1, <1>3, <1>4 DEF Abstract!Value, absOffer, absMem
  <1> QED BY <1>2, <1>4, <1>5

\* Guards say the same of both.
LEMMA SameGuards ==
    ASSUME TypeOK, SafetyInv, Served, todo = <<>>, NEW r \in RuleId, is_ready(r)
    PROVE  Abstract!Passes(Rules[r].guard) <=> eval_formula(Rules[r].guard)
  <1> USE Kinds
  <1>1. Rules[r].guard \in Formula
    BY RuleGuard
  <1>2. ASSUME NEW x \in Rules[r].guard.atoms PROVE Abstract!Holds(x) <=> EvalAtom(x)
    <2>1. x \in Atom
      BY <1>1 DEF Formula
    <2>2. CASE x.op = "ValueEq"
      <3>1. {x.a, x.b} \subseteq {a.putter : a \in Actions(r)}
        BY <2>2 DEF Served
      <3>2. \A s \in {x.a, x.b} : Abstract!Value(s) = Deref(s)
        BY <3>1, RuleValues
      <3>3. Abstract!Value(x.a) = Deref(x.a) /\ Abstract!Value(x.b) = Deref(x.b)
        BY <3>2
      <3> QED BY <2>2, <3>3 DEF Abstract!Holds, EvalAtom
    <2>3. CASE x.op = "MemIsNull"
      <3>1. PICK m \in Memo : m = x.loc
        BY <2>1, <2>3 DEF Atom
      <3>2. ASSUME m \in full PROVE absMem[m] # None
        <4>1. ~Held(m) /\ ~InTodo(m) /\ Supplier(m) = {}
          BY <3>2 DEF SafetyInv, ContentInv, InTodo, Supplier
        <4>2. m \in ready
          BY <4>1 DEF SafetyInv, CellInv
        <4>3. Deref(m) # None
          BY <3>2, <4>2, ReadyValue
        <4> QED BY <3>2, <4>1, <4>3 DEF absMem
      <3>3. m \notin full => absMem[m] = None
        BY DEF absMem
      <3> QED BY <2>3, <3>1, <3>2, <3>3 DEF Abstract!Holds, EvalAtom
    <2> QED BY <2>1, <2>2, <2>3 DEF Atom
  <1>3. Rules[r].guard.op \in {"True", "And", "Or", "None"}
    BY <1>1 DEF Formula
  <1> QED BY <1>2, <1>3 DEF Abstract!Passes, eval_formula

\* Selecting a rule is firing it: what its actions will do is decided.
LEMMA SelectFires ==
    ASSUME TypeOK, SafetyInv, Served, NEW r \in RuleId, SelectRule(r)
    PROVE  Abstract!Fire(r)
  <1> USE Kinds
  <1>1. PICK acts : acts = Rules[r].actions
    OBVIOUS
  <1>2. /\ todo = <<>> /\ is_ready(r) /\ eval_formula(Rules[r].guard)
        /\ ready' = ready \ guard_ready(r) /\ full' = assign_memory_bits(r) /\ todo' = acts
        /\ UNCHANGED <<ptr, heap, mode, src, out, box, at, tell>>
    BY <1>1 DEF SelectRule, CanFire, subtract_readiness
  <1>3. /\ \A x : x \in guard_ready(r) <=> \E i \in DOMAIN acts : x \in Part(acts[i])
        /\ \A i \in DOMAIN acts : ServedAction(acts[i]) /\ acts[i] \in ActionDef
        /\ \A i, j \in DOMAIN acts : i # j => Part(acts[i]) \cap Part(acts[j]) = {}
        /\ \A m \in Memo : \A i \in DOMAIN acts :
              /\ m \in acts[i].getters => m \notin full /\ m \in full'
              /\ m = acts[i].putter => m \in full /\ m \notin full'
        /\ \A m \in Memo : m \notin guard_ready(r) => (m \in full' <=> m \in full)
    <2>1. full' = assign_memory_bits(r) /\ is_ready(r) /\ acts = Rules[r].actions
      BY <1>1, <1>2
    <2>2. /\ \A m \in Memo : \A i \in DOMAIN acts :
                /\ m \in acts[i].getters => m \notin full /\ m \in assign_memory_bits(r)
                /\ m = acts[i].putter => m \in full /\ m \notin assign_memory_bits(r)
          /\ \A m \in Memo : m \notin guard_ready(r) => (m \in assign_memory_bits(r) <=> m \in full)
      BY <2>1, RuleParts
    <2>3. /\ \A x : x \in guard_ready(r) <=> \E i \in DOMAIN acts : x \in Part(acts[i])
          /\ \A i \in DOMAIN acts : ServedAction(acts[i]) /\ acts[i] \in ActionDef
          /\ \A i, j \in DOMAIN acts : i # j => Part(acts[i]) \cap Part(acts[j]) = {}
      BY <2>1, RuleParts
    <2> QED BY <2>1, <2>2, <2>3
  <1>4. /\ Actions(r) = {acts[i] : i \in DOMAIN acts}
        /\ \A x : Supplier(x) = {}
        /\ guard_ready(r) \subseteq ready
    BY <1>1, <1>2 DEF Actions, Supplier, is_ready
  <1>5. \A s \in Space : Deref(s)' = Deref(s)
    BY <1>2 DEF Deref
  <1>6. \A i \in DOMAIN acts :
            /\ acts[i].putter \in Space /\ Deref(acts[i].putter) \in Data
            /\ Abstract!Value(acts[i].putter) = Deref(acts[i].putter)
    BY <1>2, <1>4, RuleValues
  <1>7. Abstract!Firable(r)
    <2>1. ASSUME NEW i \in DOMAIN acts
          PROVE  /\ Abstract!Value(acts[i].putter) # None
                 /\ \A g \in pg(acts[i]) : absWant[g] # "none"
                 /\ \A m \in mg(acts[i]) : absMem[m] = None
      <3>1. \A g \in pg(acts[i]) : g \in PoGe /\ g \in ready
        BY <1>3, <1>4 DEF pg, Part
      <3>2. \A m \in mg(acts[i]) : m \in Memo /\ m \notin full
        BY <1>3 DEF mg
      <3> QED BY <1>6, <3>1, <3>2 DEF absWant, absMem, TypeOK
    <2>2. Abstract!Passes(Rules[r].guard)
      BY <1>2, SameGuards
    <2> QED BY <1>4, <2>1, <2>2, SameRules DEF Abstract!Firable
  <1>8. ASSUME NEW i \in DOMAIN acts, NEW x \in acts[i].getters
        PROVE  /\ Abstract!Supply(r, x) = Deref(acts[i].putter)
               /\ Supplier(x)' # {} /\ Deref(Giver(x))' = Deref(acts[i].putter)
    <2>1. \A j \in DOMAIN acts : x \in acts[j].getters => j = i
      BY <1>3 DEF Part
    <2>2. (CHOOSE a \in Actions(r) : x \in a.getters) = acts[i]
      BY <1>4, <2>1
    <2>3. Abstract!Supply(r, x) = Deref(acts[i].putter)
      BY <1>6, <2>2, SameRules DEF Abstract!Supply
    <2>4. Supplier(x)' = {acts[i].putter}
      BY <1>2, <2>1 DEF Supplier
    <2>5. Giver(x)' = acts[i].putter
      BY <2>4 DEF Giver
    <2>6. Deref(Giver(x))' = Deref(acts[i].putter)
      BY <1>2, <2>5 DEF Deref
    <2> QED BY <2>3, <2>4, <2>6
  <1>9. \A x : x \notin guard_ready(r) => Supplier(x)' = {}
    BY <1>2, <1>3 DEF Supplier, Part
  <1>10. /\ \A m \in Memo : m \in assign_vals(r) <=> \E i \in DOMAIN acts : m \in acts[i].getters
         /\ \A m \in Memo : m \in assign_mask(r) <=> m \in guard_ready(r)
    <2>1. \A a \in Actions(r) : a.putter \notin a.getters
      BY <1>3, <1>4 DEF ServedAction, SelfPut
    <2>2. \A m \in Memo : m \in assign_vals(r) <=> \E i \in DOMAIN acts : m \in acts[i].getters
      BY <1>4, <2>1 DEF assign_vals, mg
    <2>3. \A m \in Memo : m \in assign_mask(r) <=>
              m \in assign_vals(r) \/ \E i \in DOMAIN acts : m = acts[i].putter
      BY <1>4, <2>1 DEF assign_mask, SelfPut
    <2> QED BY <1>3, <2>2, <2>3 DEF Part
  <1>11. absOffer' = [p \in PoPu |-> IF p \in guard_ready(r) THEN None ELSE absOffer[p]]
    <2>1. ASSUME NEW p \in PoPu
          PROVE  absOffer'[p] = IF p \in guard_ready(r) THEN None ELSE absOffer[p]
      BY <1>2, <1>5 DEF absOffer
    <2> QED BY <2>1 DEF absOffer
  <1>12. absWant' = [g \in PoGe |-> IF g \in guard_ready(r) THEN "none" ELSE absWant[g]]
    <2>1. ASSUME NEW g \in PoGe
          PROVE  absWant'[g] = IF g \in guard_ready(r) THEN "none" ELSE absWant[g]
      BY <1>2 DEF absWant
    <2> QED BY <2>1 DEF absWant
  <1>13. absMem' = [m \in Memo |-> IF m \in assign_vals(r) THEN Abstract!Supply(r, m)
                                   ELSE IF m \in assign_mask(r) THEN None ELSE absMem[m]]
    <2>1. ASSUME NEW m \in Memo
          PROVE  absMem'[m] = IF m \in assign_vals(r) THEN Abstract!Supply(r, m)
                              ELSE IF m \in assign_mask(r) THEN None ELSE absMem[m]
      <3>1. CASE m \in assign_vals(r)
        <4>1. PICK i \in DOMAIN acts : m \in acts[i].getters
          BY <1>10, <3>1
        <4> QED BY <1>3, <1>8, <3>1, <4>1 DEF absMem
      <3>2. CASE m \notin assign_vals(r) /\ m \in assign_mask(r)
        <4>1. PICK i \in DOMAIN acts : m \in Part(acts[i])
          BY <1>3, <1>10, <3>2
        <4>2. m = acts[i].putter
          BY <1>10, <3>2, <4>1 DEF Part
        <4> QED BY <1>3, <3>2, <4>2 DEF absMem
      <3>3. CASE m \notin assign_vals(r) /\ m \notin assign_mask(r)
        <4>1. m \in full' <=> m \in full
          BY <1>3, <1>10, <3>3
        <4>2. Supplier(m)' = {} /\ Supplier(m) = {} /\ Deref(m)' = Deref(m)
          BY <1>4, <1>5, <1>9, <1>10, <3>3
        <4> QED BY <3>3, <4>1, <4>2 DEF absMem
      <3> QED BY <3>1, <3>2, <3>3
    <2> QED BY <2>1 DEF absMem
  <1>14. absGiven' = [g \in PoGe |-> IF g \in guard_ready(r) /\ absWant[g] = "data"
                                     THEN Abstract!Supply(r, g) ELSE absGiven[g]]
    <2>1. ASSUME NEW g \in PoGe
          PROVE  absGiven'[g] = IF g \in guard_ready(r) /\ absWant[g] = "data"
                                THEN Abstract!Supply(r, g) ELSE absGiven[g]
      <3>1. CASE g \in guard_ready(r)
        <4>1. PICK i \in DOMAIN acts : g \in acts[i].getters
          <5>1. PICK i \in DOMAIN acts : g \in Part(acts[i])
            BY <1>3, <3>1
          <5>2. g # acts[i].putter
            BY <1>6
          <5> QED BY <5>1, <5>2 DEF Part
        <4>2. absWant[g] = mode[g] /\ mode[g] \in {"data", "signal"} /\ mode'[g] = mode[g]
          BY <1>2, <1>4, <3>1 DEF absWant, TypeOK
        <4> QED BY <1>8, <3>1, <4>1, <4>2 DEF absGiven
      <3>2. CASE g \notin guard_ready(r)
        <4>1. Supplier(g)' = {} /\ Supplier(g) = {}
          BY <1>4, <1>9, <3>2
        <4>2. /\ Deref(tell[g])' = Deref(tell[g]) /\ Deref(box[g])' = Deref(box[g])
              /\ Deref(src[g])' = Deref(src[g])
          BY <1>2 DEF Deref
        <4> QED BY <1>2, <3>2, <4>1, <4>2 DEF absGiven
      <3> QED BY <3>1, <3>2
    <2> QED BY <2>1 DEF absGiven
  <1> QED BY <1>7, <1>11, <1>12, <1>13, <1>14, SameRules DEF Abstract!Fire

\* The next action's getters wait for its putter; the others as before.
LEMMA NextGiver ==
    ASSUME TypeOK, SafetyInv, todo # <<>>, todo' = Tail(todo), NEW a, a = Head(todo)
    PROVE  /\ \A x : x \in a.getters => /\ Supplier(x) # {} /\ Giver(x) = a.putter
                                        /\ Supplier(x)' = {}
           /\ \A x : x \notin a.getters => Supplier(x)' = Supplier(x) /\ Giver(x)' = Giver(x)
           /\ \A x : x \notin a.getters /\ Supplier(x) # {} =>
                 Giver(x) \in Space /\ Giver(x) \notin Part(a)
  <1>1. /\ todo \in Seq(ActionDef) /\ a = todo[1] /\ 1 \in DOMAIN todo
        /\ \A i \in DOMAIN todo' : i + 1 \in DOMAIN todo /\ i + 1 # 1 /\ todo'[i] = todo[i + 1]
        /\ \A i \in DOMAIN todo : i # 1 => i - 1 \in DOMAIN todo' /\ todo[i] = todo'[i - 1]
    BY DEF TypeOK
  <1>2. \A i \in DOMAIN todo : i # 1 => Part(todo[i]) \cap Part(a) = {}
    BY <1>1 DEF SafetyInv, TodoInv
  <1>3. ASSUME NEW x, x \in a.getters
        PROVE  Supplier(x) # {} /\ Giver(x) = a.putter /\ Supplier(x)' = {}
    <2>1. Supplier(x) # {} /\ Giver(x) = a.putter
      BY <1>1, <1>3, OneGiver DEF SafetyInv
    <2>2. \A i \in DOMAIN todo' : x \notin todo'[i].getters
      BY <1>1, <1>2, <1>3 DEF Part
    <2> QED BY <2>1, <2>2 DEF Supplier
  <1>4. ASSUME NEW x, x \notin a.getters
        PROVE  Supplier(x)' = Supplier(x) /\ Giver(x)' = Giver(x)
    <2>1. ASSUME NEW i \in DOMAIN todo, x \in todo[i].getters PROVE todo[i].putter \in Supplier(x)'
      <3>1. i # 1
        BY <1>1, <1>4, <2>1
      <3>2. i - 1 \in DOMAIN todo' /\ todo[i] = todo'[i - 1]
        BY <1>1, <3>1
      <3> QED BY <2>1, <3>2 DEF Supplier
    <2>2. ASSUME NEW i \in DOMAIN todo', x \in todo'[i].getters PROVE todo'[i].putter \in Supplier(x)
      <3>1. i + 1 \in DOMAIN todo /\ todo'[i] = todo[i + 1]
        BY <1>1
      <3> QED BY <2>2, <3>1 DEF Supplier
    <2>3. Supplier(x)' = Supplier(x)
      <3>1. \A s : s \in Supplier(x) => s \in Supplier(x)'
        BY <2>1 DEF Supplier
      <3>2. \A s : s \in Supplier(x)' => s \in Supplier(x)
        BY <2>2 DEF Supplier
      <3> QED BY <3>1, <3>2
    <2> QED BY <2>3 DEF Giver
  <1>5. ASSUME NEW x, x \notin a.getters, Supplier(x) # {}
        PROVE  Giver(x) \in Space /\ Giver(x) \notin Part(a)
    <2>1. PICK i \in DOMAIN todo : x \in todo[i].getters /\ Giver(x) = todo[i].putter
      BY <1>1, <1>5, Supplied
    <2>2. Giver(x) \in Part(todo[i]) /\ i # 1
      BY <1>1, <1>5, <2>1 DEF Part
    <2> QED BY <1>1, <1>2, <1>5, <2>2, Supplied
  <1> QED BY <1>3, <1>4, <1>5

\* What performing an action does to values: its cells take that of the putter,
\* and the putter keeps it for the getters at ports.
MovesOn(a) ==
    /\ \A s \in Space : s \notin mg(a) /\ (s # a.putter \/ pg(a) # {}) => Deref(s)' = Deref(s)
    /\ \A m \in mg(a) : Deref(m)' = Deref(a.putter)
    /\ \A t \in Port : t \in ready' <=> t \in ready
    /\ \A g \in PoGe : /\ box'[g] = box[g]
                       /\ tell'[g] = IF g \in pg(a) THEN a.putter ELSE None

LEMMA MovesStutter ==
    ASSUME TypeOK, SafetyInv, AllTold, todo # <<>>, todo' = Tail(todo), ThreadsStay,
           NEW a, a = Head(todo), MovesOn(a)
    PROVE  UNCHANGED Abstract!vars
  <1> USE Kinds DEF ThreadsStay
  <1>1. /\ a \in ActionDef
        /\ \A x : x \in Part(a) <=> x = a.putter \/ x \in mg(a) \/ x \in pg(a)
        /\ \A x : x \in mg(a) <=> x \in Memo /\ x \in a.getters
        /\ \A x : x \in pg(a) <=> x \in PoGe /\ x \in a.getters
        /\ \A x \in Space : x \in Part(a) => x \notin ready /\ ~Held(x)
        /\ a.putter \in Memo => a.putter \notin full
        /\ a.putter \in Space
    <2>1. a \in ActionDef
      BY NextAction
    <2>2. /\ \A x : x \in Part(a) <=> x = a.putter \/ x \in mg(a) \/ x \in pg(a)
          /\ \A x : x \in mg(a) <=> x \in Memo /\ x \in a.getters
          /\ \A x : x \in pg(a) <=> x \in PoGe /\ x \in a.getters
          /\ a.putter \in Space
      BY <2>1 DEF ActionDef, Part, mg, pg
    <2>3. ASSUME NEW x \in Space, x \in Part(a) PROVE x \notin ready /\ ~Held(x)
      BY <2>3, NextAction
    <2>4. a.putter \in Memo => a.putter \notin full
      BY <2>2, NextAction
    <2> QED BY <2>1, <2>2, <2>3, <2>4
  <1>2. \A s \in Space : s \notin Part(a) => Deref(s)' = Deref(s)
    BY <1>1 DEF MovesOn
  <1>3. absOffer' = absOffer
    <2>1. ASSUME NEW p \in PoPu PROVE absOffer'[p] = absOffer[p]
      <3>1. p \in ready' <=> p \in ready
        BY DEF MovesOn
      <3>2. p \in ready => Deref(p)' = Deref(p)
        BY <1>1, <1>2
      <3> QED BY <3>1, <3>2 DEF absOffer
    <2> QED BY <2>1 DEF absOffer
  <1>4. absWant' = absWant
    <2>1. \A g \in PoGe : absWant'[g] = absWant[g]
      BY DEF absWant, MovesOn
    <2> QED BY <2>1 DEF absWant
  <1>5. absMem' = absMem
    <2>1. ASSUME NEW m \in Memo PROVE absMem'[m] = absMem[m]
      <3>1. CASE m \notin full
        BY <3>1 DEF absMem
      <3>2. CASE m \in full /\ m \in mg(a)
        <4>1. Supplier(m) # {} /\ Giver(m) = a.putter /\ Supplier(m)' = {}
          BY <1>1, <3>2, NextGiver
        <4>2. Deref(m)' = Deref(a.putter)
          BY <3>2 DEF MovesOn
        <4> QED BY <3>2, <4>1, <4>2 DEF absMem
      <3>3. CASE m \in full /\ m \notin mg(a)
        <4>1. m \notin a.getters /\ m \notin Part(a)
          BY <1>1, <3>3
        <4>2. Supplier(m)' = Supplier(m) /\ Giver(m)' = Giver(m)
          BY <4>1, NextGiver
        <4>3. Deref(m)' = Deref(m)
          BY <1>2, <4>1
        <4>4. ASSUME Supplier(m) # {} PROVE Deref(Giver(m))' = Deref(Giver(m))
          <5>1. PICK s \in Space : s = Giver(m) /\ s \notin Part(a)
            BY <4>1, <4>4, NextGiver
          <5>2. Deref(s)' = Deref(s)
            BY <1>2, <5>1
          <5> QED BY <4>2, <5>1, <5>2 DEF Deref
        <4> QED BY <3>3, <4>2, <4>3, <4>4 DEF absMem
      <3> QED BY <3>1, <3>2, <3>3
    <2> QED BY <2>1 DEF absMem
  <1>6. absGiven' = absGiven
    <2>1. ASSUME NEW g \in PoGe PROVE absGiven'[g] = absGiven[g]
      <3>1. CASE g \in pg(a)
        <4>1. Supplier(g) # {} /\ Giver(g) = a.putter /\ Supplier(g)' = {}
          BY <1>1, <3>1, NextGiver
        <4>2. tell'[g] = a.putter /\ a.putter # None
          BY <1>1, <3>1 DEF MovesOn
        <4>3. Deref(a.putter)' = Deref(a.putter)
          <5>1. PICK s \in Space : s = a.putter
            BY <1>1
          <5>2. s \notin mg(a) /\ pg(a) # {}
            <6>1. ~SelfPut(a)
              BY NextAction DEF ServedAction
            <6> QED BY <1>1, <3>1, <5>1, <6>1 DEF SelfPut
          <5>3. Deref(s)' = Deref(s)
            BY <5>2 DEF MovesOn
          <5> QED BY <5>1, <5>3
        <4>4. Deref(tell[g])' = Deref(a.putter)
          BY <4>2, <4>3 DEF Deref
        <4> QED BY <4>1, <4>2, <4>4 DEF absGiven
      <3>2. CASE g \notin pg(a)
        <4>1. g \notin a.getters /\ box'[g] = box[g] /\ tell[g] = None /\ tell'[g] = None
          BY <1>1, <3>2 DEF MovesOn, AllTold
        <4>2. Supplier(g)' = Supplier(g) /\ Giver(g)' = Giver(g)
          BY <4>1, NextGiver
        <4>3. CASE Supplier(g) # {}
          <5>1. PICK s \in Space : s = Giver(g) /\ s \notin Part(a)
            BY <4>1, <4>3, NextGiver
          <5>2. Deref(s)' = Deref(s)
            BY <1>2, <5>1
          <5>3. Deref(Giver(g))' = Deref(Giver(g))
            BY <4>2, <5>1, <5>2 DEF Deref
          <5> QED BY <4>2, <4>3, <5>3 DEF absGiven
        <4>4. CASE Supplier(g) = {} /\ box[g] # None
          <5>1. PICK s \in Space : s = box[g]
            BY <4>4 DEF TypeOK
          <5>2. Held(s)
            BY <5>1 DEF Held, Touches, ToCount, SentTo
          <5>3. Deref(s)' = Deref(s)
            BY <1>1, <1>2, <5>2
          <5>4. Deref(box[g])' = Deref(box[g])
            BY <4>1, <5>1, <5>3 DEF Deref
          <5> QED BY <4>1, <4>2, <4>4, <5>4 DEF absGiven
        <4>5. CASE Supplier(g) = {} /\ box[g] = None /\ at[g] \in Reading
          <5>1. PICK s \in Space : s = src[g]
            BY <4>5 DEF TypeOK, InHandoff, Reading
          <5>2. Held(s)
            BY <4>5, <5>1 DEF Held, Touches, ToCount, Closes, SafetyInv, StageInv, InHandoff, Reading
          <5>3. Deref(s)' = Deref(s)
            BY <1>1, <1>2, <5>2
          <5>4. Deref(src[g])' = Deref(src[g])
            BY <5>1, <5>3 DEF Deref
          <5> QED BY <4>1, <4>2, <4>5, <5>4 DEF absGiven, Reading
        <4>6. CASE Supplier(g) = {} /\ box[g] = None /\ at[g] \notin Reading
          BY <4>1, <4>2, <4>6 DEF absGiven, Reading
        <4> QED BY <4>3, <4>4, <4>5, <4>6
      <3> QED BY <3>1, <3>2
    <2> QED BY <2>1 DEF absGiven
  <1> QED BY <1>3, <1>4, <1>5, <1>6 DEF Abstract!vars

\* Cells are filled at an address that nothing pointed to.
LEMMA FilledValues ==
    ASSUME TypeOK, SafetyInv, todo # <<>>, todo' = Tail(todo), NEW a, a = Head(todo),
           a.putter \in PoPu, NEW cloned \in BOOLEAN,
           IF mg(a) = {} THEN NoCells
           ELSE \E dest \in StorePtr : FillCells(a.putter, mg(a), dest, cloned)
    PROVE  /\ \A s \in Space : s \notin mg(a) /\ (s # a.putter \/ cloned) => Deref(s)' = Deref(s)
           /\ \A m \in mg(a) : Deref(m)' = Deref(a.putter)
           /\ \A t \in Port : t \in ready' <=> t \in ready
  <1> USE Kinds
  <1> DEFINE p == a.putter
             cells == mg(a)
  <1>1. a \in ActionDef /\ cells \subseteq Memo /\ ptr[p] = p /\ heap[p] \in Data
    BY NextAction DEF Part, mg
  <1>2. CASE cells = {}
    BY <1>2 DEF NoCells, Deref
  <1>3. CASE cells # {}
    <2>1. PICK dest \in StorePtr : FillCells(p, cells, dest, cloned)
      BY <1>3
    <2>2. /\ dest \notin owned /\ ready' = ready \cup cells
          /\ heap' = [heap EXCEPT ![dest] = heap[p],
                                  ![p] = IF cloned \/ IsCopy THEN heap[p] ELSE None]
          /\ ptr' = [s \in Space |-> IF s \in cells THEN dest ELSE ptr[s]]
      BY <1>1, <2>1 DEF FillCells, Deref, LeftBehind
    <2>3. Counted(ptr, refs, owned)
      BY DEF SafetyInv, RefCount, Counted, Sharers
    <2>4. \A n \in Memo : ptr[n] # dest
      BY <2>2, <2>3, SoleSharer
    <2> HIDE DEF p, cells
    <2>5. ASSUME NEW s \in Space, s \notin cells, s # p \/ cloned PROVE Deref(s)' = Deref(s)
      <3>1. ptr'[s] = ptr[s] /\ ptr[s] # dest
        <4>1. s \in PoPu => ptr[s] \in {s, None}
          BY DEF TypeOK
        <4> QED BY <2>2, <2>4, <2>5, <4>1
      <3>2. ptr[s] # None => heap'[ptr[s]] = heap[ptr[s]]
        BY <2>2, <2>5, <3>1 DEF TypeOK, p
      <3> QED BY <3>1, <3>2 DEF Deref
    <2>6. ASSUME NEW m \in cells PROVE Deref(m)' = Deref(p)
      <3>1. ptr'[m] = dest /\ heap'[dest] = heap[p] /\ dest # None /\ p # None
        BY <1>1, <2>2, <2>6 DEF TypeOK, p
      <3> QED BY <1>1, <3>1 DEF Deref
    <2>7. \A t \in Port : t \in ready' <=> t \in ready
      BY <1>1, <2>2
    <2> QED BY <2>5, <2>6, <2>7 DEF p, cells
  <1> QED BY <1>2, <1>3

LEMMA PortMovesOn ==
    ASSUME TypeOK, SafetyInv, AllTold, todo # <<>>, todo' = Tail(todo), NEW a, a = Head(todo),
           PortToCells(a) \/ PortToPorts(a)
    PROVE  MovesOn(a)
  <1> USE Kinds
  <1>1. a.putter \in PoPu /\ pg(a) \subseteq PoGe
    BY DEF PortToCells, PortToPorts, pg
  <1>2. CASE PortToCells(a)
    <2> DEFINE cloned == FALSE
    <2>1. /\ pg(a) = {} /\ box' = [box EXCEPT ![a.putter] = IF mg(a) = {} THEN 0 ELSE 1]
          /\ IF mg(a) = {} THEN NoCells
             ELSE \E dest \in StorePtr : FillCells(a.putter, mg(a), dest, cloned)
      BY <1>2 DEF PortToCells
    <2>2. cloned \in BOOLEAN
      OBVIOUS
    <2> HIDE DEF cloned
    <2>3. /\ \A s \in Space : s \notin mg(a) /\ (s # a.putter \/ cloned) => Deref(s)' = Deref(s)
          /\ \A m \in mg(a) : Deref(m)' = Deref(a.putter)
          /\ \A t \in Port : t \in ready' <=> t \in ready
      BY <1>1, <2>1, <2>2, FilledValues
    <2>4. \A g \in PoGe : box'[g] = box[g] /\ tell'[g] = None
      BY <1>1, <1>2, <2>1 DEF TypeOK, PortToCells, AllTold
    <2> QED BY <2>1, <2>3, <2>4 DEF MovesOn
  <1>3. CASE PortToPorts(a)
    <2> DEFINE cloned == TRUE
    <2>1. /\ pg(a) # {} /\ box' = box
          /\ tell' = [g \in PoGe |-> IF g \in pg(a) THEN a.putter ELSE None]
          /\ IF mg(a) = {} THEN NoCells
             ELSE \E dest \in StorePtr : FillCells(a.putter, mg(a), dest, cloned)
      BY <1>3 DEF PortToPorts, StartHandoff
    <2>2. cloned \in BOOLEAN /\ cloned
      OBVIOUS
    <2> HIDE DEF cloned
    <2>3. /\ \A s \in Space : s \notin mg(a) /\ (s # a.putter \/ cloned) => Deref(s)' = Deref(s)
          /\ \A m \in mg(a) : Deref(m)' = Deref(a.putter)
          /\ \A t \in Port : t \in ready' <=> t \in ready
      BY <1>1, <2>1, <2>2, FilledValues
    <2>4. \A g \in PoGe : /\ box'[g] = box[g]
                          /\ tell'[g] = IF g \in pg(a) THEN a.putter ELSE None
      BY <2>1
    <2> QED BY <2>2, <2>3, <2>4 DEF MovesOn
  <1> QED BY <1>2, <1>3

LEMMA CellMovesOn ==
    ASSUME TypeOK, SafetyInv, AllTold, todo # <<>>, todo' = Tail(todo), NEW a, a = Head(todo),
           CellToCells(a) \/ CellToPorts(a)
    PROVE  MovesOn(a)
  <1> USE Kinds
  <1> DEFINE p == a.putter
             cells == mg(a)
             ptrs == ShareWith(p, cells)
             counts == Shared(p, cells)
             rdy == ready \cup (cells \ {p})
  <1>1. /\ a \in ActionDef /\ ServedAction(a) /\ p \in Memo /\ cells \subseteq Memo
        /\ p \notin ready /\ ptr[p] \in StorePtr /\ heap[ptr[p]] \in Data
        /\ \A m \in cells : ptr[m] = None
    BY NextAction DEF CellToCells, CellToPorts, Part, mg
  <1>2. /\ Counted(ptrs, counts, owned)
        /\ \A s \in Space : ptrs[s] = IF s \in cells THEN ptr[p] ELSE ptr[s]
        /\ p \notin cells
    BY <1>1, CellsShared
  <1>3. PtrOK(ptrs) /\ counts \in [StorePtr -> Nat]
    BY <1>1, TypeShare
  <1>4. CASE CellToPorts(a)
    <2>1. /\ ptr' = ptrs /\ heap' = heap /\ ready' = rdy
          /\ box' = box /\ tell' = [g \in PoGe |-> IF g \in pg(a) THEN p ELSE None]
      BY <1>4 DEF CellToPorts, StartHandoff
    <2> HIDE DEF ptrs, counts
    <2>2. \A s \in Space : s \notin cells => Deref(s)' = Deref(s)
      BY <1>2, <2>1 DEF Deref
    <2>3. \A m \in cells : Deref(m)' = Deref(p)
      BY <1>1, <1>2, <2>1 DEF Deref
    <2>4. \A t \in Port : t \in ready' <=> t \in ready
      BY <1>1, <2>1
    <2>5. \A g \in PoGe : /\ box'[g] = box[g]
                          /\ tell'[g] = IF g \in pg(a) THEN p ELSE None
      BY <2>1
    <2> QED BY <2>2, <2>3, <2>4, <2>5 DEF MovesOn
  <1>5. CASE CellToCells(a)
    <2>1. make_empty(p, ptrs, counts, rdy) /\ box' = box /\ tell' = tell /\ pg(a) = {}
      BY <1>1, <1>5 DEF CellToCells, ServedAction
    <2>2. p \notin rdy /\ ptrs[p] = ptr[p] /\ ptrs[p] \in StorePtr
      BY <1>1, <1>2
    <2> DEFINE dropped == TRUE
    <2>3. dropped \in BOOLEAN /\ (heap[ptrs[p]] # None <=> dropped)
      BY <1>1, <2>2
    <2> HIDE DEF p, dropped, ptrs, counts, rdy
    <2>4. /\ ready' = rdy \cup {p}
          /\ \A s \in Space : s # p => ptr'[s] = ptrs[s]
          /\ \A q \in PoPu : heap'[q] = heap[q]
          /\ \A n \in Memo : n # p /\ ptrs[n] # None => heap'[ptrs[n]] = heap[ptrs[n]]
      BY <1>1, <1>2, <1>3, <2>1, <2>2, <2>3, EmptiesCell
    <2> HIDE DEF cells
    <2>5. ASSUME NEW s \in Space, s \notin cells, s # p PROVE Deref(s)' = Deref(s)
      <3>1. ptr'[s] = ptr[s]
        BY <1>2, <2>4, <2>5
      <3>2. ptr[s] # None => heap'[ptr[s]] = heap[ptr[s]]
        <4>1. CASE s \in PoPu
          BY <2>4, <4>1 DEF TypeOK
        <4>2. CASE s \in Memo
          BY <1>2, <2>4, <2>5, <4>2
        <4> QED BY <4>1, <4>2
      <3> QED BY <3>1, <3>2 DEF Deref
    <2>6. ASSUME NEW m \in cells PROVE Deref(m)' = Deref(p)
      <3>1. m \in Space /\ m \in Memo /\ m # p /\ ptrs[m] = ptr[p] /\ ptr[p] # None
        BY <1>1, <1>2, <2>6
      <3>2. ptr'[m] = ptr[p] /\ heap'[ptr[p]] = heap[ptr[p]]
        BY <2>4, <3>1
      <3> QED BY <3>1, <3>2 DEF Deref
    <2>7. \A t \in Port : t \in ready' <=> t \in ready
      BY <1>1, <2>4 DEF rdy
    <2>8. \A g \in PoGe : /\ box'[g] = box[g]
                          /\ tell'[g] = IF g \in pg(a) THEN p ELSE None
      BY <2>1 DEF AllTold
    <2> QED BY <2>1, <2>5, <2>6, <2>7, <2>8 DEF MovesOn, p, cells
  <1> QED BY <1>4, <1>5

LEMMA PerformStutters ==
    ASSUME TypeOK, SafetyInv, PerformAction
    PROVE  UNCHANGED Abstract!vars
  <1>1. PICK a : a = Head(todo)
    OBVIOUS
  <1>2. todo # <<>> /\ todo' = Tail(todo) /\ ThreadsStay /\ AllTold
    BY DEF PerformAction, ThreadsStay
  <1>3. MovesOn(a)
    BY <1>1, <1>2, PortMovesOn, CellMovesOn DEF PerformAction
  <1> QED BY <1>1, <1>2, <1>3, MovesStutter

-----------------------------------------------------------------------------
(***************************************************************************)
(* Under the mapping of ProtoProps every run of the protocol is a run of   *)
(* the atomic connector: a call offers or asks for a value when it raises  *)
(* its readiness, a rule fires when it is selected, each getter gets the   *)
(* value of the putter its rule pairs it with, and nothing that the        *)
(* coordinator and the getters do afterwards can be told from outside.     *)
(***************************************************************************)
THEOREM ProtocolIsConnector ==
    ASSUME Served
    PROVE  Spec => ImplementsConnector
  <1>1. Init => Abstract!Init
    <2> SUFFICES ASSUME Init PROVE Abstract!Init
      OBVIOUS
    <2> USE Kinds
    <2>1. absOffer = [p \in PoPu |-> None]
      BY DEF Init, absOffer
    <2>2. absWant = [g \in PoGe |-> "none"]
      BY DEF Init, absWant
    <2>3. absMem = [m \in Memo |-> None]
      BY DEF Init, absMem
    <2>4. absGiven = [g \in PoGe |-> None]
      BY DEF Init, absGiven
    <2> QED BY <2>1, <2>2, <2>3, <2>4 DEF Abstract!Init
  <1>2. /\ TypeOK /\ SafetyInv /\ Unwritten /\ SafetyInv'
        /\ [Next]_vars
        => [Abstract!Next]_(Abstract!vars)
    <2> SUFFICES ASSUME TypeOK, SafetyInv, Unwritten, SafetyInv', [Next]_vars
                 PROVE  [Abstract!Next]_(Abstract!vars)
      OBVIOUS
    <2> USE Kinds
    <2>1. CASE UNCHANGED vars
      BY <2>1 DEF vars, handoffVars, protoVars, Abstract!vars, absOffer, absWant, absMem, absGiven,
                  Supplier, Giver, Deref
    <2>2. CASE PerformAction
      BY <2>2, PerformStutters
    <2>3. ASSUME Next, ~PerformAction PROVE [Abstract!Next]_(Abstract!vars)
      <3>1. ValuesKept
        BY <2>3, ThreadsKeepValues
      <3>2. ASSUME NEW p \in PoPu, PutBegin(p) \/ PutterStep(p) PROVE UNCHANGED Abstract!vars
        BY <3>1, <3>2, OthersStutter
      <3>3. ASSUME NEW g \in PoGe, GetBegin(g) PROVE [Abstract!Next]_(Abstract!vars)
        BY <3>1, <3>3, GetBeginCollects DEF Abstract!Next
      <3>4. ASSUME NEW g \in PoGe, GetterStep(g) \/ FinalizeCell(g) PROVE UNCHANGED Abstract!vars
        BY <3>1, <3>4, GetterStutters, FinalizeStutters
      <3>5. ASSUME NEW t \in Port, Enter(t) PROVE Abstract!Next
        BY <3>1, <3>5, EnterOffers, EnterWants DEF Abstract!Next
      <3>6. ASSUME NEW t \in Port, TimeOut(t) PROVE UNCHANGED Abstract!vars
        BY <3>1, <3>6, OthersStutter
      <3>7. ASSUME NEW t \in Port, Revoke(t) PROVE [Abstract!Next]_(Abstract!vars)
        BY <3>1, <3>7, OthersStutter, RevokeWithdraws, RevokeUnwants DEF Abstract!Next
      <3>8. ASSUME NEW r \in RuleId, SelectRule(r) PROVE Abstract!Next
        <4>1. Abstract!Fire(r)
          BY <3>8, SelectFires
        <4> QED BY <4>1 DEF Abstract!Next, Abstract!Firing, Abstract!RuleId, RuleId
      <3>9. CASE Unlock
        BY <3>1, <3>9, OthersStutter
      <3>10. CASE Arm
        BY <3>1, <3>10, OthersStutter
      <3>11. ASSUME NEW g \in PoGe, Tell(g) PROVE UNCHANGED Abstract!vars
        BY <3>1, <3>11, TellStutters
      <3> QED BY <2>3, <3>2, <3>3, <3>4, <3>5, <3>6, <3>7, <3>8, <3>9, <3>10, <3>11
              DEF Next, Coordinate
    <2> QED BY <2>1, <2>2, <2>3
  <1> QED BY <1>1, <1>2, HandoffIsSafe, TypeCorrect, NothingWritten, PTL
          DEF Spec, ImplementsConnector, Abstract!Spec
=============================================================================
