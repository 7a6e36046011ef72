---------------------------- MODULE ProtoProofs ----------------------------
(***************************************************************************)
(* Theorems about Proto, for every connector that build_rules accepts.     *)
(***************************************************************************)
EXTENDS ProtoProps, FiniteSetTheorems, TLAPS

(***************************************************************************)
(* What the assumptions on the constants give the proofs below.            *)
(***************************************************************************)
LEMMA StaticFacts ==
    /\ PoPu \subseteq Port /\ PoGe \subseteq Port /\ PoPu \cap PoGe = {}
    /\ PoPu \subseteq Space /\ Memo \subseteq Space /\ Port \subseteq Loc /\ Memo \subseteq Loc
    /\ PoPu \subseteq Addr /\ StorePtr \subseteq Addr /\ StorePtr \cap PoPu = {}
    /\ PoPu \cap Memo = {} /\ PoGe \cap Memo = {}
    /\ None \notin Loc /\ None \notin Data /\ None \notin StorePtr /\ None \notin {0, 1}
  BY LocAssumption, ValueAssumption DEF Port, Space, Loc, Addr

\* The actions of a rule are actions, and take part with locations only.
LEMMA RuleFacts ==
    ASSUME NEW r \in RuleId
    PROVE  /\ Rules[r].actions \in Seq(ActionDef)
           /\ Actions(r) \subseteq ActionDef
           /\ guard_ready(r) \subseteq Loc
           /\ guard_full(r) \subseteq Memo
           /\ assign_vals(r) \subseteq Memo
           /\ assign_mask(r) \subseteq Memo
  <1>1. Rules[r].actions \in Seq(ActionDef)
    <2> DEFINE RuleDef == [guard : Formula, actions : Seq(ActionDef)]
    <2>1. Rules \in Seq(RuleDef)
      BY RuleAssumption
    <2>2. r \in 1..Len(Rules)
      BY <2>1 DEF RuleId
    <2> HIDE DEF RuleDef
    <2>3. Rules[r] \in RuleDef
      BY <2>1, <2>2
    <2> QED BY <2>3 DEF RuleDef
  <1>2. Actions(r) \subseteq ActionDef
    BY <1>1 DEF Actions
  <1>3. guard_ready(r) \subseteq Loc
    BY <1>2 DEF guard_ready, ActionDef, Space, Loc
  <1>4. guard_full(r) \subseteq Memo
    BY DEF guard_full
  <1>5. assign_vals(r) \subseteq Memo
    BY DEF assign_vals, mg
  <1>6. assign_mask(r) \subseteq Memo
    BY <1>5 DEF assign_mask
  <1> QED BY <1>1, <1>2, <1>3, <1>4, <1>5, <1>6

\* The getters of an action form finite sets, whose sizes are numbers.
LEMMA ActionFacts ==
    ASSUME NEW a \in ActionDef
    PROVE  /\ a.putter \in Space
           /\ mg(a) \subseteq Memo /\ pg(a) \subseteq PoGe
           /\ IsFiniteSet(mg(a)) /\ IsFiniteSet(pg(a))
           /\ Cardinality(mg(a)) \in Nat /\ Cardinality(pg(a)) \in Nat
           /\ mg(a) # {} => Cardinality(mg(a)) > 0
  <1>1. mg(a) \subseteq Memo /\ pg(a) \subseteq PoGe /\ a.putter \in Space
    BY DEF mg, pg, ActionDef
  <1>2. IsFiniteSet(mg(a)) /\ IsFiniteSet(pg(a))
    BY <1>1, LocAssumption, FS_Subset
  <1>3. Cardinality(mg(a)) \in Nat /\ Cardinality(pg(a)) \in Nat
    BY <1>2, FS_CardinalityType
  <1>4. mg(a) # {} => Cardinality(mg(a)) > 0
    BY <1>2, <1>3, FS_EmptySet
  <1> QED BY <1>1, <1>2, <1>3, <1>4

-----------------------------------------------------------------------------
FaultKinds == {"panic", "ub", "leak", "redrop"}

(* Type correctness, one lemma per group of actions *)

LEMMA TypeHandoff ==
    ASSUME TypeOK, NEW g \in PoGe, GetterStep(g)
    PROVE  TypeOK'
  <1> USE StaticFacts DEF TypeOK, FaultKinds, protoVars, Goto, InHandoff, Where
  <1>1. CASE RecvGet(g)
    BY <1>1 DEF GetterStep, RecvGet, FirstStep
  <1>2. CASE Stamp(g)
    BY <1>2 DEF GetterStep, Stamp
  <1>3. CASE ExecuteCopy(g)
    BY <1>3 DEF GetterStep, ExecuteCopy, Deref, Blame
  <1>4. CASE Count(g)
    BY <1>4 DEF GetterStep, Count
  <1>5. CASE CheckMoved(g)
    BY <1>5 DEF GetterStep, CheckMoved, did_someone_move
  <1>6. CASE Ask(g)
    BY <1>6 DEF GetterStep, Ask, asked, permission
  <1>7. CASE WonCount(g)
    BY <1>7 DEF GetterStep, WonCount
  <1>8. CASE Await(g)
    BY <1>8 DEF GetterStep, Await
  <1>9. CASE ExecuteClone(g)
    BY <1>9 DEF GetterStep, ExecuteClone, Deref, Blame
  <1>10. CASE LoseCount(g)
    BY <1>10 DEF GetterStep, LoseCount
  <1>11. CASE Release(g)
    BY <1>11 DEF GetterStep, Release
  <1>12. CASE SignalAsk(g)
    BY <1>12 DEF GetterStep, SignalAsk, asked, permission
  <1>13. CASE FinalizePort(g)
    BY <1>13 DEF GetterStep, FinalizePort, Blame
  <1> QED
    BY <1>1, <1>2, <1>3, <1>4, <1>5, <1>6, <1>7, <1>8, <1>9, <1>10, <1>11, <1>12, <1>13
       DEF GetterStep, AcquireData

LEMMA TypeCalls ==
    ASSUME TypeOK, NEW t \in Port,
           \/ t \in PoPu /\ (PutBegin(t) \/ PutterStep(t))
           \/ t \in PoGe /\ GetBegin(t)
           \/ Enter(t) \/ TimeOut(t) \/ Revoke(t)
    PROVE  TypeOK'
  <1> USE StaticFacts DEF TypeOK, FaultKinds, protoVars, Goto, InHandoff, Where
  <1>1. CASE t \in PoPu /\ PutBegin(t)
    BY <1>1 DEF PutBegin
  <1>2. CASE t \in PoPu /\ PutterStep(t)
    BY <1>2 DEF PutterStep, RecvPut, Blame
  <1>3. CASE t \in PoGe /\ GetBegin(t)
    BY <1>3 DEF GetBegin
  <1>4. CASE Enter(t)
    BY <1>4 DEF Enter
  <1>5. CASE TimeOut(t)
    BY <1>5 DEF TimeOut
  <1>6. CASE Revoke(t)
    BY <1>6 DEF Revoke, StillReady
  <1> QED BY <1>1, <1>2, <1>3, <1>4, <1>5, <1>6

LEMMA TypeSelectUnlock ==
    ASSUME TypeOK, (\E r \in RuleId : SelectRule(r)) \/ Unlock
    PROVE  TypeOK'
  <1> USE StaticFacts DEF TypeOK, FaultKinds, InHandoff, Where
  <1>1. ASSUME NEW r \in RuleId, SelectRule(r)
        PROVE  TypeOK'
    BY <1>1, RuleFacts DEF SelectRule, assign_memory_bits, subtract_readiness, Blame
  <1>2. CASE Unlock
    BY <1>2 DEF Unlock, Blame
  <1> QED BY <1>1, <1>2

\* The pointers of the spaces, and what emptying a cell does to them.
PtrOK(ptrs) ==
    /\ ptrs \in [Space -> Addr \cup {None}]
    /\ \A p \in PoPu : ptrs[p] \in {p, None}
    /\ \A m \in Memo : ptrs[m] \in StorePtr \cup {None}

LEMMA TypeMakeEmpty ==
    ASSUME TypeOK, NEW m \in Memo, NEW ptrs, PtrOK(ptrs),
           NEW counts \in [StorePtr -> Nat], NEW rdy \in SUBSET Loc, NEW dropped,
           make_empty(m, ptrs, counts, rdy)
    PROVE  /\ PtrOK(ptr')
           /\ refs' \in [StorePtr -> Nat]
           /\ owned' \subseteq StorePtr
           /\ heap' \in [Addr -> Data \cup {None}]
           /\ ready' \subseteq Loc
           /\ EmptyFaults(m, ptrs, counts, rdy, dropped) \subseteq FaultKinds
  BY StaticFacts DEF TypeOK, FaultKinds, PtrOK, make_empty, EmptyFaults, Blame

LEMMA TypeFillCells ==
    ASSUME TypeOK, NEW a \in ActionDef, a.putter \in PoPu, NEW dest \in StorePtr,
           NEW cloned \in BOOLEAN, FillCells(a.putter, mg(a), dest, cloned)
    PROVE  /\ PtrOK(ptr')
           /\ refs' \in [StorePtr -> Nat]
           /\ owned' \subseteq StorePtr
           /\ heap' \in [Addr -> Data \cup {None}]
           /\ ready' \subseteq Loc
  BY StaticFacts, ActionFacts
     DEF TypeOK, PtrOK, FillCells, refcounts, LeftBehind, Deref

LEMMA TypeShare ==
    ASSUME TypeOK, NEW a \in ActionDef, a.putter \in Memo
    PROVE  /\ PtrOK(ShareWith(a.putter, mg(a)))
           /\ Shared(a.putter, mg(a)) \in [StorePtr -> Nat]
           /\ ready \cup (mg(a) \ {a.putter}) \subseteq Loc
  BY StaticFacts, ActionFacts DEF TypeOK, PtrOK, ShareWith, Shared

LEMMA TypeStartHandoff ==
    ASSUME TypeOK, NEW a \in ActionDef, StartHandoff(a.putter, pg(a))
    PROVE  arming' \in Space \cup {None} /\ tell' \in [PoGe -> Space \cup {None}]
  BY ActionFacts DEF StartHandoff

LEMMA TypeArmTell ==
    ASSUME TypeOK, Arm \/ \E g \in PoGe : Tell(g)
    PROVE  TypeOK'
  <1> USE StaticFacts DEF TypeOK, FaultKinds, InHandoff, Where
  <1>1. CASE Arm
    <2>1. po_ge_len(arming) \in Nat
      BY LocAssumption, FS_Subset, FS_CardinalityType DEF po_ge_len
    <2>2. reset(arming) \subseteq {MOVED, DISABLED}
      BY DEF reset
    <2>3. countdown' \in [Space -> Int] /\ flags' \in [Space -> SUBSET {MOVED, DISABLED}]
      BY <1>1, <2>1, <2>2 DEF Arm
    <2> QED BY <1>1, <2>3 DEF Arm
  <1>2. ASSUME NEW g \in PoGe, Tell(g) PROVE TypeOK'
    BY <1>2 DEF Tell, putter_id, SendFaults, Blame
  <1> QED BY <1>1, <1>2

LEMMA TypePerform ==
    ASSUME TypeOK, PerformAction
    PROVE  TypeOK'
  <1> DEFINE a == Head(todo)
  <1>1. a \in ActionDef /\ Tail(todo) \in Seq(ActionDef)
    BY DEF TypeOK, PerformAction
  <1>2. /\ fault' \subseteq FaultKinds
        /\ box' \in [Port -> {0, 1} \cup Space \cup {None}]
        /\ \A g \in PoGe : box'[g] \in Space \cup {None}
        /\ arming' \in Space \cup {None} /\ tell' \in [PoGe -> Space \cup {None}]
        /\ PtrOK(ptr')
        /\ refs' \in [StorePtr -> Nat]
        /\ owned' \subseteq StorePtr
        /\ heap' \in [Addr -> Data \cup {None}]
        /\ ready' \subseteq Loc
    <2> HIDE DEF a
    <2>1. CASE PortToCells(a)
      <3>1. a.putter \in PoPu
        BY <2>1 DEF PortToCells
      <3>2. /\ PtrOK(ptr') /\ refs' \in [StorePtr -> Nat] /\ owned' \subseteq StorePtr
            /\ heap' \in [Addr -> Data \cup {None}] /\ ready' \subseteq Loc
        <4>1. CASE mg(a) = {}
          BY <2>1, <4>1 DEF PortToCells, NoCells, TypeOK, PtrOK
        <4>2. CASE mg(a) # {}
          BY <2>1, <4>2, <3>1, <1>1, TypeFillCells DEF PortToCells
        <4> QED BY <4>1, <4>2
      <3>3. fault' \subseteq FaultKinds
        BY <2>1 DEF PortToCells, TypeOK, FaultKinds, FillFaults, SendFaults, Blame
      <3>4. /\ arming' = arming /\ tell' = tell
            /\ box' = [box EXCEPT ![a.putter] = IF mg(a) = {} THEN 0 ELSE 1]
        BY <2>1 DEF PortToCells
      <3> QED BY <3>1, <3>2, <3>3, <3>4, StaticFacts DEF TypeOK
    <2>2. CASE PortToPorts(a)
      <3>1. a.putter \in PoPu
        BY <2>2 DEF PortToPorts
      <3>2. /\ PtrOK(ptr') /\ refs' \in [StorePtr -> Nat] /\ owned' \subseteq StorePtr
            /\ heap' \in [Addr -> Data \cup {None}] /\ ready' \subseteq Loc
        <4>1. CASE mg(a) = {}
          BY <2>2, <4>1 DEF PortToPorts, NoCells, TypeOK, PtrOK
        <4>2. CASE mg(a) # {}
          BY <2>2, <4>2, <3>1, <1>1, TypeFillCells DEF PortToPorts
        <4> QED BY <4>1, <4>2
      <3>3. fault' \subseteq FaultKinds
        BY <2>2 DEF PortToPorts, TypeOK, FaultKinds, FillFaults, Blame
      <3>4. StartHandoff(a.putter, pg(a)) /\ box' = box
        BY <2>2 DEF PortToPorts
      <3> QED BY <3>2, <3>3, <3>4, <1>1, TypeStartHandoff DEF TypeOK
    <2>3. CASE CellToCells(a)
      <3> DEFINE ptrs == ShareWith(a.putter, mg(a))
                 counts == Shared(a.putter, mg(a))
                 rdy == ready \cup (mg(a) \ {a.putter})
      <3>1. a.putter \in Memo
        BY <2>3 DEF CellToCells
      <3>2. PtrOK(ptrs) /\ counts \in [StorePtr -> Nat] /\ rdy \in SUBSET Loc
        BY <3>1, <1>1, TypeShare
      <3>3. arming' = arming /\ tell' = tell /\ box' = box
        BY <2>3 DEF CellToCells
      <3>4. ShareFaults(a.putter, mg(a)) \subseteq FaultKinds
        BY DEF FaultKinds, ShareFaults, Blame
      <3>5. CASE SelfPut(a)
        BY <2>3, <3>2, <3>3, <3>4, <3>5 DEF CellToCells, TypeOK, FaultKinds
      <3>6. CASE ~SelfPut(a)
        <4>1. make_empty(a.putter, ptrs, counts, rdy)
          BY <2>3, <3>6 DEF CellToCells
        <4>2. fault' = fault \cup ShareFaults(a.putter, mg(a))
                             \cup EmptyFaults(a.putter, ptrs, counts, rdy, TRUE)
          BY <2>3, <3>6 DEF CellToCells
        <4>3. EmptyFaults(a.putter, ptrs, counts, rdy, TRUE) \subseteq FaultKinds
          BY DEF FaultKinds, EmptyFaults, Blame
        <4> HIDE DEF ptrs, counts, rdy
        <4> QED BY <4>1, <4>2, <4>3, <3>1, <3>2, <3>3, <3>4, TypeMakeEmpty DEF TypeOK, FaultKinds
      <3> QED BY <3>5, <3>6
    <2>4. CASE CellToPorts(a)
      <3>1. a.putter \in Memo
        BY <2>4 DEF CellToPorts
      <3>2. StartHandoff(a.putter, pg(a)) /\ box' = box
        BY <2>4 DEF CellToPorts
      <3>3. arming' \in Space \cup {None} /\ tell' \in [PoGe -> Space \cup {None}]
        BY <3>2, <1>1, TypeStartHandoff
      <3>4. fault' \subseteq FaultKinds
        BY <2>4 DEF CellToPorts, TypeOK, FaultKinds, ShareFaults, Blame
      <3>5. PtrOK(ptr') /\ refs' \in [StorePtr -> Nat] /\ ready' \subseteq Loc
        BY <2>4, <3>1, <1>1, TypeShare DEF CellToPorts
      <3>6. owned' = owned /\ heap' = heap
        BY <2>4 DEF CellToPorts
      <3> QED BY <3>2, <3>3, <3>4, <3>5, <3>6 DEF TypeOK
    <2> QED BY <2>1, <2>2, <2>3, <2>4 DEF PerformAction, a
  <1>3. /\ todo' = Tail(todo)
        /\ UNCHANGED <<countdown, flags, sema, at, mode, src, moved, out, lock, full>>
    BY DEF PerformAction
  <1> QED BY <1>1, <1>2, <1>3 DEF TypeOK, FaultKinds, PtrOK

LEMMA TypeFinalizeCell ==
    ASSUME TypeOK, NEW g \in PoGe, FinalizeCell(g)
    PROVE  TypeOK'
  <1>1. src[g] \in Memo
    BY DEF FinalizeCell
  <1>2. make_empty(src[g], ptr, refs, ready)
    BY DEF FinalizeCell
  <1>3. /\ PtrOK(ptr') /\ refs' \in [StorePtr -> Nat] /\ owned' \subseteq StorePtr
        /\ heap' \in [Addr -> Data \cup {None}] /\ ready' \subseteq Loc
        /\ EmptyFaults(src[g], ptr, refs, ready, drop_if_last_ref(g))
              \subseteq FaultKinds
    <2> DEFINE d == drop_if_last_ref(g)
    <2> HIDE DEF d
    <2>1. PtrOK(ptr) /\ refs \in [StorePtr -> Nat] /\ ready \in SUBSET Loc
      BY DEF PtrOK, TypeOK
    <2>2. /\ PtrOK(ptr') /\ refs' \in [StorePtr -> Nat] /\ owned' \subseteq StorePtr
          /\ heap' \in [Addr -> Data \cup {None}] /\ ready' \subseteq Loc
          /\ EmptyFaults(src[g], ptr, refs, ready, d) \subseteq FaultKinds
      BY <1>1, <1>2, <2>1, TypeMakeEmpty
    <2> QED BY <2>2 DEF d
  <1>4. fault' \subseteq FaultKinds
    BY <1>3 DEF FinalizeCell, TypeOK, FaultKinds
  <1>5. /\ lock' = g /\ at' = [at EXCEPT ![g] = "sweep"]
        /\ UNCHANGED <<countdown, flags, sema, box, mode, src, moved, out>>
        /\ UNCHANGED <<full, todo, arming, tell>>
    BY DEF FinalizeCell, Goto
  <1> QED BY <1>3, <1>4, <1>5, StaticFacts DEF TypeOK, FaultKinds, PtrOK, Where, InHandoff

(***************************************************************************)
(* The state stays within its types, whatever the connector.               *)
(***************************************************************************)
THEOREM TypeCorrect == Spec => []TypeOK
  <1>1. Init => TypeOK
    BY StaticFacts DEF Init, TypeOK, Where, InHandoff
  <1>2. TypeOK /\ [Next]_vars => TypeOK'
    <2> SUFFICES ASSUME TypeOK, [Next]_vars PROVE TypeOK'
      OBVIOUS
    <2>1. CASE UNCHANGED vars
      BY <2>1 DEF TypeOK, vars, handoffVars, protoVars
    <2>2. ASSUME NEW p \in PoPu, PutBegin(p) \/ PutterStep(p) PROVE TypeOK'
      BY <2>2, TypeCalls, StaticFacts
    <2>3. ASSUME NEW g \in PoGe, GetBegin(g) \/ GetterStep(g) \/ FinalizeCell(g) PROVE TypeOK'
      BY <2>3, TypeCalls, TypeHandoff, TypeFinalizeCell, StaticFacts
    <2>4. ASSUME NEW t \in Port, Enter(t) \/ TimeOut(t) \/ Revoke(t) PROVE TypeOK'
      BY <2>4, TypeCalls
    <2>5. CASE Coordinate
      BY <2>5, TypeSelectUnlock, TypePerform, TypeArmTell DEF Coordinate
    <2> QED BY <2>1, <2>2, <2>3, <2>4, <2>5 DEF Next
  <1> QED BY <1>1, <1>2, PTL DEF Spec

-----------------------------------------------------------------------------
(* No lost wakeup, for guards that look at memory bits only.  Guards that    *)
(* compare values also need the values to stay put while the lock is free.   *)

MemoryGuards ==
    \A r \in RuleId : \A x \in Rules[r].guard.atoms : x.op = "MemIsNull"

\* Whoever loses readiness disables rules, and never enables one.
LEMMA CanFireShrinks ==
    ASSUME MemoryGuards, NEW r \in RuleId, ready' \subseteq ready, full' = full,
           CanFire(r)'
    PROVE  CanFire(r)
  <1>1. is_ready(r)
    BY DEF CanFire, is_ready
  <1>2. \A x \in Rules[r].guard.atoms : EvalAtom(x)' = EvalAtom(x)
    BY DEF MemoryGuards, EvalAtom
  <1>3. eval_formula(Rules[r].guard)' = eval_formula(Rules[r].guard)
    BY <1>2 DEF eval_formula
  <1> QED BY <1>1, <1>3 DEF CanFire

\* In the initial state nobody has come to a port and every cell is empty.
LEMMA NothingToFireAtFirst ==
    ASSUME Init, NEW r \in RuleId, Rules[r].actions # <<>>
    PROVE  ~CanFire(r)
  <1>1. PICK a \in ActionDef : a \in Actions(r)
    <2>1. Rules[r].actions \in Seq(ActionDef)
      BY RuleFacts
    <2>2. 1 \in DOMAIN Rules[r].actions
      BY <2>1
    <2>3. Rules[r].actions[1] \in Actions(r)
      BY <2>2 DEF Actions
    <2> QED BY <2>3, RuleFacts
  <1>2. CASE a.putter \in Memo
    <2>1. a.putter \in guard_full(r)
      BY <1>1, <1>2 DEF guard_full
    <2> QED BY <2>1 DEF Init, CanFire, is_ready
  <1>3. CASE a.putter \in PoPu
    <2>1. a.putter \in guard_ready(r)
      BY <1>1 DEF guard_ready
    <2> QED BY <2>1, <1>3, StaticFacts DEF Init, CanFire, is_ready
  <1> QED BY <1>2, <1>3 DEF ActionDef, Space

\* While the lock is free, the steps of the threads outside it keep it so.
LEMMA FreeLockSteps ==
    ASSUME lock = None, todo = <<>>, AllTold, lock' = None, Next
    PROVE  ready' \subseteq ready /\ full' = full /\ todo' = todo /\ AllTold'
  <1> USE StaticFacts DEF protoVars
  <1>1. ASSUME NEW p \in PoPu, PutBegin(p) \/ PutterStep(p)
        PROVE  ready' \subseteq ready /\ full' = full /\ todo' = todo /\ AllTold'
    BY <1>1 DEF PutBegin, PutterStep, AllTold
  <1>2. ASSUME NEW g \in PoGe, GetBegin(g) \/ GetterStep(g) \/ FinalizeCell(g)
        PROVE  ready' \subseteq ready /\ full' = full /\ todo' = todo /\ AllTold'
    BY <1>2 DEF GetBegin, GetterStep, FinalizeCell, AllTold
  <1>3. ASSUME NEW t \in Port, Enter(t) \/ TimeOut(t) \/ Revoke(t)
        PROVE  ready' \subseteq ready /\ full' = full /\ todo' = todo /\ AllTold'
    BY <1>3 DEF Enter, TimeOut, Revoke, AllTold
  <1>4. ~Coordinate
    BY DEF Coordinate, SelectRule, PerformAction, Arm, Tell, Unlock, AllTold
  <1> QED BY <1>1, <1>2, <1>3, <1>4 DEF Next

(***************************************************************************)
(* Whenever the lock is free the coordinator has nothing left to do,       *)
(* however calls, timeouts and finalizations interleave (exhaust_rules and *)
(* its callers).  A rule without actions could always fire.                *)
(***************************************************************************)
THEOREM WakeupsAreNotLost ==
    ASSUME MemoryGuards, \A r \in RuleId : Rules[r].actions # <<>>
    PROVE  Spec => []NoMissedFiring
  <1>1. Init => NoMissedFiring
    BY NothingToFireAtFirst DEF Init, NoMissedFiring, AllTold
  <1>2. NoMissedFiring /\ [Next]_vars => NoMissedFiring'
    <2> SUFFICES ASSUME NoMissedFiring, [Next]_vars, lock' = None
                 PROVE  todo' = <<>> /\ AllTold' /\ \A r \in RuleId : ~CanFire(r)'
      BY DEF NoMissedFiring
    <2>1. CASE lock = None
      <3>1. todo = <<>> /\ AllTold /\ \A r \in RuleId : ~CanFire(r)
        BY <2>1 DEF NoMissedFiring
      <3>2. ready' \subseteq ready /\ full' = full /\ todo' = todo /\ AllTold'
        BY <2>1, <3>1, FreeLockSteps DEF vars, protoVars, AllTold
      <3> QED BY <3>1, <3>2, CanFireShrinks
    <2>2. CASE lock # None
      <3>1. Unlock
        BY <2>2 DEF Next, vars, handoffVars, protoVars, PutBegin, PutterStep, GetBegin,
                    GetterStep, FinalizeCell, Enter, TimeOut, Revoke, Coordinate,
                    SelectRule, PerformAction, Arm, Tell
      <3>2. todo' = <<>> /\ AllTold' /\ ready' = ready /\ full' = full /\ \A r \in RuleId : ~CanFire(r)
        BY <3>1 DEF Unlock, Exhausted, AllTold
      <3> QED BY <3>2, CanFireShrinks
    <2> QED BY <2>1, <2>2
  <1> QED BY <1>1, <1>2, PTL DEF Spec

-----------------------------------------------------------------------------
(* Reference counts, for connectors in which no cell puts to itself.         *)

NoSelfPuts == \A r \in RuleId : \A a \in Actions(r) : ~SelfPut(a)
TodoHasNoSelfPuts == \A i \in DOMAIN todo : ~SelfPut(todo[i])

Sharers(ptrs, a) == {m \in Memo : ptrs[m] = a}

\* RefCount of given pointers, counts and owned addresses
Counted(ptrs, counts, own) ==
    \A a \in StorePtr : /\ counts[a] = Cardinality(Sharers(ptrs, a))
                        /\ a \in own <=> counts[a] > 0

LEMMA SharersFinite ==
    ASSUME NEW ptrs, NEW a
    PROVE  IsFiniteSet(Sharers(ptrs, a)) /\ Cardinality(Sharers(ptrs, a)) \in Nat
  BY LocAssumption, FS_Subset, FS_CardinalityType DEF Sharers

\* FillCells writes a fresh address into cells that were empty.
LEMMA FillCounted ==
    ASSUME TypeOK, Counted(ptr, refs, owned),
           NEW a \in ActionDef, a.putter \in PoPu, mg(a) # {},
           NEW dest \in StorePtr, NEW cloned \in BOOLEAN,
           FillCells(a.putter, mg(a), dest, cloned),
           \A m \in mg(a) : ptr[m] = None
    PROVE  Counted(ptr', refs', owned')
  <1>1. dest \notin owned /\ owned' = owned \cup {dest}
        /\ refs' = [refs EXCEPT ![dest] = Cardinality(mg(a))]
        /\ ptr' = [s \in Space |-> IF s \in mg(a) THEN dest ELSE ptr[s]]
    BY DEF FillCells, refcounts
  <1>2. refs \in [StorePtr -> Nat]
    BY DEF TypeOK
  <1>3. Sharers(ptr, dest) = {}
    <2>1. Cardinality(Sharers(ptr, dest)) = 0
      BY <1>1, <1>2 DEF Counted
    <2> QED BY <2>1, SharersFinite, FS_EmptySet
  <1>4. Sharers(ptr', dest) = mg(a)
    BY <1>1, <1>3, ActionFacts, StaticFacts DEF Sharers
  <1>5. ASSUME NEW b \in StorePtr, b # dest
        PROVE  Sharers(ptr', b) = Sharers(ptr, b)
    BY <1>1, <1>5, ActionFacts, StaticFacts DEF Sharers
  <1>6. ASSUME NEW b \in StorePtr
        PROVE  /\ refs'[b] = Cardinality(Sharers(ptr', b))
               /\ b \in owned' <=> refs'[b] > 0
    <2>1. CASE b = dest
      BY <2>1, <1>1, <1>2, <1>4, ActionFacts
    <2>2. CASE b # dest
      BY <2>2, <1>1, <1>2, <1>5 DEF Counted
    <2> QED BY <2>1, <2>2
  <1> QED BY <1>6 DEF Counted

\* A cell that shares its address with empty cells counts every one of them.
LEMMA ShareCounted ==
    ASSUME TypeOK, Counted(ptr, refs, owned),
           NEW a \in ActionDef, a.putter \in Memo, ~SelfPut(a),
           ShareFaults(a.putter, mg(a)) = {}
    PROVE  Counted(ShareWith(a.putter, mg(a)), Shared(a.putter, mg(a)), owned)
  <1> DEFINE p == a.putter
             cells == mg(a)
             ptrs == ShareWith(p, cells)
             counts == Shared(p, cells)
  <1>1. /\ ptr[p] \in StorePtr /\ refs[ptr[p]] # 0
        /\ p \notin cells /\ \A m \in cells : ptr[m] = None
    <2>1. p \notin cells
      BY DEF SelfPut, mg
    <2>2. (IF ptr[p] = None THEN TRUE ELSE refs[ptr[p]] = 0) = FALSE
      BY DEF ShareFaults, Blame
    <2>3. ~\E m \in cells \ {p} : ptr[m] # None
      BY DEF ShareFaults, Blame
    <2> QED BY <2>1, <2>2, <2>3 DEF TypeOK
  <1>2. /\ refs \in [StorePtr -> Nat]
        /\ cells \subseteq Memo /\ IsFiniteSet(cells) /\ Cardinality(cells) \in Nat
        /\ Memo \subseteq Space /\ None \notin StorePtr
    BY ActionFacts, StaticFacts DEF TypeOK
  <1>3. counts = [refs EXCEPT ![ptr[p]] = @ + Cardinality(cells)]
    BY <1>1, StaticFacts DEF Shared
  <1>4. ptrs = [s \in Space |-> IF s \in cells THEN ptr[p] ELSE ptr[s]]
    BY DEF ShareWith
  <1> HIDE DEF p, cells, ptrs, counts
  <1>5. /\ Sharers(ptrs, ptr[p]) = Sharers(ptr, ptr[p]) \cup cells
        /\ Sharers(ptr, ptr[p]) \cap cells = {}
    BY <1>1, <1>2, <1>4 DEF Sharers
  <1>6. Cardinality(Sharers(ptrs, ptr[p]))
            = Cardinality(Sharers(ptr, ptr[p])) + Cardinality(cells)
    <2> DEFINE S == Sharers(ptr, ptr[p])
    <2>1. IsFiniteSet(S) /\ Cardinality(S) \in Nat
      BY SharersFinite
    <2>2. S \cap cells = {} /\ Sharers(ptrs, ptr[p]) = S \cup cells
      BY <1>5
    <2> HIDE DEF S
    <2>3. Cardinality(S \cup cells)
              = Cardinality(S) + Cardinality(cells) - Cardinality(S \cap cells)
      BY <2>1, <1>2, FS_Union
    <2>4. Cardinality(S \cap cells) = 0
      BY <2>2, FS_EmptySet
    <2> QED BY <2>1, <2>2, <2>3, <2>4, <1>2 DEF S
  <1>7. ASSUME NEW b \in StorePtr
        PROVE  /\ counts[b] = Cardinality(Sharers(ptrs, b))
               /\ b \in owned <=> counts[b] > 0
    <2>1. CASE b = ptr[p]
      BY <2>1, <1>1, <1>2, <1>3, <1>6 DEF Counted
    <2>2. CASE b # ptr[p]
      <3>1. Sharers(ptrs, b) = Sharers(ptr, b)
        BY <2>2, <1>1, <1>2, <1>4 DEF Sharers
      <3> QED BY <2>2, <3>1, <1>1, <1>2, <1>3 DEF Counted
    <2> QED BY <2>1, <2>2
  <1> QED BY <1>7 DEF Counted, ptrs, counts, p, cells

\* The cell that lets go of an address takes one from its count.
LEMMA EmptyCounted ==
    ASSUME TypeOK, NEW m \in Memo, NEW ptrs, PtrOK(ptrs),
           NEW counts \in [StorePtr -> Nat], NEW rdy, NEW dropped,
           Counted(ptrs, counts, owned),
           make_empty(m, ptrs, counts, rdy),
           EmptyFaults(m, ptrs, counts, rdy, dropped) = {}
    PROVE  Counted(ptr', refs', owned')
  <1> DEFINE a == ptrs[m]
  <1>1. a \in StorePtr /\ counts[a] # 0
    <2>1. (IF a = None THEN TRUE ELSE counts[a] = 0) = FALSE
      BY DEF EmptyFaults, Blame
    <2> QED BY <2>1 DEF PtrOK
  <1>2. None \notin StorePtr /\ Memo \subseteq Space
    BY StaticFacts
  <1>3. /\ ptr' = [ptrs EXCEPT ![m] = None]
        /\ refs' = [counts EXCEPT ![a] = @ - 1]
        /\ owned' = IF counts[a] = 1 THEN owned \ {a} ELSE owned
    BY <1>1, <1>2 DEF make_empty
  <1>4. ptrs \in [Space -> Addr \cup {None}]
    BY DEF PtrOK
  <1> HIDE DEF a
  <1>5. m \in Sharers(ptrs, a) /\ Sharers(ptr', a) = Sharers(ptrs, a) \ {m}
    BY <1>1, <1>2, <1>3, <1>4 DEF Sharers, a
  <1>6. Cardinality(Sharers(ptr', a)) = Cardinality(Sharers(ptrs, a)) - 1
    BY <1>5, SharersFinite, FS_RemoveElement
  <1>7. ASSUME NEW b \in StorePtr
        PROVE  /\ refs'[b] = Cardinality(Sharers(ptr', b))
               /\ b \in owned' <=> refs'[b] > 0
    <2>1. CASE b = a
      BY <2>1, <1>1, <1>3, <1>6 DEF Counted
    <2>2. CASE b # a
      <3>1. Sharers(ptr', b) = Sharers(ptrs, b)
        BY <2>2, <1>2, <1>3, <1>4 DEF Sharers, a
      <3> QED BY <2>2, <3>1, <1>1, <1>3 DEF Counted
    <2> QED BY <2>1, <2>2
  <1> QED BY <1>7 DEF Counted

RefInv == TodoHasNoSelfPuts /\ (NoFault => Counted(ptr, refs, owned))

LEMMA RefInvPerform ==
    ASSUME TypeOK, RefInv, NoFault, NoFault', PerformAction
    PROVE  RefInv'
  <1> DEFINE a == Head(todo)
  <1>1. /\ a \in ActionDef /\ ~SelfPut(a)
        /\ Counted(ptr, refs, owned)
        /\ todo' = Tail(todo) /\ TodoHasNoSelfPuts'
    BY DEF TypeOK, PerformAction, RefInv, TodoHasNoSelfPuts
  <1>2. ptr \in [Space -> Addr \cup {None}]
    BY DEF TypeOK
  <1>3. \/ PortToCells(a) \/ PortToPorts(a) \/ CellToCells(a) \/ CellToPorts(a)
    BY DEF PerformAction
  <1> HIDE DEF a
  <1>4. CASE PortToCells(a) \/ PortToPorts(a)
    <2>1. a.putter \in PoPu /\ FillFaults(a.putter, mg(a)) = {}
      BY <1>4 DEF PortToCells, PortToPorts, NoFault
    <2>2. \A m \in mg(a) : ptr[m] = None
      BY <2>1 DEF FillFaults, Blame
    <2>3. CASE mg(a) = {}
      BY <2>3, <1>1, <1>4 DEF PortToCells, PortToPorts, NoCells, RefInv
    <2>4. CASE mg(a) # {}
      BY <2>1, <2>2, <2>4, <1>1, <1>4, FillCounted DEF PortToCells, PortToPorts, RefInv
    <2> QED BY <2>3, <2>4
  <1>5. CASE CellToCells(a)
    <2> DEFINE ptrs == ShareWith(a.putter, mg(a))
               counts == Shared(a.putter, mg(a))
               rdy == ready \cup (mg(a) \ {a.putter})
    <2>1. /\ a.putter \in Memo
          /\ make_empty(a.putter, ptrs, counts, rdy)
          /\ ShareFaults(a.putter, mg(a)) = {}
          /\ EmptyFaults(a.putter, ptrs, counts, rdy, TRUE) = {}
      BY <1>1, <1>5 DEF CellToCells, NoFault
    <2>2. Counted(ptrs, counts, owned)
      BY <2>1, <1>1, ShareCounted
    <2>3. PtrOK(ptrs) /\ counts \in [StorePtr -> Nat]
      BY <2>1, <1>1, TypeShare
    <2> HIDE DEF ptrs, counts, rdy
    <2> QED BY <2>1, <2>2, <2>3, <1>1, EmptyCounted DEF RefInv
  <1>6. CASE CellToPorts(a)
    <2>1. /\ a.putter \in Memo /\ ShareFaults(a.putter, mg(a)) = {}
          /\ ptr' = ShareWith(a.putter, mg(a)) /\ refs' = Shared(a.putter, mg(a))
          /\ owned' = owned
      BY <1>6 DEF CellToPorts, NoFault
    <2> QED BY <2>1, <1>1, ShareCounted DEF RefInv
  <1> QED BY <1>3, <1>4, <1>5, <1>6

\* The other steps leave the pointers of cells, the counts and owned alone.
LEMMA RefInvElsewhere ==
    ASSUME TypeOK, RefInv, NoFault,
           /\ \A m \in Memo : ptr'[m] = ptr[m]
           /\ refs' = refs /\ owned' = owned
           /\ todo' = todo \/ \E r \in RuleId : todo' = Rules[r].actions,
           NoSelfPuts
    PROVE  RefInv'
  <1>1. TodoHasNoSelfPuts'
    BY DEF RefInv, TodoHasNoSelfPuts, NoSelfPuts, Actions
  <1>2. \A b : Sharers(ptr', b) = Sharers(ptr, b)
    BY DEF Sharers
  <1> QED BY <1>1, <1>2 DEF RefInv, Counted

(***************************************************************************)
(* The reference counts the coordinator and the last getters keep by hand  *)
(* are exact, and Storage owns what they count, as long as no assert has   *)
(* failed.  A cell that puts to itself would count itself twice.           *)
(***************************************************************************)
THEOREM CountsAreExact ==
    ASSUME NoSelfPuts
    PROVE  Spec => [](NoFault => RefCount)
  <1>1. Init => RefInv
    <2> SUFFICES ASSUME Init PROVE RefInv
      OBVIOUS
    <2>1. \A a \in StorePtr : Sharers(ptr, a) = {}
      BY StaticFacts DEF Init, Sharers
    <2>2. Cardinality({}) = 0
      BY FS_EmptySet
    <2>3. ASSUME NEW a \in StorePtr
          PROVE  refs[a] = Cardinality(Sharers(ptr, a)) /\ (a \in owned <=> refs[a] > 0)
      <3>1. Cardinality(Sharers(ptr, a)) = 0
        BY <2>1, <2>2
      <3> QED BY <3>1 DEF Init
    <2>4. TodoHasNoSelfPuts
      BY DEF Init, TodoHasNoSelfPuts
    <2> QED BY <2>3, <2>4 DEF RefInv, Counted
  <1>2. TypeOK /\ RefInv /\ [Next]_vars => RefInv'
    <2> SUFFICES ASSUME TypeOK, RefInv, [Next]_vars PROVE RefInv'
      OBVIOUS
    <2>1. CASE UNCHANGED vars
      BY <2>1 DEF vars, handoffVars, protoVars, RefInv, TodoHasNoSelfPuts, Counted,
                  Sharers, NoFault
    <2>2. CASE Next
      <3>1. NoFault
        BY <2>2 DEF Next, NoFault
      <3> USE StaticFacts, <3>1
      <3>2. ASSUME NEW p \in PoPu, PutBegin(p) \/ PutterStep(p) PROVE RefInv'
        <4>1. /\ \A m \in Memo : ptr'[m] = ptr[m]
              /\ refs' = refs /\ owned' = owned /\ todo' = todo
          BY <3>2 DEF TypeOK, PutBegin, PutterStep, RecvPut, protoVars
        <4> QED BY <4>1, RefInvElsewhere
      <3>3. ASSUME NEW g \in PoGe, GetBegin(g) \/ GetterStep(g) PROVE RefInv'
        <4>1. \A m \in Memo : ptr'[m] = ptr[m]
          BY <3>3 DEF TypeOK, GetBegin, GetterStep, AcquireData, RecvGet, Stamp, ExecuteCopy,
                Count, CheckMoved, Ask, WonCount, Await, ExecuteClone, LoseCount, Release,
                SignalAsk, FinalizePort
        <4>2. refs' = refs /\ owned' = owned /\ todo' = todo
          BY <3>3 DEF GetBegin, GetterStep, protoVars
        <4> QED BY <4>1, <4>2, RefInvElsewhere
      <3>4. ASSUME NEW t \in Port, Enter(t) \/ TimeOut(t) \/ Revoke(t) PROVE RefInv'
        <4>1. ptr' = ptr /\ refs' = refs /\ owned' = owned /\ todo' = todo
          BY <3>4 DEF Enter, TimeOut, Revoke, protoVars
        <4> QED BY <4>1, RefInvElsewhere
      <3>5. ASSUME NEW g \in PoGe, FinalizeCell(g) PROVE RefInv'
        <4>1. /\ src[g] \in Memo /\ make_empty(src[g], ptr, refs, ready) /\ todo' = todo
              /\ fault' = fault \cup EmptyFaults(src[g], ptr, refs, ready, drop_if_last_ref(g))
          BY <3>5 DEF FinalizeCell
        <4>2. TodoHasNoSelfPuts' /\ Counted(ptr, refs, owned)
          BY <4>1 DEF RefInv, TodoHasNoSelfPuts
        <4>3. PtrOK(ptr) /\ refs \in [StorePtr -> Nat]
          BY DEF TypeOK, PtrOK
        <4> DEFINE d == drop_if_last_ref(g)
        <4>4. NoFault' => EmptyFaults(src[g], ptr, refs, ready, d) = {}
          BY <4>1 DEF NoFault
        <4> HIDE DEF d
        <4>5. NoFault' => Counted(ptr', refs', owned')
          BY <4>1, <4>2, <4>3, <4>4, EmptyCounted
        <4> QED BY <4>2, <4>5 DEF RefInv
      <3>6. CASE Coordinate
        <4>1. ASSUME NEW r \in RuleId, SelectRule(r) PROVE RefInv'
          <5>1. ptr' = ptr /\ refs' = refs /\ owned' = owned /\ todo' = Rules[r].actions
            BY <4>1 DEF SelectRule
          <5> QED BY <5>1, RefInvElsewhere
        <4>2. CASE Unlock
          <5>1. ptr' = ptr /\ refs' = refs /\ owned' = owned /\ todo' = todo
            BY <4>2 DEF Unlock
          <5> QED BY <5>1, RefInvElsewhere
        <4>3. CASE PerformAction
          <5>1. CASE NoFault'
            BY <4>3, <5>1, RefInvPerform
          <5>2. CASE ~NoFault'
            <6>1. todo' = Tail(todo)
              BY <4>3 DEF PerformAction
            <6>2. TodoHasNoSelfPuts'
              BY <6>1, <4>3 DEF PerformAction, TypeOK, RefInv, TodoHasNoSelfPuts
            <6> QED BY <5>2, <6>2 DEF RefInv
          <5> QED BY <5>1, <5>2
        <4>4. CASE Arm \/ \E g \in PoGe : Tell(g)
          <5>1. ptr' = ptr /\ refs' = refs /\ owned' = owned /\ todo' = todo
            BY <4>4 DEF Arm, Tell
          <5> QED BY <5>1, RefInvElsewhere
        <4> QED BY <3>6, <4>1, <4>2, <4>3, <4>4 DEF Coordinate
      <3> QED BY <2>2, <3>2, <3>3, <3>4, <3>5, <3>6 DEF Next
    <2> QED BY <2>1, <2>2
  <1>3. RefInv => (NoFault => RefCount)
    BY DEF RefInv, Counted, Sharers, RefCount
  <1> QED BY <1>1, <1>2, <1>3, TypeCorrect, PTL DEF Spec
=============================================================================
