---------------------------- MODULE ProtoSafety ----------------------------
(***************************************************************************)
(* Nothing goes wrong in a connector that the handoff serves: SafetyInv is *)
(* inductive.  One lemma for each action, with one step for each part of   *)
(* the invariant that the action can disturb.                              *)
(***************************************************************************)
EXTENDS ProtoInv, ProtoProofs

\* Locations of different kinds, seen from a getter and from a space.
LEMMA Kinds ==
    /\ \A t : t \in Port <=> t \in PoPu \/ t \in PoGe
    /\ \A s : s \in Space <=> s \in PoPu \/ s \in Memo
    /\ \A x : ~(x \in PoPu /\ x \in PoGe) /\ ~(x \in PoPu /\ x \in Memo)
              /\ ~(x \in PoGe /\ x \in Memo)
    /\ \A a : a \in Addr <=> a \in PoPu \/ a \in StorePtr
    /\ \A a : ~(a \in PoPu /\ a \in StorePtr)
    /\ None \notin PoPu /\ None \notin PoGe /\ None \notin Memo /\ None \notin StorePtr
    /\ None # 0 /\ None # 1 /\ None \notin Data
    /\ IsCopy \in BOOLEAN
  BY LocAssumption, ValueAssumption DEF Port, Space, Loc, Addr

\* As long as nobody changes hands, nobody counts, closes or touches anew.
SameHands ==
    \A h \in PoGe : \A s \in Space :
        (ToCount(h, s)' <=> ToCount(h, s)) /\ (Closes(h, s)' <=> Closes(h, s))

LEMMA HandsKept ==
    ASSUME SameHands
    PROVE  /\ \A s \in Space : Counters(s)' = Counters(s) /\ (Held(s)' <=> Held(s))
           /\ \A h \in PoGe : \A s \in Space : Touches(h, s)' <=> Touches(h, s)
  BY DEF SameHands, Counters, Held, Touches

\* What follows for steps that leave the coordinator alone.
LEMMA ThreadFrame ==
    ASSUME SafetyInv, UNCHANGED <<refs, owned, todo>>, \A m \in Memo : ptr'[m] = ptr[m]
    PROVE  TodoInv' /\ RefCount' /\ \A x : InTodo(x)' <=> InTodo(x)
  <1>1. \A x : InTodo(x)' <=> InTodo(x)
    BY DEF InTodo
  <1>2. \A a : {m \in Memo : ptr'[m] = a} = {m \in Memo : ptr[m] = a}
    OBVIOUS
  <1>3. TodoInv' /\ RefCount'
    BY <1>2 DEF SafetyInv, TodoInv, RefCount, ServedAction, Part
  <1> QED BY <1>1, <1>3

\* One getter fewer to count.
LEMMA CountDown ==
    ASSUME TypeOK, CountInv, NEW g \in PoGe, NEW s \in Space, ToCount(g, s), s # arming
    PROVE  /\ countdown[s] \in Nat \ {0}
           /\ Cardinality(Counters(s) \ {g}) = countdown[s] - 1
           /\ countdown[s] = 1 <=> Counters(s) = {g}
  <1>1. /\ g \in Counters(s) /\ countdown[s] = Cardinality(Counters(s))
        /\ countdown[s] \in Int
    BY DEF Counters, CountInv, TypeOK
  <1>2. IsFiniteSet(Counters(s))
    BY LocAssumption, FS_Subset DEF Counters
  <1>3. /\ Cardinality(Counters(s)) \in Nat
        /\ Cardinality(Counters(s) \ {g}) = Cardinality(Counters(s)) - 1
        /\ IsFiniteSet(Counters(s) \ {g})
    BY <1>1, <1>2, FS_CardinalityType, FS_RemoveElement
  <1>4. /\ Cardinality(Counters(s) \ {g}) \in Nat
        /\ Cardinality(Counters(s) \ {g}) = 0 <=> Counters(s) \ {g} = {}
    BY <1>3, FS_CardinalityType, FS_EmptySet
  <1> QED BY <1>1, <1>3, <1>4

\* A getter inside acquire_data has had its message, from a space set up for it.
LEMMA AtWork ==
    ASSUME TypeOK, SafetyInv, NEW g \in PoGe, at[g] \in InHandoff
    PROVE  /\ src[g] \in Space /\ Touches(g, src[g]) /\ src[g] # arming
           /\ box[g] = None /\ tell[g] = None /\ \A s \in Space : ~SentTo(g, s)
  <1>1. box[g] = None /\ tell[g] = None
    BY Kinds DEF SafetyInv, PortInv, InCall, Waiting, InHandoff
  <1>2. src[g] \in Space /\ Touches(g, src[g])
    BY DEF TypeOK, SafetyInv, StageInv, Touches, ToCount, Closes
  <1>3. \A s \in Space : s # None
    BY Kinds
  <1>4. \A s \in Space : ~SentTo(g, s)
    BY <1>1, <1>3 DEF SentTo
  <1>5. src[g] # arming
    BY <1>1, <1>2, <1>3 DEF SafetyInv, ArmInv
  <1> QED BY <1>1, <1>2, <1>4, <1>5

-----------------------------------------------------------------------------
(* acquire_data: the getter's own steps *)

\* Steps inside acquire_data, after which whatever was held is held.
LEMMA InHand ==
    ASSUME TypeOK, SafetyInv, NEW g \in PoGe, at[g] \in InHandoff,
           at' = [at EXCEPT ![g] = at'[g]], at'[g] \in Before \cup After \cup {"idle"},
           UNCHANGED <<box, protoVars>>, \A m \in Memo : ptr'[m] = ptr[m],
           \A s \in Space : Held(s)' <=> Held(s)
    PROVE  /\ TodoInv' /\ RefCount' /\ LockInv' /\ PortInv' /\ CellInv' /\ StageInv'
           /\ \A x : InTodo(x)' <=> InTodo(x)
  <1> USE Kinds
  <1>1. TodoInv' /\ RefCount' /\ \A x : InTodo(x)' <=> InTodo(x)
    BY ThreadFrame DEF protoVars
  <1>2. /\ \A t \in Port : InCall(t)' <=> InCall(t)
        /\ \A t \in Port : t # g => at'[t] = at[t]
        /\ at[g] # "recv2" /\ at'[g] # "recv2" /\ at[g] \notin {"coord", "sweep"}
    BY DEF TypeOK, InCall, Waiting, InHandoff, Before, After
  <1>3. LockInv'
    BY <1>2 DEF SafetyInv, LockInv, protoVars, TypeOK
  <1>4. PortInv'
    BY <1>1, <1>2 DEF SafetyInv, PortInv, protoVars, TypeOK
  <1>5. CellInv'
    BY <1>1 DEF SafetyInv, CellInv, protoVars
  <1>6. StageInv'
    BY <1>2 DEF SafetyInv, StageInv, InHandoff
  <1> QED BY <1>1, <1>3, <1>4, <1>5, <1>6

\* Steps inside acquire_data that keep everyone's hands on what they had.
LEMMA StaysInHand ==
    ASSUME TypeOK, SafetyInv, NEW g \in PoGe, at[g] \in InHandoff,
           at' = [at EXCEPT ![g] = at'[g]], at'[g] \in Before \cup After,
           UNCHANGED <<box, src, countdown, protoVars>>,
           \A m \in Memo : ptr'[m] = ptr[m], SameHands
    PROVE  /\ TodoInv' /\ RefCount' /\ LockInv' /\ PortInv' /\ CellInv'
           /\ StageInv' /\ CountInv' /\ ArmInv'
           /\ \A x : InTodo(x)' <=> InTodo(x)
           /\ \A s \in Space : Held(s)' <=> Held(s)
  <1>1. /\ \A s \in Space : Counters(s)' = Counters(s) /\ (Held(s)' <=> Held(s))
        /\ \A h \in PoGe : \A s \in Space :
              (Touches(h, s)' <=> Touches(h, s)) /\ (Closes(h, s)' <=> Closes(h, s))
    BY HandsKept DEF SameHands
  <1>2. CountInv' /\ ArmInv'
    BY <1>1 DEF SafetyInv, CountInv, ArmInv, TypeOK, protoVars
  <1> QED BY <1>1, <1>2, InHand

LEMMA StampSafe ==
    ASSUME TypeOK, SafetyInv, NEW g \in PoGe, Stamp(g), UNCHANGED protoVars
    PROVE  SafetyInv'
  <1> USE Kinds DEF protoVars
  <1>1. /\ IsCopy /\ at[g] = "stamp" /\ src[g] \in Space
        /\ at' = [at EXCEPT ![g] = "copy"]
        /\ flags' = [flags EXCEPT ![src[g]] = {MOVED}]
        /\ UNCHANGED <<ptr, countdown, sema, box, mode, src, moved, heap, out, fault>>
    BY DEF Stamp, Goto, SafetyInv, StageInv, TypeOK, InHandoff, Before, After
  <1> USE <1>1
  <1>2. SameHands
    BY DEF SameHands, ToCount, SentTo, Closes, Before, After, TypeOK
  <1>3. /\ TodoInv' /\ RefCount' /\ LockInv' /\ PortInv' /\ CellInv' /\ StageInv' /\ CountInv' /\ ArmInv'
        /\ \A x : InTodo(x)' <=> InTodo(x)
        /\ \A s \in Space : Held(s)' <=> Held(s)
    <2>1. at[g] \in InHandoff /\ at'[g] \in Before \cup After
      BY DEF TypeOK, InHandoff, Before, After
    <2> QED BY <2>1, <1>2, StaysInHand
  <1>4. FaultInv' /\ MoveInv' /\ OutInv'
    BY DEF SafetyInv, FaultInv, MoveInv, OutInv, TypeOK
  <1>5. DatumInv'
    BY <1>3 DEF SafetyInv, DatumInv, SentTo, TypeOK, TakenOut
  <1>6. ContentInv'
    BY <1>3 DEF SafetyInv, ContentInv, TypeOK, TakenOut
  <1> QED BY <1>3, <1>4, <1>5, <1>6 DEF SafetyInv

LEMMA CheckMovedSafe ==
    ASSUME TypeOK, SafetyInv, NEW g \in PoGe, CheckMoved(g), UNCHANGED protoVars
    PROVE  SafetyInv'
  <1> USE Kinds DEF protoVars
  <1>1. /\ IsCopy /\ at[g] = "check" /\ src[g] \in Space
        /\ at' = [at EXCEPT ![g] = "final"]
        /\ UNCHANGED <<ptr, countdown, flags, sema, box, mode, src, heap, out, fault>>
    BY DEF CheckMoved, Goto, SafetyInv, StageInv, TypeOK, InHandoff, Before, After
  <1> USE <1>1
  <1>2. SameHands
    BY DEF SameHands, ToCount, SentTo, Closes, Before, After, TypeOK
  <1>3. /\ TodoInv' /\ RefCount' /\ LockInv' /\ PortInv' /\ CellInv' /\ StageInv' /\ CountInv' /\ ArmInv'
        /\ \A x : InTodo(x)' <=> InTodo(x)
        /\ \A s \in Space : Held(s)' <=> Held(s)
    <2>1. at[g] \in InHandoff /\ at'[g] \in Before \cup After
      BY DEF TypeOK, InHandoff, Before, After
    <2> QED BY <2>1, <1>2, StaysInHand
  <1>4. FaultInv' /\ MoveInv' /\ OutInv'
    BY DEF SafetyInv, FaultInv, MoveInv, OutInv, TypeOK
  <1>5. DatumInv'
    BY <1>3 DEF SafetyInv, DatumInv, SentTo, TypeOK, TakenOut
  <1>6. ContentInv'
    BY <1>3 DEF SafetyInv, ContentInv, TypeOK, TakenOut
  <1> QED BY <1>3, <1>4, <1>5, <1>6 DEF SafetyInv

LEMMA AskSafe ==
    ASSUME TypeOK, SafetyInv, NEW g \in PoGe, Ask(g), UNCHANGED protoVars
    PROVE  SafetyInv'
  <1> USE Kinds DEF protoVars
  <1>1. /\ ~IsCopy /\ at[g] = "ask" /\ src[g] \in Space /\ box[g] = None
        /\ flags[src[g]] = {DISABLED}
    BY DEF Ask, Goto, SafetyInv, StageInv, MoveInv, PortInv, TypeOK, InHandoff, Before, After,
           InCall, Waiting
  <1>2. /\ at' = [at EXCEPT ![g] = "woncount"]
        /\ \A s \in Space : s # src[g] => flags'[s] = flags[s]
        /\ UNCHANGED <<ptr, countdown, sema, box, mode, src, moved, heap, out, fault>>
    BY <1>1 DEF Ask, Goto, asked, permission, TypeOK
  <1> USE <1>1, <1>2
  <1>3. SameHands
    BY DEF SameHands, ToCount, SentTo, Closes, Before, After, TypeOK
  <1>4. /\ TodoInv' /\ RefCount' /\ LockInv' /\ PortInv' /\ CellInv' /\ StageInv' /\ CountInv' /\ ArmInv'
        /\ \A x : InTodo(x)' <=> InTodo(x)
        /\ \A s \in Space : Held(s)' <=> Held(s)
    <2>1. at[g] \in InHandoff /\ at'[g] \in Before \cup After
      BY DEF TypeOK, InHandoff, Before, After
    <2> QED BY <2>1, <1>3, StaysInHand
  <1>5. FaultInv' /\ OutInv'
    BY DEF SafetyInv, FaultInv, OutInv, TypeOK
  <1>6. MoveInv'
    <2>1. \A h \in PoGe : h # g => ~Touches(h, src[g])
      BY DEF SafetyInv, CountInv, Touches, ToCount, SentTo, Before
    <2>2. tell[g] = None
      BY AtWork DEF InHandoff
    <2> QED BY <2>1, <2>2 DEF SafetyInv, MoveInv, StageInv, TypeOK, Touches, ToCount, SentTo,
                              Closes, Before, After, InHandoff
  <1>7. DatumInv'
    BY <1>4 DEF SafetyInv, DatumInv, SentTo, TypeOK, TakenOut
  <1>8. ContentInv'
    BY <1>4 DEF SafetyInv, ContentInv, TypeOK, TakenOut
  <1> QED BY <1>4, <1>5, <1>6, <1>7, <1>8 DEF SafetyInv

LEMMA SignalAskSafe ==
    ASSUME TypeOK, SafetyInv, NEW g \in PoGe, SignalAsk(g), UNCHANGED protoVars
    PROVE  SafetyInv'
  <1> USE Kinds DEF protoVars
  <1>1. /\ ~IsCopy /\ at[g] = "sigask" /\ src[g] \in Space /\ box[g] = None
        /\ flags[src[g]] = {DISABLED} /\ mode[g] = "signal"
    BY DEF SignalAsk, Goto, SafetyInv, StageInv, MoveInv, PortInv, TypeOK, InHandoff, Before,
           After, InCall, Waiting
  <1>2. /\ at' = [at EXCEPT ![g] = "final"] /\ moved' = [moved EXCEPT ![g] = FALSE]
        /\ \A s \in Space : s # src[g] => flags'[s] = flags[s]
        /\ UNCHANGED <<ptr, countdown, sema, box, mode, src, heap, out, fault>>
    BY <1>1 DEF SignalAsk, Goto, asked, permission, TypeOK
  <1> USE <1>1, <1>2
  <1>3. SameHands
    BY DEF SameHands, ToCount, SentTo, Closes, Before, After, TypeOK
  <1>4. /\ TodoInv' /\ RefCount' /\ LockInv' /\ PortInv' /\ CellInv' /\ StageInv' /\ CountInv' /\ ArmInv'
        /\ \A x : InTodo(x)' <=> InTodo(x)
        /\ \A s \in Space : Held(s)' <=> Held(s)
    <2>1. at[g] \in InHandoff /\ at'[g] \in Before \cup After
      BY DEF TypeOK, InHandoff, Before, After
    <2> QED BY <2>1, <1>3, StaysInHand
  <1>5. FaultInv' /\ OutInv'
    BY DEF SafetyInv, FaultInv, OutInv, TypeOK
  <1>6. MoveInv'
    <2>1. \A h \in PoGe : h # g => ~Touches(h, src[g])
      BY DEF SafetyInv, CountInv, Touches, Closes, After
    <2>2. tell[g] = None
      BY AtWork DEF InHandoff
    <2> QED BY <2>1, <2>2 DEF SafetyInv, MoveInv, StageInv, TypeOK, Touches, ToCount, SentTo,
                              Closes, Before, After, InHandoff
  <1>7. \A s \in Space : TakenOut(s)' <=> TakenOut(s)
    BY DEF TakenOut, TypeOK
  <1>8. DatumInv'
    BY <1>4, <1>7 DEF SafetyInv, DatumInv, SentTo, TypeOK
  <1>9. ContentInv'
    BY <1>4, <1>7 DEF SafetyInv, ContentInv, TypeOK
  <1> QED BY <1>4, <1>5, <1>6, <1>8, <1>9 DEF SafetyInv

\* Whoever copies finds the value where it looks for it.
LEMMA ValueIsThere ==
    ASSUME TypeOK, SafetyInv, NEW s \in Space, Held(s),
           s \in PoPu => ptr[s] = s, ~TakenOut(s)
    PROVE  ptr[s] \in Addr /\ heap[ptr[s]] \in Data
  <1> USE Kinds
  <1>1. CASE s \in PoPu
    BY <1>1 DEF SafetyInv, DatumInv, SentTo, TypeOK
  <1>2. CASE s \in Memo
    <2>1. s \notin ready /\ s \notin full
      BY <1>2 DEF SafetyInv, CellInv, ContentInv
    <2>2. ptr[s] # None /\ heap[ptr[s]] # None
      BY <1>2, <2>1 DEF SafetyInv, ContentInv
    <2> QED BY <1>2, <2>2 DEF TypeOK
  <1> QED BY <1>1, <1>2

LEMMA ExecuteCopySafe ==
    ASSUME TypeOK, SafetyInv, NEW g \in PoGe, ExecuteCopy(g), UNCHANGED protoVars
    PROVE  SafetyInv'
  <1> USE Kinds DEF protoVars
  <1> DEFINE s == src[g]
  <1>1. at[g] = "copy" /\ s \in Space /\ Touches(g, s) /\ (IsCopy <=> ToCount(g, s))
    <2>1. at[g] = "copy" /\ s \in Space
      BY DEF ExecuteCopy, Goto, TypeOK, InHandoff
    <2>2. \A t \in Space : ~SentTo(g, t)
      BY <2>1, AtWork DEF InHandoff
    <2> QED BY <2>1, <2>2 DEF Before, After, Touches, ToCount, Closes
  <1>2. ~TakenOut(s) /\ Held(s) /\ (s \in PoPu => ptr[s] = s)
    BY <1>1 DEF SafetyInv, CountInv, TakenOut, Held, Touches, Closes, After, DatumInv, SentTo
  <1>3. ptr[s] \in Addr /\ heap[ptr[s]] \in Data
    BY <1>1, <1>2, ValueIsThere
  <1>4. /\ at' = [at EXCEPT ![g] = IF IsCopy THEN "count" ELSE "final"]
        /\ out' = [out EXCEPT ![g] = heap[ptr[s]]]
        /\ ptr' = IF s \in PoPu THEN [ptr EXCEPT ![s] = None] ELSE ptr
        /\ heap' = IF IsCopy THEN heap ELSE [heap EXCEPT ![ptr[s]] = None]
        /\ UNCHANGED <<countdown, flags, sema, box, mode, src, moved, fault>>
    BY <1>3 DEF ExecuteCopy, Goto, Deref, Blame
  <1>5. SameHands
    BY <1>1, <1>4 DEF SameHands, ToCount, SentTo, Closes, Before, After, TypeOK
  <1>6. /\ TodoInv' /\ RefCount' /\ LockInv' /\ PortInv' /\ CellInv' /\ StageInv' /\ CountInv' /\ ArmInv'
        /\ \A x : InTodo(x)' <=> InTodo(x)
        /\ \A t \in Space : Held(t)' <=> Held(t)
    <2>1. at[g] \in InHandoff /\ at'[g] \in Before \cup After /\ \A m \in Memo : ptr'[m] = ptr[m]
      BY <1>1, <1>4 DEF TypeOK, InHandoff, Before, After
    <2> QED BY <2>1, <1>4, <1>5, StaysInHand
  <1>7. /\ FaultInv' /\ OutInv' /\ MoveInv'
    BY <1>1, <1>3, <1>4 DEF SafetyInv, FaultInv, OutInv, MoveInv, TypeOK
  <1>8. \A t \in Space : TakenOut(t)' <=> TakenOut(t) \/ (~IsCopy /\ t = s)
    BY <1>1, <1>4 DEF TakenOut, TypeOK, SafetyInv, MoveInv
  <1>9. DatumInv'
    <2>1. \A p \in PoPu : p # s => ptr'[p] = ptr[p] /\ heap'[p] = heap[p]
      BY <1>1, <1>2, <1>3, <1>4 DEF TypeOK
    <2>2. s \in PoPu => /\ ptr'[s] = None /\ heap'[s] = IF IsCopy THEN heap[s] ELSE None
                        /\ s \notin ready /\ ~InTodo(s) /\ box[s] = None /\ at[s] # "enter"
      <3>1. s \in PoPu => s \notin ready /\ ~InTodo(s) /\ box[s] = None /\ InCall(s)
        BY <1>2 DEF SafetyInv, PortInv
      <3> QED BY <1>1, <1>2, <1>4, <3>1 DEF TypeOK, InCall, Waiting
    <2>3. s \in PoPu => \A h \in PoGe : Touches(h, s) => h = g
      BY <1>1 DEF SafetyInv, CountInv
    <2>4. ASSUME NEW p \in PoPu
          PROVE  /\ box'[p] \in {0, 1, None}
                 /\ at'[p] = "enter" \/ p \in ready' \/ InTodo(p)' => ptr'[p] = p /\ heap'[p] # None
                 /\ box'[p] = 0 => heap'[p] # None
                 /\ box'[p] = 1 /\ ~IsCopy => heap'[p] = None
                 /\ Held(p)' => (heap'[p] = None <=> TakenOut(p)')
      <3>1. CASE p = s
        <4>1. at'[p] = at[p] /\ box'[p] = None /\ p \notin ready' /\ ~InTodo(p)'
          BY <1>4, <1>6, <2>2, <3>1 DEF TypeOK
        <4>2. heap'[p] = None <=> TakenOut(p)'
          BY <1>2, <1>3, <1>8, <2>2, <3>1
        <4> QED BY <2>2, <3>1, <4>1, <4>2
      <3>2. CASE p # s
        BY <1>4, <1>6, <1>8, <2>1, <3>2 DEF SafetyInv, DatumInv, SentTo, TypeOK
      <3> QED BY <3>1, <3>2
    <2>5. ASSUME NEW p \in PoPu, NEW h \in PoGe,
                 SentTo(h, p)' \/ (src'[h] = p /\ at'[h] \in {"stamp", "copy", "ask", "woncount"})
          PROVE  ptr'[p] = p
      <3>1. SentTo(h, p)' <=> SentTo(h, p)
        BY <1>4 DEF SentTo
      <3>2. h # g \/ p # s
        <4>1. ~SentTo(g, s)
          BY <1>1, AtWork DEF InHandoff
        <4> QED BY <1>1, <1>4, <2>5, <3>1, <4>1 DEF TypeOK
      <3>3. p # s
        BY <1>4, <2>3, <2>5, <3>1, <3>2
           DEF TypeOK, SafetyInv, StageInv, InHandoff, Touches, ToCount, Closes, Before, After
      <3>4. SentTo(h, p) \/ (src[h] = p /\ at[h] \in {"stamp", "copy", "ask", "woncount"})
        BY <1>1, <1>4, <2>5, <3>1, <3>3 DEF TypeOK
      <3>5. ptr[p] = p
        BY <3>4 DEF SafetyInv, DatumInv
      <3> QED BY <2>1, <3>3, <3>5
    <2> QED BY <2>4, <2>5 DEF DatumInv
  <1>10. ContentInv'
    <2>1. \A m \in Memo : ptr'[m] = ptr[m]
      BY <1>4 DEF TypeOK
    <2>2. ASSUME NEW m \in Memo, ptr[m] # None
          PROVE  heap'[ptr[m]] = None <=> TakenOut(m)'
      BY <1>1, <1>3, <1>4, <1>8, <2>2 DEF SafetyInv, ContentInv, TypeOK
    <2> QED BY <1>6, <2>1, <2>2 DEF SafetyInv, ContentInv
  <1> QED BY <1>6, <1>7, <1>9, <1>10 DEF SafetyInv

\* The last to count down has the space to itself; the others go on.
LEMMA LastCounts ==
    ASSUME TypeOK, SafetyInv, NEW g \in PoGe, at[g] \in InHandoff, at[g] \in Before,
           at' = [at EXCEPT ![g] = at'[g]], UNCHANGED <<box, src, ptr, protoVars>>,
           countdown' = [countdown EXCEPT ![src[g]] = @ - 1],
           at'[g] \in IF countdown[src[g]] = 1 THEN After ELSE {"idle"}
    PROVE  /\ TodoInv' /\ RefCount' /\ LockInv' /\ PortInv' /\ CellInv'
           /\ StageInv' /\ CountInv' /\ ArmInv'
           /\ \A x : InTodo(x)' <=> InTodo(x)
           /\ \A s \in Space : Held(s)' <=> Held(s)
           /\ countdown[src[g]] # 1 => IsCopy /\ src[g] \in Memo
  <1> DEFINE s == src[g]
             last == countdown[s] = 1
  <1> USE Kinds
  <1>1. /\ s \in Space /\ box[g] = None /\ ToCount(g, s) /\ ~Closes(g, s) /\ s # arming
        /\ \A t \in Space : ~SentTo(g, t)
    BY AtWork DEF ToCount, Closes, Before, After
  <1>2. /\ countdown[s] \in Nat \ {0}
        /\ Cardinality(Counters(s) \ {g}) = countdown[s] - 1
        /\ last <=> Counters(s) = {g}
    BY <1>1, CountDown DEF SafetyInv
  <1>3. \A h \in PoGe : \A t \in Space :
            /\ ToCount(h, t)' <=> ToCount(h, t) /\ ~(h = g /\ t = s)
            /\ Closes(h, t)' <=> Closes(h, t) \/ (last /\ h = g /\ t = s)
    <2>1. /\ last => at'[g] \in After
          /\ ~last => at'[g] = "idle"
      OBVIOUS
    <2>2. /\ at'[g] \notin Before /\ at[g] \notin After
          /\ at'[g] \in After <=> last
      BY <2>1 DEF Before, After
    <2>3. \A h \in PoGe : h # g => at'[h] = at[h]
      BY DEF TypeOK
    <2>4. \A h \in PoGe : \A t \in Space : SentTo(h, t)' <=> SentTo(h, t)
      BY DEF SentTo, protoVars
    <2> QED BY <1>1, <2>2, <2>3, <2>4 DEF ToCount, Closes
  <1>4. \A t \in Space : Held(t)' <=> Held(t)
    <2>1. last => Touches(g, s)'
      BY <1>1, <1>3 DEF Touches
    <2>2. ~last => \E h \in Counters(s) : h # g
      BY <1>1, <1>2 DEF Counters
    <2>3. Held(s) /\ Held(s)'
      BY <1>1, <1>3, <2>1, <2>2 DEF Held, Touches, Counters
    <2>4. \A t \in Space : t # s => (Held(t)' <=> Held(t))
      BY <1>3 DEF Held, Touches
    <2> QED BY <2>3, <2>4
  <1>5. ~last => IsCopy /\ s \in Memo
    <2>1. ~last => \E h \in Counters(s) : h # g
      BY <1>1, <1>2 DEF Counters
    <2> QED BY <1>1, <2>1 DEF SafetyInv, CountInv, ArmInv, TypeOK, Counters, Touches
  <1>6. CountInv' /\ ArmInv'
    <2>1. ASSUME NEW t \in Space
          PROVE  Counters(t)' # {} /\ t # arming' => countdown'[t] = Cardinality(Counters(t)')
      <3>1. CASE t = s
        <4>1. Counters(s)' = Counters(s) \ {g}
          BY <1>1, <1>3 DEF Counters
        <4> QED BY <1>1, <1>2, <3>1, <4>1 DEF TypeOK
      <3>2. CASE t # s
        <4>1. Counters(t)' = Counters(t) /\ countdown'[t] = countdown[t]
          BY <1>1, <1>3, <3>2 DEF Counters, TypeOK
        <4> QED BY <3>2, <4>1 DEF SafetyInv, CountInv, protoVars
      <3> QED BY <3>1, <3>2
    <2>2. \A h \in PoGe : ~Closes(h, s)
      BY <1>1 DEF SafetyInv, CountInv, Touches
    <2>3. last => \A h \in PoGe : ToCount(h, s) => h = g
      BY <1>2 DEF Counters
    <2>4. ASSUME NEW t \in Space, NEW h \in PoGe, NEW k \in PoGe, Closes(h, t)', Touches(k, t)'
          PROVE  h = k
      BY <1>3, <2>2, <2>3, <2>4 DEF SafetyInv, CountInv, Touches
    <2>5. \A h \in PoGe : \A t \in Space : Touches(h, t)' => Touches(h, t)
      BY <1>1, <1>3 DEF Touches
    <2> QED BY <2>1, <2>4, <2>5 DEF SafetyInv, CountInv, ArmInv, TypeOK, protoVars
  <1>7. at'[g] \in Before \cup After \cup {"idle"}
    OBVIOUS
  <1> HIDE DEF last, s
  <1>8. /\ TodoInv' /\ RefCount' /\ LockInv' /\ PortInv' /\ CellInv' /\ StageInv'
        /\ \A x : InTodo(x)' <=> InTodo(x)
    BY <1>4, <1>7, InHand
  <1> QED BY <1>4, <1>5, <1>6, <1>8 DEF last, s

LEMMA CountSafe ==
    ASSUME TypeOK, SafetyInv, NEW g \in PoGe, Count(g), UNCHANGED protoVars
    PROVE  SafetyInv'
  <1> USE Kinds
  <1>1. /\ at[g] = "count" /\ src[g] \in Space /\ at[g] \in InHandoff /\ at[g] \in Before
        /\ ~IsCopy => mode[g] = "signal" /\ flags[src[g]] = {DISABLED}
    BY DEF Count, Goto, SafetyInv, MoveInv, TypeOK, InHandoff, Before
  <1>2. /\ at' = [at EXCEPT ![g] = at'[g]]
        /\ at'[g] = IF countdown[src[g]] # 1 THEN "idle" ELSE IF IsCopy THEN "check" ELSE "sigask"
        /\ countdown' = [countdown EXCEPT ![src[g]] = @ - 1]
        /\ UNCHANGED <<ptr, flags, sema, box, mode, src, moved, heap, out, fault>>
    BY DEF Count, Goto, TypeOK
  <1>3. /\ TodoInv' /\ RefCount' /\ LockInv' /\ PortInv' /\ CellInv' /\ StageInv' /\ CountInv' /\ ArmInv'
        /\ \A x : InTodo(x)' <=> InTodo(x)
        /\ \A s \in Space : Held(s)' <=> Held(s)
        /\ countdown[src[g]] # 1 => IsCopy /\ src[g] \in Memo
    <2>1. at'[g] \in IF countdown[src[g]] = 1 THEN After ELSE {"idle"}
      BY <1>2 DEF After
    <2> QED BY <1>1, <1>2, <2>1, LastCounts
  <1> USE <1>1, <1>2 DEF protoVars
  <1>4. FaultInv' /\ MoveInv' /\ OutInv'
    BY <1>3 DEF SafetyInv, FaultInv, MoveInv, OutInv, TypeOK
  <1>5. \A s \in Space : TakenOut(s)' <=> TakenOut(s)
    BY DEF TakenOut, TypeOK
  <1>6. DatumInv'
    BY <1>3, <1>5 DEF SafetyInv, DatumInv, SentTo, TypeOK
  <1>7. ContentInv'
    BY <1>3, <1>5 DEF SafetyInv, ContentInv, TypeOK
  <1> QED BY <1>3, <1>4, <1>6, <1>7 DEF SafetyInv

LEMMA WonCountSafe ==
    ASSUME TypeOK, SafetyInv, NEW g \in PoGe, WonCount(g), UNCHANGED protoVars
    PROVE  SafetyInv'
  <1> USE Kinds
  <1>1. /\ ~IsCopy /\ at[g] = "woncount" /\ src[g] \in Space /\ at[g] \in InHandoff
        /\ at[g] \in Before /\ ToCount(g, src[g]) /\ src[g] # arming
    BY AtWork DEF WonCount, Goto, SafetyInv, StageInv, InHandoff, Before, After, ToCount
  <1>2. countdown[src[g]] = 1
    <2>1. Counters(src[g]) = {g}
      BY <1>1 DEF SafetyInv, CountInv, Counters, Touches
    <2> QED BY <1>1, <2>1, CountDown DEF SafetyInv
  <1>3. /\ at' = [at EXCEPT ![g] = at'[g]] /\ at'[g] = "copy"
        /\ countdown' = [countdown EXCEPT ![src[g]] = @ - 1]
        /\ moved' = [moved EXCEPT ![g] = TRUE]
        /\ UNCHANGED <<ptr, flags, sema, box, mode, src, heap, out, fault>>
    BY <1>2 DEF WonCount, Goto, TypeOK
  <1>4. /\ TodoInv' /\ RefCount' /\ LockInv' /\ PortInv' /\ CellInv' /\ StageInv' /\ CountInv' /\ ArmInv'
        /\ \A x : InTodo(x)' <=> InTodo(x)
        /\ \A s \in Space : Held(s)' <=> Held(s)
    <2>1. at'[g] \in IF countdown[src[g]] = 1 THEN After ELSE {"idle"}
      BY <1>1, <1>2, <1>3 DEF After
    <2> QED BY <1>1, <1>3, <2>1, LastCounts
  <1> USE <1>1, <1>3 DEF protoVars
  <1>5. FaultInv' /\ MoveInv' /\ OutInv'
    BY DEF SafetyInv, FaultInv, MoveInv, OutInv, TypeOK
  <1>6. \A s \in Space : TakenOut(s)' <=> TakenOut(s)
    BY DEF TakenOut, TypeOK
  <1>7. DatumInv'
    BY <1>4, <1>6 DEF SafetyInv, DatumInv, SentTo, TypeOK
  <1>8. ContentInv'
    BY <1>4, <1>6 DEF SafetyInv, ContentInv, TypeOK
  <1> QED BY <1>4, <1>5, <1>7, <1>8 DEF SafetyInv

LEMMA RecvGetSafe ==
    ASSUME TypeOK, SafetyInv, NEW g \in PoGe, RecvGet(g), UNCHANGED protoVars
    PROVE  SafetyInv'
  <1> USE Kinds DEF protoVars
  <1>1. /\ at[g] \in {"recv", "recv2"} /\ box[g] \in Space /\ g \notin ready /\ ~InTodo(g)
        /\ lock # g
    BY DEF RecvGet, TypeOK, SafetyInv, PortInv, LockInv
  <1>2. /\ src' = [src EXCEPT ![g] = box[g]] /\ box' = [box EXCEPT ![g] = None]
        /\ at' = [at EXCEPT ![g] = at'[g]]
        /\ at'[g] = IF mode[g] = "signal" THEN "count" ELSE IF IsCopy THEN "stamp" ELSE "ask"
        /\ UNCHANGED <<ptr, countdown, flags, sema, mode, moved, heap, out, fault>>
    BY DEF RecvGet, FirstStep, TypeOK
  <1> USE <1>1, <1>2
  <1>3. /\ at'[g] \in Before /\ at'[g] \notin After /\ at[g] \notin Before \cup After
        /\ \A h \in PoGe : h # g => at'[h] = at[h] /\ src'[h] = src[h] /\ box'[h] = box[h]
        /\ src'[g] = box[g] /\ box'[g] = None
    <2>1. at'[g] \in IF IsCopy THEN {"stamp", "count"} ELSE {"ask", "count"}
      BY <1>2
    <2>2. at'[g] \in Before /\ at'[g] \notin After /\ at[g] \notin Before \cup After
      BY <2>1 DEF Before, After
    <2>3. \A h \in PoGe : h # g => at'[h] = at[h] /\ src'[h] = src[h] /\ box'[h] = box[h]
      BY DEF TypeOK
    <2>4. src'[g] = box[g] /\ box'[g] = None
      BY DEF TypeOK
    <2> QED BY <2>2, <2>3, <2>4
  <1>4. SameHands /\ \A s \in Space : TakenOut(s)' <=> TakenOut(s)
    <2>1. at[g] # "final" /\ at'[g] # "final"
      OBVIOUS
    <2> QED BY <1>3, <2>1 DEF SameHands, ToCount, SentTo, Closes, TakenOut
  <1>5. /\ TodoInv' /\ RefCount' /\ \A x : InTodo(x)' <=> InTodo(x)
        /\ \A s \in Space : Counters(s)' = Counters(s) /\ (Held(s)' <=> Held(s))
        /\ \A h \in PoGe : \A s \in Space :
              (Touches(h, s)' <=> Touches(h, s)) /\ (Closes(h, s)' <=> Closes(h, s))
    BY <1>4, HandsKept, ThreadFrame DEF SameHands
  <1>6. FaultInv' /\ LockInv' /\ CellInv' /\ CountInv' /\ ArmInv'
    BY <1>5 DEF SafetyInv, FaultInv, LockInv, CellInv, CountInv, ArmInv, TypeOK
  <1>7. PortInv'
    BY <1>5 DEF SafetyInv, PortInv, TypeOK, InCall, Waiting
  <1>8. StageInv' /\ OutInv'
    BY <1>3 DEF SafetyInv, StageInv, OutInv, TypeOK
  <1>9. MoveInv'
    BY <1>3 DEF SafetyInv, MoveInv, TypeOK
  <1>10. DatumInv'
    BY <1>4, <1>5 DEF SafetyInv, DatumInv, SentTo, TypeOK
  <1>11. ContentInv'
    BY <1>4, <1>5 DEF SafetyInv, ContentInv, TypeOK
  <1> QED BY <1>5, <1>6, <1>7, <1>8, <1>9, <1>10, <1>11 DEF SafetyInv

LEMMA FinalizePortSafe ==
    ASSUME TypeOK, SafetyInv, NEW g \in PoGe, FinalizePort(g), UNCHANGED protoVars
    PROVE  SafetyInv'
  <1> USE Kinds DEF protoVars
  <1> DEFINE p == src[g]
  <1>1. /\ at[g] = "final" /\ p \in PoPu /\ Closes(g, p) /\ Touches(g, p) /\ Held(p)
    BY DEF FinalizePort, Goto, Closes, Touches, Held, After
  <1>2. /\ \A h \in PoGe : Touches(h, p) => h = g
        /\ TakenOut(p) <=> ~IsCopy /\ moved[g]
    BY <1>1 DEF SafetyInv, CountInv, TakenOut, Touches, Closes, After
  <1>3. /\ p \notin ready /\ ~InTodo(p) /\ box[p] = None /\ InCall(p) /\ lock # g /\ box[g] = None
    BY <1>1 DEF SafetyInv, PortInv, LockInv, InCall, Waiting
  <1>4. /\ at' = [at EXCEPT ![g] = "idle"]
        /\ box' = [box EXCEPT ![p] = IF moved[g] THEN 1 ELSE 0]
        /\ UNCHANGED <<ptr, countdown, flags, sema, mode, src, moved, heap, out, fault>>
    BY <1>3 DEF FinalizePort, Goto, Blame
  <1> USE <1>1, <1>3, <1>4
  <1>5. /\ \A h \in PoGe : \A s \in Space :
            /\ ToCount(h, s)' <=> ToCount(h, s)
            /\ Closes(h, s)' <=> Closes(h, s) /\ ~(h = g /\ s = p)
    <2> SUFFICES ASSUME NEW h \in PoGe, NEW s \in Space
                 PROVE  /\ ToCount(h, s)' <=> ToCount(h, s)
                        /\ Closes(h, s)' <=> Closes(h, s) /\ ~(h = g /\ s = p)
      OBVIOUS
    <2>1. box'[h] = box[h] /\ src'[h] = src[h]
      BY DEF TypeOK
    <2>2. CASE h = g
      <3>1. at'[g] = "idle"
        BY DEF TypeOK
      <3> QED BY <2>1, <2>2, <3>1 DEF ToCount, SentTo, Closes, Before, After
    <2>3. CASE h # g
      <3>1. at'[h] = at[h]
        BY <2>3 DEF TypeOK
      <3> QED BY <2>1, <2>3, <3>1 DEF ToCount, SentTo, Closes, Before, After
    <2> QED BY <2>2, <2>3
  <1>6. /\ \A h \in PoGe : \A s \in Space : Touches(h, s)' <=> Touches(h, s) /\ ~(h = g /\ s = p)
        /\ \A s \in Space : Counters(s)' = Counters(s) /\ (Held(s)' <=> Held(s) /\ s # p)
    <2>1. ~ToCount(g, p)
      BY AtWork DEF InHandoff, ToCount, Before
    <2> QED BY <1>2, <1>5, <2>1 DEF Touches, Counters, Held
  <1>7. TodoInv' /\ RefCount' /\ \A x : InTodo(x)' <=> InTodo(x)
    BY ThreadFrame
  <1>8. FaultInv' /\ LockInv' /\ CellInv' /\ StageInv' /\ MoveInv' /\ OutInv'
    BY <1>6, <1>7 DEF SafetyInv, FaultInv, LockInv, CellInv, StageInv, MoveInv, OutInv, TypeOK,
                      InHandoff
  <1>9. PortInv'
    BY <1>6, <1>7 DEF SafetyInv, PortInv, TypeOK, InCall, Waiting
  <1>10. CountInv' /\ ArmInv'
    BY <1>5, <1>6 DEF SafetyInv, CountInv, ArmInv, TypeOK
  <1>11. \A s \in Space : TakenOut(s)' <=> TakenOut(s) /\ s # p
    BY <1>2 DEF TakenOut, TypeOK, Touches, Closes, After
  <1>12. DatumInv'
    BY <1>2, <1>6, <1>7, <1>11 DEF SafetyInv, DatumInv, SentTo, TypeOK, InCall, Waiting
  <1>13. ContentInv'
    BY <1>6, <1>7, <1>11 DEF SafetyInv, ContentInv, TypeOK
  <1> QED BY <1>7, <1>8, <1>9, <1>10, <1>12, <1>13 DEF SafetyInv

-----------------------------------------------------------------------------
(* Calls: entering, timing out, returning *)

LEMMA RecvPutSafe ==
    ASSUME TypeOK, SafetyInv, NEW p \in PoPu, RecvPut(p), UNCHANGED protoVars
    PROVE  SafetyInv'
  <1> USE Kinds DEF protoVars
  <1>1. /\ at[p] \in {"recv", "recv2"} /\ box[p] \in {0, 1} /\ lock # p
        /\ p \notin ready /\ ~InTodo(p) /\ ~Held(p)
        /\ box[p] = 0 => heap[p] # None
        /\ box[p] = 1 /\ ~IsCopy => heap[p] = None
    BY DEF RecvPut, SafetyInv, PortInv, LockInv, DatumInv, SentTo, TypeOK
  <1>2. /\ at' = [at EXCEPT ![p] = "idle"] /\ box' = [box EXCEPT ![p] = None]
        /\ heap' = [heap EXCEPT ![p] = None]
        /\ UNCHANGED <<ptr, countdown, flags, sema, mode, src, moved, out>>
    BY DEF RecvPut
  <1> USE <1>1, <1>2
  <1>3. SameHands /\ \A s \in Space : TakenOut(s)' <=> TakenOut(s)
    BY DEF SameHands, ToCount, SentTo, Closes, TakenOut, Before, After, TypeOK
  <1>4. /\ TodoInv' /\ RefCount' /\ \A x : InTodo(x)' <=> InTodo(x)
        /\ \A s \in Space : Counters(s)' = Counters(s) /\ (Held(s)' <=> Held(s))
        /\ \A h \in PoGe : \A s \in Space :
              (Touches(h, s)' <=> Touches(h, s)) /\ (Closes(h, s)' <=> Closes(h, s))
    BY <1>3, HandsKept, ThreadFrame DEF SameHands
  <1>5. /\ LockInv' /\ CellInv' /\ CountInv' /\ ArmInv' /\ StageInv' /\ MoveInv' /\ OutInv'
        /\ FaultInv'
    <2>1. FaultInv'
      <3>1. fault' \subseteq fault \cup {"redrop"}
        BY DEF RecvPut, Blame
      <3>2. fault' # fault => ~IsCopy /\ PutTimeoutPorts # {}
        BY DEF RecvPut, Blame
      <3> QED BY <3>1, <3>2 DEF SafetyInv, FaultInv
    <2> QED BY <1>4, <2>1
            DEF SafetyInv, LockInv, CellInv, CountInv, ArmInv, StageInv, MoveInv, OutInv, TypeOK
  <1>6. PortInv'
    BY <1>4 DEF SafetyInv, PortInv, TypeOK, InCall, Waiting
  <1>7. DatumInv'
    BY <1>3, <1>4 DEF SafetyInv, DatumInv, SentTo, TypeOK
  <1>8. ContentInv'
    BY <1>3, <1>4 DEF SafetyInv, ContentInv, TypeOK
  <1> QED BY <1>4, <1>5, <1>6, <1>7, <1>8 DEF SafetyInv

LEMMA PutBeginSafe ==
    ASSUME TypeOK, SafetyInv, NEW p \in PoPu, PutBegin(p)
    PROVE  SafetyInv'
  <1> USE Kinds DEF protoVars
  <1>1. /\ at[p] = "idle" /\ lock # p /\ p \notin ready /\ ~InTodo(p) /\ ~Held(p) /\ box[p] = None
    BY DEF PutBegin, Goto, SafetyInv, PortInv, LockInv, InCall, Waiting
  <1>2. PICK v \in Data : heap' = [heap EXCEPT ![p] = v]
    BY DEF PutBegin
  <1>3. /\ at' = [at EXCEPT ![p] = "enter"] /\ ptr' = [ptr EXCEPT ![p] = p]
        /\ UNCHANGED <<countdown, flags, sema, box, mode, src, moved, out, fault, protoVars>>
    BY DEF PutBegin, Goto
  <1> USE <1>1, <1>2, <1>3
  <1>4. SameHands /\ \A s \in Space : TakenOut(s)' <=> TakenOut(s)
    BY DEF SameHands, ToCount, SentTo, Closes, TakenOut, Before, After, TypeOK
  <1>5. /\ TodoInv' /\ RefCount' /\ \A x : InTodo(x)' <=> InTodo(x)
        /\ \A s \in Space : Counters(s)' = Counters(s) /\ (Held(s)' <=> Held(s))
        /\ \A h \in PoGe : \A s \in Space :
              (Touches(h, s)' <=> Touches(h, s)) /\ (Closes(h, s)' <=> Closes(h, s))
    <2>1. \A m \in Memo : ptr'[m] = ptr[m]
      BY DEF TypeOK
    <2> QED BY <1>4, <2>1, HandsKept, ThreadFrame DEF SameHands
  <1>6. FaultInv' /\ LockInv' /\ CellInv' /\ CountInv' /\ ArmInv' /\ StageInv' /\ MoveInv' /\ OutInv'
    BY <1>5 DEF SafetyInv, FaultInv, LockInv, CellInv, CountInv, ArmInv, StageInv, MoveInv, OutInv, TypeOK
  <1>7. PortInv'
    BY <1>5 DEF SafetyInv, PortInv, TypeOK, InCall, Waiting
  <1>8. DatumInv'
    BY <1>4, <1>5 DEF SafetyInv, DatumInv, SentTo, TypeOK
  <1>9. ContentInv'
    BY <1>4, <1>5 DEF SafetyInv, ContentInv, TypeOK
  <1> QED BY <1>5, <1>6, <1>7, <1>8, <1>9 DEF SafetyInv

LEMMA GetBeginSafe ==
    ASSUME TypeOK, SafetyInv, NEW g \in PoGe, GetBegin(g)
    PROVE  SafetyInv'
  <1> USE Kinds DEF protoVars
  <1>1. /\ at[g] = "idle" /\ lock # g /\ g \notin ready /\ ~InTodo(g) /\ box[g] = None
    BY DEF GetBegin, Goto, SafetyInv, PortInv, LockInv, InCall, Waiting
  <1>2. /\ at' = [at EXCEPT ![g] = "enter"]
        /\ \A h \in PoGe : h # g => mode'[h] = mode[h] /\ out'[h] = out[h]
        /\ UNCHANGED <<ptr, countdown, flags, sema, box, src, moved, heap, fault, protoVars>>
    BY DEF GetBegin, Goto, TypeOK
  <1> USE <1>1, <1>2
  <1>3. SameHands /\ \A s \in Space : TakenOut(s)' <=> TakenOut(s)
    <2>1. /\ \A h \in PoGe : h # g => at'[h] = at[h]
          /\ at[g] \notin Before \cup After \cup {"final"}
          /\ at'[g] \notin Before \cup After \cup {"final"}
      BY DEF Before, After, TypeOK
    <2> QED BY <2>1 DEF SameHands, ToCount, SentTo, Closes, TakenOut
  <1>4. /\ TodoInv' /\ RefCount' /\ \A x : InTodo(x)' <=> InTodo(x)
        /\ \A s \in Space : Counters(s)' = Counters(s) /\ (Held(s)' <=> Held(s))
        /\ \A h \in PoGe : \A s \in Space :
              (Touches(h, s)' <=> Touches(h, s)) /\ (Closes(h, s)' <=> Closes(h, s))
    BY <1>3, HandsKept, ThreadFrame DEF SameHands
  <1>5. FaultInv' /\ LockInv' /\ CellInv' /\ CountInv' /\ ArmInv' /\ StageInv' /\ MoveInv' /\ OutInv'
    BY <1>4 DEF SafetyInv, FaultInv, LockInv, CellInv, CountInv, ArmInv, StageInv, MoveInv, OutInv, TypeOK,
                InHandoff
  <1>6. PortInv'
    BY <1>4 DEF SafetyInv, PortInv, TypeOK, InCall, Waiting
  <1>7. DatumInv'
    BY <1>3, <1>4 DEF SafetyInv, DatumInv, SentTo, TypeOK
  <1>8. ContentInv'
    BY <1>3, <1>4 DEF SafetyInv, ContentInv, TypeOK
  <1> QED BY <1>4, <1>5, <1>6, <1>7, <1>8 DEF SafetyInv

LEMMA EnterSafe ==
    ASSUME TypeOK, SafetyInv, NEW t \in Port, Enter(t)
    PROVE  SafetyInv'
  <1> USE Kinds
  <1>1. /\ at[t] = "enter" /\ t \notin ready /\ ~InTodo(t) /\ box[t] = None
        /\ t \in PoPu => ~Held(t)
    BY DEF Enter, Goto, SafetyInv, PortInv, InCall, Waiting
  <1>2. /\ at' = [at EXCEPT ![t] = "coord"] /\ lock' = t /\ ready' = ready \cup {t}
        /\ UNCHANGED <<ptr, countdown, flags, sema, box, mode, src, moved, heap, out, fault>>
        /\ UNCHANGED <<full, refs, owned, todo, arming, tell>>
    BY DEF Enter, Goto
  <1> USE <1>1, <1>2
  <1>3. SameHands /\ \A s \in Space : TakenOut(s)' <=> TakenOut(s)
    <2>1. /\ \A h \in PoGe : h # t => at'[h] = at[h]
          /\ at[t] \notin Before \cup After \cup {"final"}
          /\ at'[t] \notin Before \cup After \cup {"final"}
      BY DEF Before, After, TypeOK
    <2> QED BY <2>1 DEF SameHands, ToCount, SentTo, Closes, TakenOut
  <1>4. /\ TodoInv' /\ RefCount' /\ \A x : InTodo(x)' <=> InTodo(x)
        /\ \A s \in Space : Counters(s)' = Counters(s) /\ (Held(s)' <=> Held(s))
        /\ \A h \in PoGe : \A s \in Space :
              (Touches(h, s)' <=> Touches(h, s)) /\ (Closes(h, s)' <=> Closes(h, s))
    BY <1>3, HandsKept, ThreadFrame DEF SameHands
  <1>5. FaultInv' /\ LockInv' /\ CellInv' /\ CountInv' /\ ArmInv' /\ StageInv' /\ MoveInv' /\ OutInv'
    BY <1>4 DEF SafetyInv, FaultInv, LockInv, CellInv, CountInv, ArmInv, StageInv, MoveInv, OutInv, TypeOK,
                InHandoff
  <1>6. PortInv'
    BY <1>4 DEF SafetyInv, PortInv, TypeOK, InCall, Waiting
  <1>7. DatumInv'
    BY <1>3, <1>4 DEF SafetyInv, DatumInv, SentTo, TypeOK
  <1>8. ContentInv'
    BY <1>3, <1>4 DEF SafetyInv, ContentInv, TypeOK
  <1> QED BY <1>4, <1>5, <1>6, <1>7, <1>8 DEF SafetyInv

LEMMA TimeOutSafe ==
    ASSUME TypeOK, SafetyInv, NEW t \in Port, TimeOut(t)
    PROVE  SafetyInv'
  <1> USE Kinds
  <1>1. at[t] = "recv" /\ lock # t
    BY DEF TimeOut, Goto, SafetyInv, LockInv
  <1>2. /\ at' = [at EXCEPT ![t] = "revoke"]
        /\ UNCHANGED <<ptr, countdown, flags, sema, box, mode, src, moved, heap, out, fault>>
        /\ UNCHANGED <<lock, ready, full, refs, owned, todo, arming, tell>>
    BY DEF TimeOut, Goto, protoVars
  <1> USE <1>1, <1>2
  <1>3. SameHands /\ \A s \in Space : TakenOut(s)' <=> TakenOut(s)
    <2>1. /\ \A h \in PoGe : h # t => at'[h] = at[h]
          /\ at[t] \notin Before \cup After \cup {"final"}
          /\ at'[t] \notin Before \cup After \cup {"final"}
      BY DEF Before, After, TypeOK
    <2> QED BY <2>1 DEF SameHands, ToCount, SentTo, Closes, TakenOut
  <1>4. /\ TodoInv' /\ RefCount' /\ \A x : InTodo(x)' <=> InTodo(x)
        /\ \A s \in Space : Counters(s)' = Counters(s) /\ (Held(s)' <=> Held(s))
        /\ \A h \in PoGe : \A s \in Space :
              (Touches(h, s)' <=> Touches(h, s)) /\ (Closes(h, s)' <=> Closes(h, s))
    BY <1>3, HandsKept, ThreadFrame DEF SameHands
  <1>5. FaultInv' /\ LockInv' /\ CellInv' /\ CountInv' /\ ArmInv' /\ StageInv' /\ MoveInv' /\ OutInv'
    BY <1>4 DEF SafetyInv, FaultInv, LockInv, CellInv, CountInv, ArmInv, StageInv, MoveInv, OutInv, TypeOK,
                InHandoff
  <1>6. PortInv'
    BY <1>4 DEF SafetyInv, PortInv, TypeOK, InCall, Waiting
  <1>7. DatumInv'
    BY <1>3, <1>4 DEF SafetyInv, DatumInv, SentTo, TypeOK
  <1>8. ContentInv'
    BY <1>3, <1>4 DEF SafetyInv, ContentInv, TypeOK
  <1> QED BY <1>4, <1>5, <1>6, <1>7, <1>8 DEF SafetyInv

LEMMA RevokeSafe ==
    ASSUME TypeOK, SafetyInv, NEW t \in Port, Revoke(t)
    PROVE  SafetyInv'
  <1> USE Kinds
  <1>1. /\ lock = None /\ at[t] = "revoke" /\ InCall(t)
        /\ t \in ready => box[t] = None /\ ~InTodo(t) /\ (t \in PoPu => ~Held(t))
    BY DEF Revoke, Goto, SafetyInv, PortInv, InCall, Waiting
  <1>2. /\ at' = [at EXCEPT ![t] = IF t \in ready THEN "idle" ELSE "recv2"]
        /\ ready' = ready \ {t}
        /\ heap' = IF t \in PoPu /\ t \in ready THEN [heap EXCEPT ![t] = None] ELSE heap
        /\ mode' = IF t \in PoGe /\ t \in ready THEN [mode EXCEPT ![t] = "signal"] ELSE mode
        /\ UNCHANGED <<ptr, countdown, flags, sema, box, src, moved, out, fault>>
        /\ UNCHANGED <<lock, full, refs, owned, todo, arming, tell>>
    BY DEF Revoke, Goto, StillReady
  <1> USE <1>1, <1>2
  <1>3. SameHands /\ \A s \in Space : TakenOut(s)' <=> TakenOut(s)
    <2>1. /\ \A h \in PoGe : h # t => at'[h] = at[h]
          /\ at[t] \notin Before \cup After \cup {"final"}
          /\ at'[t] \notin Before \cup After \cup {"final"}
      BY DEF Before, After, TypeOK
    <2> QED BY <2>1 DEF SameHands, ToCount, SentTo, Closes, TakenOut
  <1>4. /\ TodoInv' /\ RefCount' /\ \A x : InTodo(x)' <=> InTodo(x)
        /\ \A s \in Space : Counters(s)' = Counters(s) /\ (Held(s)' <=> Held(s))
        /\ \A h \in PoGe : \A s \in Space :
              (Touches(h, s)' <=> Touches(h, s)) /\ (Closes(h, s)' <=> Closes(h, s))
    BY <1>3, HandsKept, ThreadFrame DEF SameHands
  <1>5. FaultInv' /\ LockInv' /\ CellInv' /\ CountInv' /\ ArmInv' /\ StageInv' /\ MoveInv' /\ OutInv'
    BY <1>4 DEF SafetyInv, FaultInv, LockInv, CellInv, CountInv, ArmInv, StageInv, MoveInv, OutInv, TypeOK,
                InHandoff
  <1>6. PortInv'
    BY <1>4 DEF SafetyInv, PortInv, TypeOK, InCall, Waiting
  <1>7. DatumInv'
    BY <1>3, <1>4 DEF SafetyInv, DatumInv, SentTo, TypeOK
  <1>8. ContentInv'
    BY <1>3, <1>4 DEF SafetyInv, ContentInv, TypeOK
  <1> QED BY <1>4, <1>5, <1>6, <1>7, <1>8 DEF SafetyInv

-----------------------------------------------------------------------------
(* The coordinator: selecting a rule, dropping the lock *)

\* What a rule that is ready would move is there.
LEMMA ReadyValue ==
    ASSUME TypeOK, SafetyInv, NEW s \in Space, s \in ready, s \in Memo => s \in full
    PROVE  ptr[s] # None /\ Deref(s) \in Data
  <1> USE Kinds
  <1>1. CASE s \in PoPu
    BY <1>1 DEF SafetyInv, DatumInv, SentTo, TypeOK, Deref
  <1>2. CASE s \in Memo
    <2>1. ptr[s] # None /\ ~Held(s)
      BY <1>2 DEF SafetyInv, ContentInv, CellInv
    <2>2. ~TakenOut(s)
      BY <2>1 DEF TakenOut, Held, Touches, Closes, After
    <2>3. heap[ptr[s]] # None
      BY <1>2, <2>1, <2>2 DEF SafetyInv, ContentInv
    <2> QED BY <1>2, <2>1, <2>3 DEF TypeOK, Deref
  <1> QED BY <1>1, <1>2

\* Guards read live values only.
LEMMA GuardsReadLive ==
    ASSUME TypeOK, SafetyInv, Served, NEW r \in RuleId, is_ready(r)
    PROVE  ~ReadsDead(r)
  <1>1. ASSUME NEW a \in Actions(r) PROVE Deref(a.putter) # None
    <2>1. /\ a.putter \in Space /\ a.putter \in ready
          /\ a.putter \in Memo => a.putter \in full
      BY RuleFacts, <1>1 DEF is_ready, guard_ready, guard_full, ActionDef
    <2> QED BY <2>1, ReadyValue, Kinds
  <1>2. ASSUME NEW x \in Rules[r].guard.atoms, x.op = "ValueEq"
        PROVE  Deref(x.a) # None /\ Deref(x.b) # None
    <2>1. {x.a, x.b} \subseteq {a.putter : a \in Actions(r)}
      BY <1>2 DEF Served
    <2> QED BY <2>1, <1>1
  <1> QED BY <1>2 DEF ReadsDead

LEMMA UnlockSafe ==
    ASSUME TypeOK, SafetyInv, Served, Unlock
    PROVE  SafetyInv'
  <1> USE Kinds
  <1>1. lock \in Port /\ at[lock] \in {"coord", "sweep"}
    BY DEF Unlock, SafetyInv, LockInv, TypeOK
  <1>2. /\ at' = [at EXCEPT ![lock] = IF at[lock] = "coord" THEN "recv" ELSE "idle"]
        /\ lock' = None
        /\ UNCHANGED <<ptr, countdown, flags, sema, box, mode, src, moved, heap, out, fault>>
        /\ UNCHANGED <<ready, full, refs, owned, todo, arming, tell>>
    BY GuardsReadLive DEF Unlock, Blame
  <1> USE <1>1, <1>2
  <1>3. SameHands /\ \A s \in Space : TakenOut(s)' <=> TakenOut(s)
    <2>1. /\ \A h \in PoGe : h # lock => at'[h] = at[h]
          /\ at[lock] \notin Before \cup After \cup {"final"}
          /\ at'[lock] \notin Before \cup After \cup {"final"}
      BY DEF Before, After, TypeOK
    <2> QED BY <2>1 DEF SameHands, ToCount, SentTo, Closes, TakenOut
  <1>4. /\ TodoInv' /\ RefCount' /\ \A x : InTodo(x)' <=> InTodo(x)
        /\ \A s \in Space : Counters(s)' = Counters(s) /\ (Held(s)' <=> Held(s))
        /\ \A h \in PoGe : \A s \in Space :
              (Touches(h, s)' <=> Touches(h, s)) /\ (Closes(h, s)' <=> Closes(h, s))
    BY <1>3, HandsKept, ThreadFrame DEF SameHands
  <1>5. FaultInv' /\ LockInv' /\ CellInv' /\ CountInv' /\ ArmInv' /\ StageInv' /\ MoveInv' /\ OutInv'
    BY <1>4 DEF SafetyInv, FaultInv, LockInv, CellInv, CountInv, ArmInv, StageInv, MoveInv, OutInv, TypeOK,
                InHandoff
  <1>6. PortInv'
    BY <1>4 DEF SafetyInv, PortInv, TypeOK, InCall, Waiting
  <1>7. DatumInv'
    BY <1>3, <1>4 DEF SafetyInv, DatumInv, SentTo, TypeOK
  <1>8. ContentInv'
    BY <1>3, <1>4 DEF SafetyInv, ContentInv, TypeOK
  <1> QED BY <1>4, <1>5, <1>6, <1>7, <1>8 DEF SafetyInv

\* Who takes part in a rule, and what becomes of the memory bits.
LEMMA RuleParts ==
    ASSUME TypeOK, Served, NEW r \in RuleId, is_ready(r), NEW acts, acts = Rules[r].actions
    PROVE  /\ \A x : x \in guard_ready(r) <=> \E i \in DOMAIN acts : x \in Part(acts[i])
           /\ \A i \in DOMAIN acts : ServedAction(acts[i]) /\ acts[i] \in ActionDef
           /\ \A i, j \in DOMAIN acts : i # j => Part(acts[i]) \cap Part(acts[j]) = {}
           /\ \A m \in Memo : \A i \in DOMAIN acts :
                 /\ m \in acts[i].getters => m \notin full /\ m \in assign_memory_bits(r)
                 /\ m = acts[i].putter => m \in full /\ m \notin assign_memory_bits(r)
           /\ \A m \in Memo : m \notin guard_ready(r) => (m \in assign_memory_bits(r) <=> m \in full)
  <1>1. /\ Actions(r) = {acts[i] : i \in DOMAIN acts} /\ Actions(r) \subseteq ActionDef
        /\ \A a \in Actions(r) : ServedAction(a) /\ ~SelfPut(a)
    BY RuleFacts DEF Served, ServedAction, Actions
  <1>2. \A i, j \in DOMAIN acts : i # j => Part(acts[i]) \cap Part(acts[j]) = {}
    BY RuleAssumption DEF SynchronousFiring, Part
  <1>3. \A x : x \in guard_ready(r) <=> \E i \in DOMAIN acts : x \in Part(acts[i])
    BY <1>1 DEF guard_ready, Part
  <1>4. /\ guard_full(r) = {a.putter : a \in {b \in Actions(r) : b.putter \in Memo}}
        /\ guard_ready(r) \subseteq ready /\ guard_full(r) \subseteq full
        /\ (guard_ready(r) \cap full) \subseteq guard_full(r)
        /\ assign_vals(r) = {m \in Memo : \E a \in Actions(r) : m \in a.getters}
        /\ assign_mask(r) = assign_vals(r) \cup guard_full(r)
    BY <1>1 DEF is_ready, guard_full, assign_vals, assign_mask, mg, SelfPut
  <1>5. ASSUME NEW a \in Actions(r), NEW b \in Actions(r), b.putter \in a.getters
        PROVE  FALSE
    <2>1. PICK i \in DOMAIN acts, j \in DOMAIN acts : a = acts[i] /\ b = acts[j]
      BY <1>1
    <2>2. b.putter \in Part(acts[i]) \cap Part(acts[j])
      BY <1>5, <2>1 DEF Part
    <2>3. a = b
      BY <1>2, <2>1, <2>2
    <2> QED BY <1>1, <1>5, <2>3 DEF SelfPut
  <1>6. assign_vals(r) \cap guard_full(r) = {}
    BY <1>4, <1>5
  <1>7. assign_memory_bits(r) = (full \cup assign_vals(r)) \ guard_full(r)
    BY <1>4, <1>6 DEF assign_memory_bits
  <1>8. ASSUME NEW m \in Memo, NEW i \in DOMAIN acts
        PROVE  /\ m \in acts[i].getters => m \notin full /\ m \in assign_memory_bits(r)
               /\ m = acts[i].putter => m \in full /\ m \notin assign_memory_bits(r)
    <2>1. acts[i] \in Actions(r)
      BY <1>1
    <2>2. m \in acts[i].getters => m \in assign_vals(r) /\ m \in guard_ready(r)
      BY <1>3, <1>4, <2>1 DEF Part
    <2>3. m = acts[i].putter => m \in guard_full(r)
      BY <1>4, <2>1
    <2> QED BY <1>4, <1>6, <1>7, <2>2, <2>3
  <1>9. \A m \in Memo : m \notin guard_ready(r) => m \notin assign_vals(r) \cup guard_full(r)
    BY <1>4 DEF guard_ready
  <1> QED BY <1>1, <1>2, <1>3, <1>7, <1>8, <1>9

LEMMA SelectRuleSafe ==
    ASSUME TypeOK, SafetyInv, Served, NEW r \in RuleId, SelectRule(r)
    PROVE  SafetyInv'
  <1> USE Kinds
  <1> DEFINE acts == Rules[r].actions
             bits == assign_memory_bits(r)
  <1>1. /\ todo = <<>> /\ todo' = acts /\ full' = bits /\ ready' = ready \ guard_ready(r)
        /\ is_ready(r) /\ guard_ready(r) \subseteq ready
        /\ UNCHANGED <<ptr, countdown, flags, sema, box, at, mode, src, moved, heap, out>>
        /\ UNCHANGED <<lock, refs, owned, arming, tell>>
    BY DEF SelectRule, CanFire, is_ready, subtract_readiness
  <1>2. FaultInv'
    <2>1. \A q \in 1..r : q \in RuleId
      <3>1. RuleId = 1..Len(Rules) /\ Len(Rules) \in Nat
        BY RuleAssumption DEF RuleId
      <3> QED BY <3>1
    <2>2. ~\E q \in 1..r : is_ready(q) /\ ReadsDead(q)
      BY <2>1, GuardsReadLive
    <2> QED BY <2>2 DEF SelectRule, Blame, SafetyInv, FaultInv
  <1>3. /\ \A x : x \in guard_ready(r) <=> \E i \in DOMAIN acts : x \in Part(acts[i])
        /\ \A i \in DOMAIN acts : ServedAction(acts[i])
        /\ \A i, j \in DOMAIN acts : i # j => Part(acts[i]) \cap Part(acts[j]) = {}
        /\ \A m \in Memo : \A i \in DOMAIN acts :
              /\ m \in acts[i].getters => m \notin full /\ m \in bits
              /\ m = acts[i].putter => m \in full /\ m \notin bits
        /\ \A m \in Memo : m \notin guard_ready(r) => (m \in bits <=> m \in full)
    BY <1>1, RuleParts
  <1> HIDE DEF acts, bits
  <1>4. \A x : ~InTodo(x) /\ (InTodo(x)' <=> x \in guard_ready(r))
    BY <1>1, <1>3 DEF InTodo, Part
  <1>5. SameHands /\ \A s \in Space : TakenOut(s)' <=> TakenOut(s)
    BY <1>1 DEF SameHands, ToCount, SentTo, Closes, TakenOut
  <1>6. /\ \A s \in Space : Counters(s)' = Counters(s) /\ (Held(s)' <=> Held(s))
        /\ \A h \in PoGe : \A s \in Space :
              (Touches(h, s)' <=> Touches(h, s)) /\ (Closes(h, s)' <=> Closes(h, s))
    BY <1>5, HandsKept DEF SameHands
  <1>7. TodoInv'
    BY <1>1, <1>3 DEF TodoInv, ServedAction, Part
  <1>8. RefCount'
    BY <1>1 DEF SafetyInv, RefCount
  <1>9. LockInv' /\ StageInv' /\ MoveInv' /\ OutInv'
    BY <1>1 DEF SafetyInv, LockInv, StageInv, MoveInv, OutInv
  <1>10. CountInv' /\ ArmInv'
    BY <1>1, <1>6 DEF SafetyInv, CountInv, ArmInv, TypeOK
  <1>11. PortInv'
    BY <1>1, <1>4, <1>6 DEF SafetyInv, PortInv, InCall
  <1>12. CellInv'
    BY <1>1, <1>4, <1>6 DEF SafetyInv, CellInv
  <1>13. DatumInv'
    BY <1>1, <1>4, <1>5, <1>6 DEF SafetyInv, DatumInv, SentTo
  <1>14. ContentInv'
    <2>1. ASSUME NEW m \in Memo, m \in guard_ready(r)
          PROVE  /\ m \in ready /\ ~Held(m)
                 /\ m \in bits => ptr[m] = None
                 /\ m \notin bits => ptr[m] # None
      <3>1. m \in ready /\ ~Held(m)
        BY <1>1, <2>1 DEF SafetyInv, CellInv
      <3>2. PICK i \in DOMAIN acts : m = acts[i].putter \/ m \in acts[i].getters
        BY <1>3, <2>1 DEF Part
      <3>3. m \in full <=> m \notin bits
        BY <1>3, <3>2
      <3> QED BY <3>1, <3>3 DEF SafetyInv, ContentInv
    <2>2. ASSUME NEW m \in Memo
          PROVE  /\ m \in full' => (ptr'[m] # None <=> m \in ready')
                 /\ m \notin full' => (ptr'[m] = None <=> m \in ready')
                 /\ Held(m)' => m \notin full'
      <3>1. CASE m \in guard_ready(r)
        BY <1>1, <1>6, <2>1, <3>1
      <3>2. CASE m \notin guard_ready(r)
        BY <1>1, <1>3, <1>6, <3>2 DEF SafetyInv, ContentInv
      <3> QED BY <3>1, <3>2
    <2>3. ASSUME NEW m \in Memo, NEW i \in DOMAIN todo'
          PROVE  /\ m \in todo'[i].getters => m \in full'
                 /\ m = todo'[i].putter => m \notin full'
      BY <1>1, <1>3
    <2>4. ASSUME NEW m \in Memo
          PROVE  /\ ptr'[m] # None => (heap'[ptr'[m]] = None <=> TakenOut(m)')
                 /\ ~IsCopy => \A n \in Memo : ptr'[m] # None /\ ptr'[n] = ptr'[m] => n = m
      BY <1>1, <1>5 DEF SafetyInv, ContentInv
    <2> QED BY <2>2, <2>3, <2>4 DEF ContentInv
  <1> QED BY <1>2, <1>7, <1>8, <1>9, <1>10, <1>11, <1>12, <1>13, <1>14 DEF SafetyInv

-----------------------------------------------------------------------------
(* Performing an action *)

\* The one that lets go of an address knows from its count who else is there.
LEMMA SoleSharer ==
    ASSUME NEW ptrs, NEW counts, NEW own, Counted(ptrs, counts, own),
           NEW m \in Memo, ptrs[m] \in StorePtr
    PROVE  /\ counts[ptrs[m]] \in Nat \ {0} /\ ptrs[m] \in own
           /\ counts[ptrs[m]] = 1 <=> \A n \in Memo : ptrs[n] = ptrs[m] => n = m
  <1> DEFINE S == Sharers(ptrs, ptrs[m])
  <1>1. /\ IsFiniteSet(S) /\ Cardinality(S) \in Nat /\ counts[ptrs[m]] = Cardinality(S)
        /\ ptrs[m] \in own <=> counts[ptrs[m]] > 0
    BY SharersFinite DEF Counted
  <1>2. m \in S
    BY DEF Sharers
  <1>3. S = {m} <=> \A n \in Memo : ptrs[n] = ptrs[m] => n = m
    BY DEF Sharers
  <1> HIDE DEF S
  <1>4. Cardinality(S) # 0 /\ (Cardinality(S) = 1 <=> S = {m})
    BY <1>1, <1>2, FS_EmptySet, FS_Singleton
  <1> QED BY <1>1, <1>3, <1>4

\* The locations of the next action, and those of the rest.
LEMMA NextAction ==
    ASSUME TypeOK, SafetyInv, todo # <<>>, todo' = Tail(todo), NEW a, a = Head(todo)
    PROVE  /\ a \in ActionDef /\ ServedAction(a) /\ TodoInv'
           /\ \A x : InTodo(x) <=> x \in Part(a) \/ InTodo(x)'
           /\ \A x : x \in Part(a) => ~InTodo(x)'
           /\ \A t \in Port : t \in Part(a) =>
                 /\ t \notin ready /\ box[t] = None /\ InCall(t)
                 /\ t \in PoPu => ~Held(t) /\ ptr[t] = t /\ heap[t] \in Data
           /\ \A m \in Memo : m \in Part(a) =>
                 /\ m \notin ready /\ ~Held(m)
                 /\ m \in a.getters => m \in full /\ ptr[m] = None
                 /\ m = a.putter => m \notin full /\ ptr[m] \in StorePtr /\ heap[ptr[m]] \in Data
           /\ \A m \in Memo : \A i \in DOMAIN todo' :
                 /\ m \in todo'[i].getters => m \in full
                 /\ m = todo'[i].putter => m \notin full
  <1> USE Kinds
  <1>1. /\ todo \in Seq(ActionDef) /\ Len(todo) \in Nat \ {0} /\ a = todo[1] /\ a \in ActionDef
        /\ 1 \in DOMAIN todo
        /\ \A i \in DOMAIN todo' : i \in Nat \ {0} /\ i + 1 \in DOMAIN todo /\ todo'[i] = todo[i + 1]
        /\ \A i \in DOMAIN todo : i # 1 => i - 1 \in DOMAIN todo' /\ todo[i] = todo'[i - 1]
    BY DEF TypeOK
  <1>2. \A x : InTodo(x) => x \in Part(a) \/ InTodo(x)'
    <2> SUFFICES ASSUME NEW x, NEW i \in DOMAIN todo, x \in {todo[i].putter} \cup todo[i].getters
                 PROVE  x \in Part(a) \/ InTodo(x)'
      BY DEF InTodo
    <2>1. CASE i = 1
      BY <1>1, <2>1 DEF Part
    <2>2. CASE i # 1
      BY <1>1, <2>2 DEF InTodo
    <2> QED BY <2>1, <2>2
  <1>3. \A x : x \in Part(a) \/ InTodo(x)' => InTodo(x)
    BY <1>1 DEF InTodo, Part
  <1>4. \A i \in DOMAIN todo' : i + 1 # 1
    BY <1>1
  <1>5. /\ \A i \in DOMAIN todo : ServedAction(todo[i])
        /\ \A i, j \in DOMAIN todo : i # j => Part(todo[i]) \cap Part(todo[j]) = {}
    BY DEF SafetyInv, TodoInv
  <1>6. /\ \A x : x \in Part(a) => ~InTodo(x)'
        /\ ServedAction(a) /\ TodoInv'
    <2>1. ASSUME NEW x, x \in Part(a), InTodo(x)'
          PROVE  FALSE
      <3>1. PICK i \in DOMAIN todo' : x \in Part(todo'[i])
        BY <2>1 DEF InTodo, Part
      <3>2. i + 1 \in DOMAIN todo /\ todo'[i] = todo[i + 1] /\ i + 1 # 1
        BY <1>1, <1>4
      <3> QED BY <1>1, <1>5, <2>1, <3>1, <3>2
    <2>2. ASSUME NEW i \in DOMAIN todo', NEW j \in DOMAIN todo', i # j
          PROVE  Part(todo'[i]) \cap Part(todo'[j]) = {}
      <3>1. i + 1 \in DOMAIN todo /\ todo'[i] = todo[i + 1]
        BY <1>1
      <3>2. j + 1 \in DOMAIN todo /\ todo'[j] = todo[j + 1]
        BY <1>1
      <3>3. i + 1 # j + 1
        BY <1>1, <2>2
      <3> QED BY <1>5, <3>1, <3>2, <3>3
    <2>3. \A i \in DOMAIN todo' : ServedAction(todo'[i])
      BY <1>1, <1>5
    <2>4. TodoInv'
      BY <2>2, <2>3 DEF TodoInv, ServedAction, Part
    <2> QED BY <1>1, <1>5, <2>1, <2>4
  <1>7. ASSUME NEW t \in Port, t \in Part(a)
        PROVE  /\ t \notin ready /\ box[t] = None /\ InCall(t)
               /\ t \in PoPu => ~Held(t) /\ ptr[t] = t /\ heap[t] \in Data
    <2>1. InTodo(t)
      BY <1>3, <1>7
    <2>2. /\ t \notin ready /\ box[t] = None /\ InCall(t)
          /\ t \in PoPu => ~Held(t)
      BY <2>1 DEF SafetyInv, PortInv
    <2> QED BY <2>1, <2>2 DEF SafetyInv, DatumInv, SentTo, TypeOK
  <1>8. ASSUME NEW m \in Memo, m \in Part(a)
        PROVE  /\ m \notin ready /\ ~Held(m)
               /\ m \in a.getters => m \in full /\ ptr[m] = None
               /\ m = a.putter => m \notin full /\ ptr[m] \in StorePtr /\ heap[ptr[m]] \in Data
    <2>1. InTodo(m)
      BY <1>3, <1>8
    <2>2. m \notin ready /\ ~Held(m)
      BY <2>1 DEF SafetyInv, CellInv
    <2>3. m \in a.getters => m \in full /\ ptr[m] = None
      BY <1>1, <2>2 DEF SafetyInv, ContentInv
    <2>4. m = a.putter => m \notin full /\ ptr[m] \in StorePtr
      BY <1>1, <2>2 DEF SafetyInv, ContentInv, TypeOK
    <2>5. ~TakenOut(m)
      BY <2>2 DEF TakenOut, Held, Touches, Closes, After
    <2>6. m = a.putter => heap[ptr[m]] \in Data
      BY <2>4, <2>5 DEF SafetyInv, ContentInv, TypeOK
    <2> QED BY <2>2, <2>3, <2>4, <2>6
  <1>9. \A m \in Memo : \A i \in DOMAIN todo' :
            /\ m \in todo'[i].getters => m \in full
            /\ m = todo'[i].putter => m \notin full
    BY <1>1 DEF SafetyInv, ContentInv
  <1> QED BY <1>1, <1>2, <1>3, <1>6, <1>7, <1>8, <1>9

\* The coordinator fills empty cells with the datum of a putter.
LEMMA CellsFilled ==
    ASSUME TypeOK, SafetyInv, todo # <<>>, todo' = Tail(todo), NEW a, a = Head(todo),
           a.putter \in PoPu, NEW cloned \in BOOLEAN,
           IF mg(a) = {} THEN NoCells
           ELSE \E dest \in StorePtr : FillCells(a.putter, mg(a), dest, cloned),
           UNCHANGED <<at, src, moved, full>>, \A m \in Memo : Held(m)' <=> Held(m)
    PROVE  /\ FillFaults(a.putter, mg(a)) = {}
           /\ RefCount' /\ CellInv' /\ ContentInv'
           /\ ready' = ready \cup mg(a)
           /\ \A q \in PoPu : ptr'[q] = ptr[q] /\ (q # a.putter => heap'[q] = heap[q])
           /\ heap'[a.putter] = IF mg(a) = {} \/ cloned \/ IsCopy THEN heap[a.putter] ELSE None
  <1> USE Kinds
  <1> DEFINE p == a.putter
             cells == mg(a)
  <1>1. /\ a \in ActionDef /\ ServedAction(a) /\ cells \subseteq Memo
        /\ ptr[p] = p /\ heap[p] \in Data /\ p \in Part(a)
        /\ \A x : InTodo(x) <=> x \in Part(a) \/ InTodo(x)'
        /\ \A x : x \in Part(a) => ~InTodo(x)'
        /\ \A m \in Memo : m \in Part(a) <=> m \in cells
        /\ \A m \in cells : m \notin ready /\ ~Held(m) /\ m \in full /\ ptr[m] = None
        /\ \A m \in Memo : \A i \in DOMAIN todo' :
              /\ m \in todo'[i].getters => m \in full
              /\ m = todo'[i].putter => m \notin full
    BY NextAction DEF Part, mg
  <1>2. Counted(ptr, refs, owned)
    BY DEF SafetyInv, RefCount, Counted, Sharers
  <1>3. FillFaults(p, cells) = {}
    <2>1. \A m \in cells : ptr[m] = None
      BY <1>1
    <2>2. \A dest \in StorePtr \ owned : refs[dest] = 0
      BY <1>2 DEF Counted, TypeOK
    <2>3. Deref(p) # None
      BY <1>1 DEF Deref
    <2> QED BY <2>1, <2>2, <2>3 DEF FillFaults, Blame
  <1>4. \A m \in Memo : TakenOut(m)' <=> TakenOut(m)
    BY DEF TakenOut
  <1>5. CASE cells = {}
    <2>1. UNCHANGED <<owned, refs, heap, ptr, ready>>
      BY <1>5 DEF NoCells
    <2>2. CellInv'
      BY <1>1, <1>5, <2>1 DEF SafetyInv, CellInv
    <2>3. ContentInv'
      BY <1>1, <1>4, <1>5, <2>1 DEF SafetyInv, ContentInv
    <2>4. RefCount'
      BY <2>1 DEF SafetyInv, RefCount
    <2> QED BY <1>3, <1>5, <2>1, <2>2, <2>3, <2>4
  <1>6. CASE cells # {}
    <2>1. PICK dest \in StorePtr : FillCells(p, cells, dest, cloned)
      BY <1>6
    <2>2. Counted(ptr', refs', owned')
      BY <1>1, <1>2, <1>6, <2>1, FillCounted
    <2>3. RefCount'
      BY <2>2 DEF RefCount, Counted, Sharers
    <2>4. /\ dest \notin owned /\ ready' = ready \cup cells
          /\ heap' = [heap EXCEPT ![dest] = heap[p],
                                  ![p] = IF cloned \/ IsCopy THEN heap[p] ELSE None]
          /\ ptr' = [s \in Space |-> IF s \in cells THEN dest ELSE ptr[s]]
      BY <1>1, <2>1 DEF FillCells, Deref, LeftBehind
    <2>5. \A n \in Memo : ptr[n] # dest
      BY <1>2, <2>4, SoleSharer
    <2>6. /\ \A q \in PoPu : ptr'[q] = ptr[q] /\ (q # p => heap'[q] = heap[q])
          /\ heap'[p] = IF cloned \/ IsCopy THEN heap[p] ELSE None
          /\ heap'[dest] \in Data
      BY <1>1, <2>4 DEF TypeOK
    <2>7. /\ \A m \in cells : ptr'[m] = dest
          /\ \A m \in Memo : m \notin cells => ptr'[m] = ptr[m]
          /\ \A m \in Memo : m \notin cells /\ ptr[m] # None => heap'[ptr[m]] = heap[ptr[m]]
      BY <1>1, <2>4, <2>5 DEF TypeOK
    <2>8. CellInv'
      BY <1>1, <2>4 DEF SafetyInv, CellInv
    <2>9. ASSUME NEW m \in Memo
          PROVE  /\ m \in full' => (ptr'[m] # None <=> m \in ready')
                 /\ m \notin full' => (ptr'[m] = None <=> m \in ready')
                 /\ Held(m)' => m \notin full'
                 /\ ptr'[m] # None => (heap'[ptr'[m]] = None <=> TakenOut(m)')
      <3>1. CASE m \in cells
        <4>1. ~TakenOut(m)'
          BY <1>1, <1>4, <3>1 DEF TakenOut, Held, Touches, Closes, After
        <4>2. ptr'[m] # None /\ heap'[ptr'[m]] # None
          BY <2>6, <2>7, <3>1
        <4>3. m \in ready' /\ m \in full' /\ ~Held(m)'
          BY <1>1, <2>4, <3>1
        <4> QED BY <4>1, <4>2, <4>3
      <3>2. CASE m \notin cells
        <4>1. ptr'[m] = ptr[m] /\ (m \in ready' <=> m \in ready)
              /\ (ptr[m] # None => heap'[ptr[m]] = heap[ptr[m]])
          BY <2>4, <2>7, <3>2
        <4> QED BY <1>4, <4>1 DEF SafetyInv, ContentInv
      <3> QED BY <3>1, <3>2
    <2>10. ASSUME ~IsCopy, NEW m \in Memo, NEW n \in Memo, ptr'[m] # None, ptr'[n] = ptr'[m]
           PROVE  n = m
      <3>1. CASE m \in cells
        BY <1>1, <2>5, <2>7, <2>10, <3>1 DEF ServedAction
      <3>2. CASE m \notin cells
        BY <2>5, <2>7, <2>10, <3>2 DEF SafetyInv, ContentInv
      <3> QED BY <3>1, <3>2
    <2>11. ContentInv'
      BY <1>1, <2>9, <2>10 DEF ContentInv
    <2> QED BY <1>3, <1>6, <2>3, <2>4, <2>6, <2>8, <2>11
  <1> QED BY <1>5, <1>6

\* The getters of a firing are to be told of its space, which was in nobody's hands.
LEMMA HandoffStarted ==
    ASSUME TypeOK, SafetyInv, AllTold, NEW a \in ActionDef, ServedAction(a), pg(a) # {},
           StartHandoff(a.putter, pg(a)), ~Held(a.putter),
           UNCHANGED <<box, countdown, at, src, moved>>
    PROVE  /\ CountInv' /\ ArmInv'
           /\ \A s \in Space : Held(s)' <=> Held(s) \/ s = a.putter
           /\ \A s \in Space : TakenOut(s)' <=> TakenOut(s)
           /\ \A h \in PoGe : \A s \in Space :
                 SentTo(h, s)' <=> SentTo(h, s) \/ (h \in pg(a) /\ s = a.putter)
           /\ arming' = a.putter
           /\ \A h \in PoGe : tell'[h] = IF h \in pg(a) THEN a.putter ELSE None
  <1> USE Kinds
  <1> DEFINE p == a.putter
             getters == pg(a)
  <1>1. /\ p \in Space /\ getters \subseteq PoGe /\ getters # {}
        /\ arming = None /\ arming' = p /\ \A h \in PoGe : tell[h] = None
        /\ \A h \in PoGe : tell'[h] = IF h \in getters THEN p ELSE None
    BY ActionFacts DEF StartHandoff, AllTold
  <1>2. \A h \in PoGe : ~Touches(h, p) /\ ~ToCount(h, p) /\ ~Closes(h, p)
    BY DEF Held, Touches
  <1>3. (p \in PoPu \/ ~IsCopy) => \A g, h \in getters : g = h
    BY DEF ServedAction
  <1> HIDE DEF p, getters
  <1>4. \A h \in PoGe : \A s \in Space :
            SentTo(h, s)' <=> SentTo(h, s) \/ (h \in getters /\ s = p)
    BY <1>1 DEF SentTo
  <1>5. \A h \in PoGe : \A s \in Space :
            /\ ToCount(h, s)' <=> ToCount(h, s) \/ (h \in getters /\ s = p)
            /\ Closes(h, s)' <=> Closes(h, s)
            /\ Touches(h, s)' <=> Touches(h, s) \/ (h \in getters /\ s = p)
    BY <1>4 DEF ToCount, Closes, Touches
  <1>6. \A s \in Space : Held(s)' <=> Held(s) \/ s = p
    BY <1>1, <1>5 DEF Held
  <1>7. \A s \in Space : s # p => Counters(s)' = Counters(s)
    BY <1>1, <1>5 DEF Counters
  <1>8. CountInv'
    <2>1. ASSUME NEW s \in Space
          PROVE  /\ Counters(s)' # {} /\ s # arming' => countdown'[s] = Cardinality(Counters(s)')
                 /\ \A g, h \in PoGe : Closes(g, s)' /\ Touches(h, s)' => g = h
                 /\ s \in PoPu \/ ~IsCopy =>
                       \A g, h \in PoGe : Touches(g, s)' /\ Touches(h, s)' => g = h
      <3>1. CASE s = p
        BY <1>1, <1>2, <1>3, <1>5, <3>1
      <3>2. CASE s # p
        BY <1>1, <1>5, <1>7, <3>2 DEF SafetyInv, CountInv
      <3> QED BY <3>1, <3>2
    <2> QED BY <2>1 DEF CountInv
  <1>9. ArmInv'
    BY <1>1, <1>2, <1>5 DEF ArmInv
  <1>10. \A s \in Space : TakenOut(s)' <=> TakenOut(s)
    BY DEF TakenOut
  <1> QED BY <1>1, <1>4, <1>6, <1>8, <1>9, <1>10 DEF p, getters

\* What performing an action leaves alone.
ThreadsStay == UNCHANGED <<countdown, flags, sema, at, mode, src, moved, out, lock, full>>

LEMMA PortToCellsSafe ==
    ASSUME TypeOK, SafetyInv, todo # <<>>, todo' = Tail(todo), ThreadsStay,
           NEW a, a = Head(todo), PortToCells(a)
    PROVE  SafetyInv'
  <1> USE Kinds DEF ThreadsStay
  <1> DEFINE p == a.putter
  <1>1. /\ p \in PoPu /\ UNCHANGED <<arming, tell>>
        /\ box' = [box EXCEPT ![p] = IF mg(a) = {} THEN 0 ELSE 1]
    BY DEF PortToCells
  <1>2. /\ TodoInv' /\ p \in Part(a) /\ ~InTodo(p)'
        /\ p \notin ready /\ box[p] = None /\ InCall(p) /\ ~Held(p)
        /\ ptr[p] = p /\ heap[p] \in Data
        /\ \A t \in Port : t # p => (InTodo(t)' <=> InTodo(t))
    <2>1. \A t \in Port : t # p => t \notin Part(a)
      BY NextAction DEF PortToCells, Part, pg, ActionDef
    <2> QED BY <1>1, <2>1, NextAction DEF Part
  <1>3. SameHands /\ \A s \in Space : TakenOut(s)' <=> TakenOut(s)
    BY <1>1 DEF SameHands, ToCount, SentTo, Closes, TakenOut, TypeOK
  <1>4. /\ \A s \in Space : Counters(s)' = Counters(s) /\ (Held(s)' <=> Held(s))
        /\ \A h \in PoGe : \A s \in Space :
              (Touches(h, s)' <=> Touches(h, s)) /\ (Closes(h, s)' <=> Closes(h, s))
    BY <1>3, HandsKept DEF SameHands
  <1>5. /\ FillFaults(p, mg(a)) = {} /\ RefCount' /\ CellInv' /\ ContentInv'
        /\ ready' = ready \cup mg(a)
        /\ \A q \in PoPu : ptr'[q] = ptr[q] /\ (q # p => heap'[q] = heap[q])
        /\ heap'[p] = IF mg(a) = {} \/ IsCopy THEN heap[p] ELSE None
    <2>1. IF mg(a) = {} THEN NoCells ELSE \E dest \in StorePtr : FillCells(p, mg(a), dest, FALSE)
      BY DEF PortToCells
    <2> QED BY <1>1, <1>4, <2>1, CellsFilled
  <1>6. FaultInv'
    BY <1>2, <1>5 DEF PortToCells, SendFaults, Blame, SafetyInv, FaultInv
  <1>7. LockInv' /\ StageInv' /\ OutInv'
    BY DEF SafetyInv, LockInv, StageInv, OutInv
  <1>8. MoveInv'
    BY <1>1 DEF SafetyInv, MoveInv, TypeOK
  <1>9. CountInv' /\ ArmInv'
    BY <1>1, <1>4 DEF SafetyInv, CountInv, ArmInv, TypeOK
  <1>10. \A t \in Port : t \in ready' <=> t \in ready
    BY <1>5 DEF mg
  <1>11. PortInv'
    BY <1>1, <1>2, <1>4, <1>10 DEF SafetyInv, PortInv, InCall, TypeOK
  <1>12. DatumInv'
    <2>1. ASSUME NEW q \in PoPu, q # p
          PROVE  box'[q] = box[q] /\ heap'[q] = heap[q] /\ ptr'[q] = ptr[q]
                 /\ (q \in ready' <=> q \in ready) /\ (InTodo(q)' <=> InTodo(q))
      BY <1>1, <1>2, <1>5, <1>10, <2>1 DEF TypeOK
    <2>2. /\ box'[p] \in {0, 1} /\ (box'[p] = 0 <=> mg(a) = {}) /\ at'[p] # "enter"
          /\ p \notin ready' /\ ~InTodo(p)' /\ ~Held(p)' /\ ptr'[p] = p
      BY <1>1, <1>2, <1>4, <1>5, <1>10 DEF TypeOK, InCall, Waiting
    <2>3. \A g \in PoGe : box'[g] = box[g]
      BY <1>1 DEF TypeOK
    <2>4. ASSUME NEW q \in PoPu
          PROVE  /\ box'[q] \in {0, 1, None}
                 /\ at'[q] = "enter" \/ q \in ready' \/ InTodo(q)' => ptr'[q] = q /\ heap'[q] # None
                 /\ box'[q] = 0 => heap'[q] # None
                 /\ box'[q] = 1 /\ ~IsCopy => heap'[q] = None
                 /\ Held(q)' => (heap'[q] = None <=> TakenOut(q)')
                 /\ \A g \in PoGe :
                       SentTo(g, q)' \/ (src'[g] = q /\ at'[g] \in {"stamp", "copy", "ask", "woncount"})
                       => ptr'[q] = q
      <3>1. CASE q = p
        BY <1>2, <1>5, <2>2, <3>1
      <3>2. CASE q # p
        BY <1>1, <1>3, <1>4, <2>1, <2>3, <3>2 DEF SafetyInv, DatumInv, SentTo
      <3> QED BY <3>1, <3>2
    <2> QED BY <2>4 DEF DatumInv, SentTo
  <1> QED BY <1>2, <1>5, <1>6, <1>7, <1>8, <1>9, <1>11, <1>12 DEF SafetyInv

LEMMA PortToPortsSafe ==
    ASSUME TypeOK, SafetyInv, AllTold, todo # <<>>, todo' = Tail(todo), ThreadsStay,
           NEW a, a = Head(todo), PortToPorts(a)
    PROVE  SafetyInv'
  <1> USE Kinds DEF ThreadsStay
  <1> DEFINE p == a.putter
  <1>1. /\ p \in PoPu /\ pg(a) # {} /\ StartHandoff(p, pg(a)) /\ box' = box
    BY DEF PortToPorts
  <1>2. /\ TodoInv' /\ p \in Part(a) /\ ~InTodo(p)' /\ a \in ActionDef /\ ServedAction(a)
        /\ p \notin ready /\ box[p] = None /\ InCall(p) /\ ~Held(p)
        /\ ptr[p] = p /\ heap[p] \in Data /\ pg(a) \subseteq PoGe
        /\ \A t \in pg(a) : t \notin ready /\ box[t] = None /\ InCall(t) /\ ~InTodo(t)'
        /\ \A t \in Port : t \notin Part(a) => (InTodo(t)' <=> InTodo(t))
        /\ \A t \in Port : t \in Part(a) <=> t = p \/ t \in pg(a)
    <2>1. pg(a) \subseteq PoGe /\ \A t \in Port : t \in Part(a) <=> t = p \/ t \in pg(a)
      BY <1>1, NextAction DEF Part, pg, ActionDef
    <2>2. p \in Port /\ p \in Part(a) /\ \A t \in pg(a) : t \in Port /\ t \in Part(a)
      BY <1>1, <2>1
    <2>3. /\ a \in ActionDef /\ ServedAction(a) /\ TodoInv'
          /\ \A x : InTodo(x) <=> x \in Part(a) \/ InTodo(x)'
          /\ \A x : x \in Part(a) => ~InTodo(x)'
          /\ \A t \in Port : t \in Part(a) =>
                /\ t \notin ready /\ box[t] = None /\ InCall(t)
                /\ t \in PoPu => ~Held(t) /\ ptr[t] = t /\ heap[t] \in Data
      BY NextAction
    <2> QED BY <1>1, <2>1, <2>2, <2>3
  <1>3. /\ CountInv' /\ ArmInv'
        /\ \A s \in Space : Held(s)' <=> Held(s) \/ s = p
        /\ \A s \in Space : TakenOut(s)' <=> TakenOut(s)
        /\ \A h \in PoGe : \A s \in Space :
              SentTo(h, s)' <=> SentTo(h, s) \/ (h \in pg(a) /\ s = p)
        /\ arming' = p /\ \A h \in PoGe : tell'[h] = IF h \in pg(a) THEN p ELSE None
    BY <1>1, <1>2, HandoffStarted
  <1>4. /\ FillFaults(p, mg(a)) = {} /\ RefCount' /\ CellInv' /\ ContentInv'
        /\ ready' = ready \cup mg(a)
        /\ \A q \in PoPu : ptr'[q] = ptr[q] /\ heap'[q] = heap[q]
    <2>1. IF mg(a) = {} THEN NoCells ELSE \E dest \in StorePtr : FillCells(p, mg(a), dest, TRUE)
      BY DEF PortToPorts
    <2>2. \A m \in Memo : Held(m)' <=> Held(m)
      BY <1>1, <1>3
    <2> QED BY <1>1, <2>1, <2>2, CellsFilled
  <1>5. FaultInv'
    BY <1>2, <1>4 DEF PortToPorts, SafetyInv, FaultInv
  <1>6. LockInv' /\ StageInv' /\ OutInv'
    BY DEF SafetyInv, LockInv, StageInv, OutInv
  <1>7. MoveInv'
    BY <1>1, <1>3 DEF SafetyInv, MoveInv
  <1>8. \A t \in Port : t \in ready' <=> t \in ready
    BY <1>4 DEF mg
  <1>9. PortInv'
    <2>1. ASSUME NEW t \in Port
          PROVE  /\ \/ t \in ready' \/ InTodo(t)' \/ box'[t] # None
                    \/ t \in PoGe /\ tell'[t] # None
                    \/ t \in PoPu /\ Held(t)'
                    <=> InCall(t)'
                 /\ t \in ready' => at'[t] # "recv2" /\ ~InTodo(t)' /\ box'[t] = None
                 /\ InTodo(t)' => box'[t] = None
                 /\ t \in PoGe /\ tell'[t] # None
                       => t \notin ready' /\ ~InTodo(t)' /\ box'[t] = None
                 /\ t \in PoPu /\ Held(t)' => t \notin ready' /\ ~InTodo(t)' /\ box'[t] = None
      <3>1. (InCall(t)' <=> InCall(t)) /\ box'[t] = box[t] /\ (t \in ready' <=> t \in ready)
        BY <1>1, <1>8 DEF InCall
      <3>2. t \in PoGe => tell[t] = None /\ (tell'[t] # None <=> t \in pg(a))
        BY <1>1, <1>3 DEF AllTold
      <3>3. CASE t = p
        BY <1>1, <1>2, <1>3, <3>1, <3>2, <3>3
      <3>4. CASE t \in pg(a)
        BY <1>1, <1>2, <3>1, <3>2, <3>4
      <3>5. CASE t \notin Part(a)
        BY <1>1, <1>2, <1>3, <3>1, <3>2, <3>5 DEF SafetyInv, PortInv
      <3> QED BY <1>2, <3>3, <3>4, <3>5
    <2> QED BY <2>1 DEF PortInv
  <1>10. DatumInv'
    <2>1. ASSUME NEW q \in PoPu
          PROVE  q \in ready' \/ InTodo(q)' => q \in ready \/ InTodo(q)
      <3>1. q \notin pg(a)
        BY <1>2
      <3>2. InTodo(q)' => q \notin Part(a)
        BY <1>2, <3>1
      <3> QED BY <1>1, <1>2, <1>8, <3>1, <3>2
    <2>2. Held(p)' => (heap'[p] = None <=> TakenOut(p)')
      <3>1. ~TakenOut(p)
        BY <1>2 DEF TakenOut, Held, Touches, Closes, After
      <3>2. ~TakenOut(p)' /\ heap'[p] # None
        BY <1>1, <1>2, <1>3, <1>4, <3>1
      <3> QED BY <3>2
    <2>3. ASSUME NEW q \in PoPu, q # p
          PROVE  Held(q)' => (heap'[q] = None <=> TakenOut(q)')
      BY <1>3, <1>4, <2>3 DEF SafetyInv, DatumInv
    <2>4. ASSUME NEW q \in PoPu
          PROVE  /\ box'[q] \in {0, 1, None}
                 /\ at'[q] = "enter" \/ q \in ready' \/ InTodo(q)' => ptr'[q] = q /\ heap'[q] # None
                 /\ box'[q] = 0 => heap'[q] # None
                 /\ box'[q] = 1 /\ ~IsCopy => heap'[q] = None
      BY <1>1, <1>4, <2>1 DEF SafetyInv, DatumInv
    <2>5. ASSUME NEW q \in PoPu, NEW g \in PoGe,
                 SentTo(g, q)' \/ (src'[g] = q /\ at'[g] \in {"stamp", "copy", "ask", "woncount"})
          PROVE  ptr'[q] = q
      <3>1. SentTo(g, q) \/ (src[g] = q /\ at[g] \in {"stamp", "copy", "ask", "woncount"}) \/ q = p
        BY <1>3, <2>5
      <3> QED BY <1>2, <1>4, <3>1 DEF SafetyInv, DatumInv
    <2> QED BY <2>2, <2>3, <2>4, <2>5 DEF DatumInv
  <1> QED BY <1>2, <1>3, <1>4, <1>5, <1>6, <1>7, <1>9, <1>10 DEF SafetyInv

\* A cell that is full shares its address with its getters.
LEMMA CellsShared ==
    ASSUME TypeOK, SafetyInv, NEW a \in ActionDef, ServedAction(a), a.putter \in Memo,
           ptr[a.putter] \in StorePtr, \A m \in mg(a) : ptr[m] = None
    PROVE  /\ ShareFaults(a.putter, mg(a)) = {}
           /\ Counted(ShareWith(a.putter, mg(a)), Shared(a.putter, mg(a)), owned)
           /\ \A s \in Space : ShareWith(a.putter, mg(a))[s]
                                  = IF s \in mg(a) THEN ptr[a.putter] ELSE ptr[s]
           /\ a.putter \notin mg(a)
           /\ mg(a) = {} => Shared(a.putter, mg(a)) = refs
  <1> USE Kinds
  <1>1. Counted(ptr, refs, owned)
    BY DEF SafetyInv, RefCount, Counted, Sharers
  <1>2. refs[ptr[a.putter]] # 0
    BY <1>1, SoleSharer
  <1>3. ShareFaults(a.putter, mg(a)) = {}
    BY <1>2 DEF ShareFaults, Blame
  <1>4. ~SelfPut(a) /\ a.putter \notin mg(a)
    BY DEF ServedAction, SelfPut, mg
  <1>5. Counted(ShareWith(a.putter, mg(a)), Shared(a.putter, mg(a)), owned)
    BY <1>1, <1>3, <1>4, ShareCounted
  <1>6. mg(a) = {} => Shared(a.putter, mg(a)) = refs
    <2>1. Cardinality({}) = 0
      BY FS_EmptySet
    <2> QED BY <2>1 DEF Shared, TypeOK
  <1> QED BY <1>3, <1>4, <1>5, <1>6 DEF ShareWith

LEMMA CellToPortsSafe ==
    ASSUME TypeOK, SafetyInv, AllTold, todo # <<>>, todo' = Tail(todo), ThreadsStay,
           NEW a, a = Head(todo), CellToPorts(a)
    PROVE  SafetyInv'
  <1> USE Kinds DEF ThreadsStay
  <1> DEFINE p == a.putter
             cells == mg(a)
  <1>1. /\ a \in ActionDef /\ ServedAction(a) /\ TodoInv' /\ p \in Memo /\ p \in Part(a)
        /\ \A x : InTodo(x) <=> x \in Part(a) \/ InTodo(x)'
        /\ \A x : x \in Part(a) => ~InTodo(x)'
        /\ \A t \in Port : t \in Part(a) => t \notin ready /\ box[t] = None /\ InCall(t)
        /\ \A m \in Memo : m \in Part(a) =>
              /\ m \notin ready /\ ~Held(m)
              /\ m \in a.getters => m \in full /\ ptr[m] = None
              /\ m = p => m \notin full /\ ptr[m] \in StorePtr /\ heap[ptr[m]] \in Data
        /\ \A m \in Memo : \A i \in DOMAIN todo' :
              /\ m \in todo'[i].getters => m \in full
              /\ m = todo'[i].putter => m \notin full
    BY NextAction DEF CellToPorts, Part
  <1>2. /\ pg(a) \subseteq PoGe /\ cells \subseteq Memo
        /\ \A t \in Port : t \in Part(a) <=> t \in pg(a)
        /\ \A m \in Memo : m \in Part(a) <=> m = p \/ m \in cells
        /\ \A m \in cells : m \in a.getters
    BY <1>1 DEF Part, pg, mg, ActionDef
  <1>3. /\ ShareFaults(p, cells) = {}
        /\ Counted(ShareWith(p, cells), Shared(p, cells), owned)
        /\ \A s \in Space : ShareWith(p, cells)[s] = IF s \in cells THEN ptr[p] ELSE ptr[s]
        /\ p \notin cells
        /\ cells = {} => Shared(p, cells) = refs
    BY <1>1, <1>2, CellsShared
  <1>4. /\ ptr' = ShareWith(p, cells) /\ refs' = Shared(p, cells) /\ owned' = owned /\ heap' = heap
        /\ ready' = ready \cup cells /\ pg(a) # {} /\ box' = box
        /\ StartHandoff(p, pg(a))
    BY <1>3 DEF CellToPorts
  <1>6. /\ CountInv' /\ ArmInv'
        /\ \A s \in Space : Held(s)' <=> Held(s) \/ s = p
        /\ \A s \in Space : TakenOut(s)' <=> TakenOut(s)
        /\ \A h \in PoGe : \A s \in Space :
              SentTo(h, s)' <=> SentTo(h, s) \/ (h \in pg(a) /\ s = p)
        /\ arming' = p /\ \A h \in PoGe : tell'[h] = IF h \in pg(a) THEN p ELSE None
    BY <1>1, <1>4, HandoffStarted
  <1>7. FaultInv'
    BY <1>1, <1>2, <1>3 DEF CellToPorts, SafetyInv, FaultInv
  <1>8. RefCount'
    BY <1>3, <1>4 DEF RefCount, Counted, Sharers
  <1>9. LockInv' /\ StageInv' /\ OutInv'
    BY DEF SafetyInv, LockInv, StageInv, OutInv
  <1> HIDE DEF p, cells
  <1>10. \A t \in Port : t \in ready' <=> t \in ready
    BY <1>2, <1>4
  <1>11. PortInv'
    <2>1. ASSUME NEW t \in Port
          PROVE  /\ \/ t \in ready' \/ InTodo(t)' \/ box'[t] # None
                    \/ t \in PoGe /\ tell'[t] # None
                    \/ t \in PoPu /\ Held(t)'
                    <=> InCall(t)'
                 /\ t \in ready' => at'[t] # "recv2" /\ ~InTodo(t)' /\ box'[t] = None
                 /\ InTodo(t)' => box'[t] = None
                 /\ t \in PoGe /\ tell'[t] # None
                       => t \notin ready' /\ ~InTodo(t)' /\ box'[t] = None
                 /\ t \in PoPu /\ Held(t)' => t \notin ready' /\ ~InTodo(t)' /\ box'[t] = None
      <3>1. (InCall(t)' <=> InCall(t)) /\ box'[t] = box[t] /\ (t \in ready' <=> t \in ready)
        BY <1>4, <1>10 DEF InCall
      <3>2. t \in PoGe => tell[t] = None /\ (tell'[t] # None <=> t \in pg(a))
        BY <1>1, <1>6 DEF AllTold
      <3>3. CASE t \in pg(a)
        BY <1>1, <1>2, <3>1, <3>2, <3>3
      <3>4. CASE t \notin pg(a)
        <4>1. (InTodo(t)' <=> InTodo(t)) /\ (t \in PoPu => (Held(t)' <=> Held(t)))
          BY <1>1, <1>2, <1>6, <3>4
        <4> QED BY <3>1, <3>2, <3>4, <4>1 DEF SafetyInv, PortInv
      <3> QED BY <3>3, <3>4
    <2> QED BY <2>1 DEF PortInv
  <1>12. CellInv'
    BY <1>1, <1>2, <1>4, <1>6 DEF SafetyInv, CellInv
  <1>13. DatumInv'
    <2>1. ASSUME NEW q \in PoPu
          PROVE  /\ box'[q] = box[q] /\ ptr'[q] = ptr[q] /\ (InTodo(q)' <=> InTodo(q))
                 /\ (q \in ready' <=> q \in ready) /\ (Held(q)' <=> Held(q))
                 /\ (TakenOut(q)' <=> TakenOut(q))
                 /\ \A g \in PoGe : SentTo(g, q)' <=> SentTo(g, q)
      BY <1>1, <1>2, <1>3, <1>4, <1>6, <1>10
    <2> QED BY <1>4, <2>1 DEF SafetyInv, DatumInv
  <1>14. ContentInv'
    <2>1. \A m \in Memo : ptr'[m] = IF m \in cells THEN ptr[p] ELSE ptr[m]
      BY <1>3, <1>4
    <2>2. \A m \in Memo : m \in Part(a) => ~TakenOut(m)'
      <3>1. \A m \in Memo : m \in Part(a) => ~TakenOut(m)
        BY <1>1 DEF TakenOut, Held, Touches, Closes, After
      <3> QED BY <1>6, <3>1
    <2>3. ASSUME NEW m \in Memo
          PROVE  /\ m \in full' => (ptr'[m] # None <=> m \in ready')
                 /\ m \notin full' => (ptr'[m] = None <=> m \in ready')
                 /\ Held(m)' => m \notin full'
                 /\ ptr'[m] # None => (heap'[ptr'[m]] = None <=> TakenOut(m)')
      <3>1. ptr[p] \in StorePtr /\ heap'[ptr[p]] \in Data /\ p \notin full /\ p \notin ready'
        BY <1>1, <1>3, <1>4 DEF p
      <3>2. CASE m = p
        BY <1>1, <1>3, <2>1, <2>2, <3>1, <3>2
      <3>3. CASE m \in cells
        <4>1. m \in ready' /\ m \in full' /\ ~Held(m)' /\ ~TakenOut(m)'
          BY <1>1, <1>2, <1>3, <1>4, <1>6, <2>2, <3>3
        <4> QED BY <2>1, <3>1, <3>3, <4>1
      <3>4. CASE m # p /\ m \notin cells
        <4>1. /\ ptr'[m] = ptr[m] /\ (m \in ready' <=> m \in ready) /\ (Held(m)' <=> Held(m))
              /\ TakenOut(m)' <=> TakenOut(m)
          BY <1>4, <1>6, <2>1, <3>4
        <4> QED BY <1>4, <4>1 DEF SafetyInv, ContentInv
      <3> QED BY <3>2, <3>3, <3>4
    <2>4. ASSUME ~IsCopy, NEW m \in Memo, NEW n \in Memo, ptr'[m] # None, ptr'[n] = ptr'[m]
          PROVE  n = m
      <3>1. cells = {}
        BY <1>1, <1>4, <2>4 DEF ServedAction, p, cells
      <3> QED BY <2>1, <2>4, <3>1 DEF SafetyInv, ContentInv
    <2> QED BY <1>1, <2>3, <2>4 DEF ContentInv
  <1>15. MoveInv'
    BY <1>4, <1>6 DEF SafetyInv, MoveInv
  <1> QED BY <1>1, <1>6, <1>7, <1>8, <1>9, <1>11, <1>12, <1>13, <1>14, <1>15 DEF SafetyInv

\* Emptying a cell whose value is where its bits and its getters say it is.
LEMMA EmptiesCell ==
    ASSUME TypeOK, NEW m \in Memo, NEW ptrs, PtrOK(ptrs),
           NEW counts \in [StorePtr -> Nat], Counted(ptrs, counts, owned),
           NEW rdy, m \notin rdy, NEW dropped \in BOOLEAN, ptrs[m] \in StorePtr,
           ~IsCopy => (heap[ptrs[m]] # None <=> dropped),
           make_empty(m, ptrs, counts, rdy)
    PROVE  /\ EmptyFaults(m, ptrs, counts, rdy, dropped) = {}
           /\ RefCount'
           /\ ready' = rdy \cup {m} /\ ptr'[m] = None
           /\ \A s \in Space : s # m => ptr'[s] = ptrs[s]
           /\ \A p \in PoPu : heap'[p] = heap[p]
           /\ \A n \in Memo : n # m /\ ptrs[n] # None => heap'[ptrs[n]] = heap[ptrs[n]]
  <1> USE Kinds
  <1> DEFINE a == ptrs[m]
  <1>1. /\ counts[a] \in Nat \ {0} /\ a \in owned
        /\ counts[a] = 1 <=> \A n \in Memo : ptrs[n] = a => n = m
    BY SoleSharer
  <1>2. EmptyFaults(m, ptrs, counts, rdy, dropped) = {}
    BY <1>1 DEF EmptyFaults, Blame
  <1>3. RefCount'
    <2>1. Counted(ptr', refs', owned')
      BY <1>2, EmptyCounted
    <2> QED BY <2>1 DEF RefCount, Counted, Sharers
  <1>4. /\ ready' = rdy \cup {m} /\ ptr' = [ptrs EXCEPT ![m] = None]
        /\ heap' = IF counts[a] = 1 THEN [heap EXCEPT ![a] = None] ELSE heap
    BY DEF make_empty
  <1>5. ptrs \in [Space -> Addr \cup {None}] /\ \A n \in Memo : ptrs[n] \in StorePtr \cup {None}
    BY DEF PtrOK
  <1>6. ptr'[m] = None /\ \A s \in Space : s # m => ptr'[s] = ptrs[s]
    BY <1>4, <1>5
  <1>7. \A p \in PoPu : heap'[p] = heap[p]
    BY <1>4 DEF TypeOK
  <1>8. \A n \in Memo : n # m /\ ptrs[n] # None => heap'[ptrs[n]] = heap[ptrs[n]]
    BY <1>1, <1>4, <1>5 DEF TypeOK
  <1> QED BY <1>2, <1>3, <1>4, <1>6, <1>7, <1>8

LEMMA CellToCellsSafe ==
    ASSUME TypeOK, SafetyInv, todo # <<>>, todo' = Tail(todo), ThreadsStay,
           NEW a, a = Head(todo), CellToCells(a)
    PROVE  SafetyInv'
  <1> USE Kinds DEF ThreadsStay
  <1> DEFINE p == a.putter
             cells == mg(a)
             ptrs == ShareWith(p, cells)
             counts == Shared(p, cells)
             rdy == ready \cup (cells \ {p})
  <1>1. /\ a \in ActionDef /\ ServedAction(a) /\ TodoInv' /\ p \in Memo /\ p \in Part(a)
        /\ \A x : InTodo(x) <=> x \in Part(a) \/ InTodo(x)'
        /\ \A x : x \in Part(a) => ~InTodo(x)'
        /\ \A m \in Memo : m \in Part(a) =>
              /\ m \notin ready /\ ~Held(m)
              /\ m \in a.getters => m \in full /\ ptr[m] = None
              /\ m = p => m \notin full /\ ptr[m] \in StorePtr /\ heap[ptr[m]] \in Data
        /\ \A m \in Memo : \A i \in DOMAIN todo' :
              /\ m \in todo'[i].getters => m \in full
              /\ m = todo'[i].putter => m \notin full
    BY NextAction DEF CellToCells, Part
  <1>2. /\ cells \subseteq Memo
        /\ \A t \in Port : t \notin Part(a)
        /\ \A m \in Memo : m \in Part(a) <=> m = p \/ m \in cells
        /\ \A m \in cells : m \in a.getters
    BY <1>1 DEF Part, pg, mg, ActionDef, CellToCells
  <1>3. /\ ShareFaults(p, cells) = {}
        /\ Counted(ptrs, counts, owned)
        /\ \A s \in Space : ptrs[s] = IF s \in cells THEN ptr[p] ELSE ptr[s]
        /\ p \notin cells
    BY <1>1, <1>2, CellsShared
  <1>4. PtrOK(ptrs) /\ counts \in [StorePtr -> Nat]
    BY <1>1, TypeShare
  <1>5. /\ make_empty(p, ptrs, counts, rdy) /\ UNCHANGED <<box, arming, tell>>
        /\ fault' = fault \cup ShareFaults(p, cells) \cup EmptyFaults(p, ptrs, counts, rdy, TRUE)
    BY <1>1 DEF CellToCells, ServedAction
  <1>6. p \notin rdy /\ ptrs[p] = ptr[p]
    BY <1>1, <1>2, <1>3
  <1> HIDE DEF ptrs, counts, rdy
  <1>7. /\ EmptyFaults(p, ptrs, counts, rdy, TRUE) = {} /\ RefCount'
        /\ ready' = rdy \cup {p} /\ ptr'[p] = None
        /\ \A s \in Space : s # p => ptr'[s] = ptrs[s]
        /\ \A q \in PoPu : heap'[q] = heap[q]
        /\ \A n \in Memo : n # p /\ ptrs[n] # None => heap'[ptrs[n]] = heap[ptrs[n]]
    <2> DEFINE dropped == TRUE
    <2>1. p \in Memo /\ ptrs[p] \in StorePtr /\ heap[ptrs[p]] # None
      BY <1>1, <1>6
    <2>2. dropped \in BOOLEAN /\ (heap[ptrs[p]] # None <=> dropped)
      BY <2>1
    <2> HIDE DEF p, dropped
    <2>3. /\ EmptyFaults(p, ptrs, counts, rdy, dropped) = {} /\ RefCount'
          /\ ready' = rdy \cup {p} /\ ptr'[p] = None
          /\ \A s \in Space : s # p => ptr'[s] = ptrs[s]
          /\ \A q \in PoPu : heap'[q] = heap[q]
          /\ \A n \in Memo : n # p /\ ptrs[n] # None => heap'[ptrs[n]] = heap[ptrs[n]]
      BY <1>3, <1>4, <1>5, <1>6, <2>1, <2>2, EmptiesCell
    <2> QED BY <2>3 DEF dropped
  <1>8. ready' = ready \cup cells \cup {p}
    BY <1>7 DEF rdy
  <1>9. SameHands /\ \A s \in Space : TakenOut(s)' <=> TakenOut(s)
    BY <1>5 DEF SameHands, ToCount, SentTo, Closes, TakenOut
  <1>10. /\ \A s \in Space : Counters(s)' = Counters(s) /\ (Held(s)' <=> Held(s))
         /\ \A h \in PoGe : \A s \in Space :
               (Touches(h, s)' <=> Touches(h, s)) /\ (Closes(h, s)' <=> Closes(h, s))
    BY <1>9, HandsKept DEF SameHands
  <1>11. FaultInv'
    BY <1>3, <1>5, <1>7 DEF SafetyInv, FaultInv
  <1>12. LockInv' /\ StageInv' /\ OutInv' /\ MoveInv'
    BY <1>5 DEF SafetyInv, LockInv, StageInv, OutInv, MoveInv
  <1>13. CountInv' /\ ArmInv'
    BY <1>5, <1>10 DEF SafetyInv, CountInv, ArmInv, TypeOK
  <1> HIDE DEF p, cells
  <1>14. \A t \in Port : (t \in ready' <=> t \in ready) /\ (InTodo(t)' <=> InTodo(t))
    BY <1>1, <1>2, <1>8
  <1>15. PortInv'
    BY <1>5, <1>10, <1>14 DEF SafetyInv, PortInv, InCall
  <1>16. CellInv'
    BY <1>1, <1>2, <1>8, <1>10 DEF SafetyInv, CellInv
  <1>17. DatumInv'
    <2>1. ASSUME NEW q \in PoPu
          PROVE  ptr'[q] = ptr[q]
      BY <1>1, <1>2, <1>3, <1>7
    <2> QED BY <1>5, <1>7, <1>9, <1>10, <1>14, <2>1 DEF SafetyInv, DatumInv, SentTo
  <1>18. ContentInv'
    <2>1. \A m \in Memo : ptr'[m] = IF m = p THEN None ELSE IF m \in cells THEN ptr[p] ELSE ptr[m]
      BY <1>3, <1>7
    <2>2. \A m \in Memo : m # p /\ ptr'[m] # None => heap'[ptr'[m]] = heap[ptr'[m]]
      BY <1>7
    <2>3. ASSUME NEW m \in Memo
          PROVE  /\ m \in full' => (ptr'[m] # None <=> m \in ready')
                 /\ m \notin full' => (ptr'[m] = None <=> m \in ready')
                 /\ Held(m)' => m \notin full'
                 /\ ptr'[m] # None => (heap'[ptr'[m]] = None <=> TakenOut(m)')
      <3>1. CASE m = p
        BY <1>1, <1>8, <2>1, <3>1 DEF p
      <3>2. CASE m \in cells
        <4>1. ~Held(m) /\ m \in full /\ m # p
          BY <1>1, <1>2, <1>3, <3>2
        <4>2. ~TakenOut(m)
          BY <4>1 DEF TakenOut, Held, Touches, Closes, After
        <4>3. ptr'[m] # None /\ heap'[ptr'[m]] # None
          BY <1>1, <2>1, <2>2, <3>2, <4>1 DEF p
        <4> QED BY <1>8, <1>9, <1>10, <3>2, <4>1, <4>2, <4>3
      <3>3. CASE m # p /\ m \notin cells
        <4>1. /\ ptr'[m] = ptr[m] /\ (m \in ready' <=> m \in ready)
              /\ ptr[m] # None => heap'[ptr[m]] = heap[ptr[m]]
          BY <1>8, <2>1, <2>2, <3>3
        <4> QED BY <1>9, <1>10, <4>1 DEF SafetyInv, ContentInv
      <3> QED BY <3>1, <3>2, <3>3
    <2>4. ASSUME ~IsCopy, NEW m \in Memo, NEW n \in Memo, ptr'[m] # None, ptr'[n] = ptr'[m]
          PROVE  n = m
      <3>1. \A k, l \in cells : k = l
        BY <1>1, <2>4 DEF ServedAction, cells
      <3>2. \A k \in Memo : ptr[k] = ptr[p] => k = p
        BY <1>1, <2>4 DEF SafetyInv, ContentInv
      <3> QED BY <2>1, <2>4, <3>1, <3>2 DEF SafetyInv, ContentInv
    <2> QED BY <1>1, <2>3, <2>4 DEF ContentInv
  <1> QED BY <1>1, <1>7, <1>11, <1>12, <1>13, <1>15, <1>16, <1>17, <1>18 DEF SafetyInv

-----------------------------------------------------------------------------
(* What follows an action: the stores, then a message to each getter *)

\* Without Copy a space that getters are sent to is not shared.
LEMMA NotDisabled ==
    ASSUME TypeOK, SafetyInv, ~IsCopy, NEW s \in Space, Held(s)
    PROVE  ~disable_move(s)
  <1> USE Kinds
  <1>1. SUFFICES ASSUME s \in Memo PROVE ptr[s] \in StorePtr /\ refs[ptr[s]] = 1
    BY DEF disable_move
  <1>2. s \notin ready /\ s \notin full
    BY <1>1 DEF SafetyInv, CellInv, ContentInv
  <1>3. ptr[s] \in StorePtr
    BY <1>1, <1>2 DEF SafetyInv, ContentInv, TypeOK
  <1>4. \A n \in Memo : ptr[n] = ptr[s] => n = s
    BY <1>1, <1>3 DEF SafetyInv, ContentInv
  <1>5. Counted(ptr, refs, owned)
    BY DEF SafetyInv, RefCount, Counted, Sharers
  <1> QED BY <1>1, <1>3, <1>4, <1>5, SoleSharer

LEMMA ArmSafe ==
    ASSUME TypeOK, SafetyInv, Arm
    PROVE  SafetyInv'
  <1> USE Kinds
  <1> DEFINE s == arming
  <1>1. /\ s \in Space /\ arming' = None
        /\ countdown' = [countdown EXCEPT ![s] = po_ge_len(s)]
        /\ flags' = [flags EXCEPT ![s] = reset(s)]
        /\ UNCHANGED <<ptr, sema, box, at, mode, src, moved, heap, out, fault>>
        /\ UNCHANGED <<lock, ready, full, refs, owned, todo, tell>>
    BY DEF Arm, TypeOK
  <1>2. SameHands /\ \A t \in Space : TakenOut(t)' <=> TakenOut(t)
    BY <1>1 DEF SameHands, ToCount, SentTo, Closes, TakenOut
  <1>3. /\ TodoInv' /\ RefCount' /\ \A x : InTodo(x)' <=> InTodo(x)
        /\ \A t \in Space : Counters(t)' = Counters(t) /\ (Held(t)' <=> Held(t))
        /\ \A h \in PoGe : \A t \in Space :
              (Touches(h, t)' <=> Touches(h, t)) /\ (Closes(h, t)' <=> Closes(h, t))
    BY <1>1, <1>2, HandsKept, ThreadFrame DEF SameHands
  <1>4. FaultInv' /\ LockInv' /\ CellInv' /\ StageInv' /\ ArmInv' /\ OutInv'
    BY <1>1, <1>3 DEF SafetyInv, FaultInv, LockInv, CellInv, StageInv, ArmInv, OutInv
  <1>5. PortInv'
    BY <1>1, <1>3 DEF SafetyInv, PortInv, InCall
  <1>6. CountInv'
    <2>1. Counters(s) = {g \in PoGe : tell[g] = s}
      BY <1>1 DEF SafetyInv, ArmInv, Counters, Touches, ToCount, SentTo
    <2>2. countdown'[s] = Cardinality(Counters(s))
      BY <1>1, <2>1 DEF po_ge_len, TypeOK
    <2>3. \A t \in Space : t # s => countdown'[t] = countdown[t]
      BY <1>1 DEF TypeOK
    <2> QED BY <1>3, <2>2, <2>3 DEF SafetyInv, CountInv
  <1>7. MoveInv'
    <2> SUFFICES ASSUME ~IsCopy, NEW g \in PoGe
                 PROVE  /\ tell[g] # None => flags'[tell[g]] = {DISABLED}
                        /\ box[g] # None => flags'[box[g]] = {DISABLED}
                        /\ at[g] \in {"ask", "count", "sigask"} => flags'[src[g]] = {DISABLED}
      BY <1>1 DEF SafetyInv, MoveInv
    <2>1. \A t \in Space : t # s => flags'[t] = flags[t]
      BY <1>1 DEF TypeOK
    <2>2. tell[g] = s => flags'[s] = {DISABLED}
      <3>1. tell[g] = s => Held(s)
        BY <1>1 DEF Held, Touches, ToCount, SentTo
      <3> QED BY <1>1, <3>1, NotDisabled DEF reset, TypeOK
    <2>3. box[g] # s
      <3>1. box[g] = s => tell[g] = s
        BY <1>1 DEF SafetyInv, ArmInv, Touches, ToCount, SentTo
      <3> QED BY <1>1, <3>1 DEF SafetyInv, PortInv
    <2>4. at[g] \in {"ask", "count", "sigask"} => src[g] \in Space /\ src[g] # s
      BY AtWork DEF InHandoff
    <2>5. tell[g] \in Space \cup {None} /\ box[g] \in Space \cup {None}
      BY DEF TypeOK
    <2> QED BY <2>1, <2>2, <2>3, <2>4, <2>5 DEF SafetyInv, MoveInv
  <1>8. DatumInv'
    BY <1>1, <1>2, <1>3 DEF SafetyInv, DatumInv, SentTo
  <1>9. ContentInv'
    BY <1>1, <1>2, <1>3 DEF SafetyInv, ContentInv
  <1> QED BY <1>3, <1>4, <1>5, <1>6, <1>7, <1>8, <1>9 DEF SafetyInv

LEMMA TellSafe ==
    ASSUME TypeOK, SafetyInv, NEW g \in PoGe, Tell(g)
    PROVE  SafetyInv'
  <1> USE Kinds
  <1>1. /\ tell[g] \in Space /\ arming = None
        /\ g \notin ready /\ ~InTodo(g) /\ box[g] = None /\ InCall(g)
    BY DEF Tell, Stored, TypeOK, SafetyInv, PortInv
  <1>2. /\ box' = [box EXCEPT ![g] = tell[g]] /\ tell' = [tell EXCEPT ![g] = None]
        /\ UNCHANGED <<ptr, countdown, flags, sema, at, mode, src, moved, heap, out, fault>>
        /\ UNCHANGED <<lock, ready, full, refs, owned, todo, arming>>
    BY <1>1 DEF Tell, putter_id, SendFaults, Blame
  <1>3. /\ box'[g] = tell[g] /\ tell'[g] = None
        /\ \A t \in Port : t # g => box'[t] = box[t]
        /\ \A h \in PoGe : h # g => tell'[h] = tell[h]
    BY <1>2 DEF TypeOK
  <1>4. \A h \in PoGe : \A t \in Space : SentTo(h, t)' <=> SentTo(h, t)
    BY <1>1, <1>3 DEF SentTo
  <1>5. SameHands /\ \A t \in Space : TakenOut(t)' <=> TakenOut(t)
    BY <1>2, <1>4 DEF SameHands, ToCount, Closes, TakenOut
  <1>6. /\ TodoInv' /\ RefCount' /\ \A x : InTodo(x)' <=> InTodo(x)
        /\ \A t \in Space : Counters(t)' = Counters(t) /\ (Held(t)' <=> Held(t))
        /\ \A h \in PoGe : \A t \in Space :
              (Touches(h, t)' <=> Touches(h, t)) /\ (Closes(h, t)' <=> Closes(h, t))
    BY <1>2, <1>5, HandsKept, ThreadFrame DEF SameHands
  <1>7. FaultInv' /\ LockInv' /\ CellInv' /\ StageInv' /\ ArmInv' /\ CountInv' /\ OutInv'
    BY <1>1, <1>2, <1>6 DEF SafetyInv, FaultInv, LockInv, CellInv, StageInv, ArmInv, CountInv, OutInv
  <1>8. PortInv'
    BY <1>1, <1>2, <1>3, <1>6 DEF SafetyInv, PortInv, InCall
  <1>9. MoveInv'
    BY <1>1, <1>2, <1>3 DEF SafetyInv, MoveInv
  <1>10. DatumInv'
    BY <1>2, <1>3, <1>4, <1>5, <1>6 DEF SafetyInv, DatumInv
  <1>11. ContentInv'
    BY <1>2, <1>5, <1>6 DEF SafetyInv, ContentInv
  <1> QED BY <1>6, <1>7, <1>8, <1>9, <1>10, <1>11 DEF SafetyInv

LEMMA FinalizeCellSafe ==
    ASSUME TypeOK, SafetyInv, NEW g \in PoGe, FinalizeCell(g)
    PROVE  SafetyInv'
  <1> USE Kinds
  <1> DEFINE m == src[g]
             dropped == drop_if_last_ref(g)
  <1>1. /\ at[g] = "final" /\ m \in Memo /\ lock = None /\ Closes(g, m) /\ Touches(g, m) /\ Held(m)
    BY DEF FinalizeCell, Goto, Closes, Touches, Held, After
  <1>2. /\ \A h \in PoGe : Touches(h, m) => h = g
        /\ TakenOut(m) <=> ~IsCopy /\ moved[g]
    BY <1>1 DEF SafetyInv, CountInv, TakenOut, Touches, Closes, After
  <1>3. /\ m \notin ready /\ ~InTodo(m) /\ m \notin full /\ ptr[m] \in StorePtr
        /\ ~IsCopy => (heap[ptr[m]] # None <=> dropped) /\ dropped \in BOOLEAN
    BY <1>1, <1>2 DEF SafetyInv, CellInv, ContentInv, TypeOK, drop_if_last_ref
  <1>4. Counted(ptr, refs, owned) /\ PtrOK(ptr) /\ refs \in [StorePtr -> Nat] /\ dropped \in BOOLEAN
    BY DEF SafetyInv, RefCount, Counted, Sharers, PtrOK, TypeOK, drop_if_last_ref
  <1>5. /\ make_empty(m, ptr, refs, ready) /\ lock' = g /\ at' = [at EXCEPT ![g] = "sweep"]
        /\ fault' = fault \cup EmptyFaults(m, ptr, refs, ready, dropped)
        /\ UNCHANGED <<countdown, flags, sema, box, mode, src, moved, out, full, todo, arming, tell>>
    BY DEF FinalizeCell, Goto
  <1> HIDE DEF dropped, m
  <1>6. /\ EmptyFaults(m, ptr, refs, ready, dropped) = {} /\ RefCount'
        /\ ready' = ready \cup {m} /\ ptr'[m] = None
        /\ \A s \in Space : s # m => ptr'[s] = ptr[s]
        /\ \A p \in PoPu : heap'[p] = heap[p]
        /\ \A n \in Memo : n # m /\ ptr[n] # None => heap'[ptr[n]] = heap[ptr[n]]
    BY <1>1, <1>3, <1>4, <1>5, EmptiesCell
  <1>7. \A h \in PoGe : \A s \in Space :
            /\ ToCount(h, s)' <=> ToCount(h, s)
            /\ Closes(h, s)' <=> Closes(h, s) /\ ~(h = g /\ s = m)
    BY <1>1, <1>5 DEF ToCount, SentTo, Closes, Before, After, TypeOK, m
  <1>8. /\ \A h \in PoGe : \A s \in Space : Touches(h, s)' <=> Touches(h, s) /\ ~(h = g /\ s = m)
        /\ \A s \in Space : Counters(s)' = Counters(s) /\ (Held(s)' <=> Held(s) /\ s # m)
    <2>1. ~ToCount(g, m)
      BY <1>1, AtWork DEF InHandoff, ToCount, Before
    <2> QED BY <1>2, <1>7, <2>1 DEF Touches, Counters, Held
  <1>9. \A s \in Space : TakenOut(s)' <=> TakenOut(s) /\ s # m
    BY <1>1, <1>2, <1>5 DEF TakenOut, TypeOK, Touches, Closes, After, m
  <1>10. TodoInv' /\ \A x : InTodo(x)' <=> InTodo(x)
    BY <1>5 DEF SafetyInv, TodoInv, InTodo, ServedAction, Part
  <1>11. FaultInv' /\ LockInv' /\ StageInv' /\ MoveInv' /\ OutInv'
    BY <1>1, <1>5, <1>6 DEF SafetyInv, FaultInv, LockInv, StageInv, MoveInv, OutInv, TypeOK, InHandoff
  <1>12. CountInv' /\ ArmInv'
    BY <1>5, <1>7, <1>8 DEF SafetyInv, CountInv, ArmInv, TypeOK
  <1>13. PortInv'
    BY <1>1, <1>5, <1>6, <1>8, <1>10 DEF SafetyInv, PortInv, TypeOK, InCall, Waiting
  <1>14. CellInv'
    BY <1>1, <1>3, <1>6, <1>8, <1>10 DEF SafetyInv, CellInv
  <1>15. DatumInv'
    <2>1. ASSUME NEW q \in PoPu
          PROVE  /\ ptr'[q] = ptr[q] /\ (q \in ready' <=> q \in ready) /\ heap'[q] = heap[q]
                 /\ (Held(q)' <=> Held(q)) /\ (TakenOut(q)' <=> TakenOut(q))
                 /\ at'[q] = at[q]
      BY <1>1, <1>5, <1>6, <1>8, <1>9 DEF TypeOK
    <2>2. \A h \in PoGe : h # g => at'[h] = at[h]
      BY <1>5 DEF TypeOK
    <2>3. at'[g] = "sweep"
      BY <1>5 DEF TypeOK
    <2> QED BY <1>5, <1>10, <2>1, <2>2, <2>3 DEF SafetyInv, DatumInv, SentTo
  <1>16. ContentInv'
    <2>1. ASSUME NEW n \in Memo
          PROVE  /\ n \in full' => (ptr'[n] # None <=> n \in ready')
                 /\ n \notin full' => (ptr'[n] = None <=> n \in ready')
                 /\ Held(n)' => n \notin full'
                 /\ ptr'[n] # None => (heap'[ptr'[n]] = None <=> TakenOut(n)')
      <3>1. CASE n = m
        BY <1>3, <1>5, <1>6, <1>8, <3>1
      <3>2. CASE n # m
        <4>1. /\ ptr'[n] = ptr[n] /\ (n \in ready' <=> n \in ready) /\ (Held(n)' <=> Held(n))
              /\ (TakenOut(n)' <=> TakenOut(n)) /\ full' = full
              /\ ptr[n] # None => heap'[ptr[n]] = heap[ptr[n]]
          BY <1>5, <1>6, <1>8, <1>9, <3>2
        <4> QED BY <4>1 DEF SafetyInv, ContentInv
      <3> QED BY <3>1, <3>2
    <2>2. ASSUME ~IsCopy, NEW k \in Memo, NEW n \in Memo, ptr'[k] # None, ptr'[n] = ptr'[k]
          PROVE  n = k
      BY <1>6, <2>2 DEF SafetyInv, ContentInv
    <2> QED BY <1>5, <2>1, <2>2 DEF SafetyInv, ContentInv
  <1> QED BY <1>6, <1>10, <1>11, <1>12, <1>13, <1>14, <1>15, <1>16 DEF SafetyInv

-----------------------------------------------------------------------------
(* The theorems *)

\* Getters of served connectors never wait for a mover or clone.
LEMMA StepsNotTaken ==
    ASSUME TypeOK, SafetyInv, NEW g \in PoGe
    PROVE  ~Await(g) /\ ~ExecuteClone(g) /\ ~LoseCount(g) /\ ~Release(g)
  BY DEF SafetyInv, StageInv, InHandoff, Before, After, Goto, Await, ExecuteClone, LoseCount, Release

(***************************************************************************)
(* SafetyInv is an invariant of every connector that the handoff serves.   *)
(***************************************************************************)
THEOREM HandoffIsSafe ==
    ASSUME Served
    PROVE  Spec => []SafetyInv
  <1>1. Init => SafetyInv
    <2> SUFFICES ASSUME Init PROVE SafetyInv
      OBVIOUS
    <2> USE Kinds
    <2>1. RefCount
      <3>1. \A a \in StorePtr : {m \in Memo : ptr[m] = a} = {}
        BY DEF Init
      <3>2. Cardinality({}) = 0
        BY FS_EmptySet
      <3>3. ASSUME NEW a \in StorePtr
            PROVE  refs[a] = 0 /\ a \notin owned /\ Cardinality({m \in Memo : ptr[m] = a}) = 0
        BY <3>1, <3>2 DEF Init
      <3> QED BY <3>3 DEF RefCount
    <2>2. /\ \A x : ~InTodo(x)
          /\ \A g \in PoGe : \A s \in Space : ~ToCount(g, s) /\ ~Closes(g, s)
      BY DEF Init, InTodo, ToCount, SentTo, Closes
    <2>3. /\ \A g \in PoGe : \A s \in Space : ~Touches(g, s)
          /\ \A s \in Space : ~Held(s) /\ Counters(s) = {} /\ ~TakenOut(s)
      BY <2>2 DEF Touches, Held, Counters, TakenOut, Closes, After
    <2>4. FaultInv /\ TodoInv /\ LockInv /\ StageInv /\ ArmInv /\ MoveInv /\ OutInv
      BY DEF Init, FaultInv, TodoInv, LockInv, StageInv, ArmInv, MoveInv, OutInv, InHandoff
    <2>5. PortInv /\ CellInv /\ CountInv
      BY <2>2, <2>3 DEF Init, PortInv, CellInv, CountInv, InCall, Waiting
    <2>6. DatumInv /\ ContentInv
      BY <2>2, <2>3 DEF Init, DatumInv, SentTo, ContentInv
    <2> QED BY <2>1, <2>4, <2>5, <2>6 DEF SafetyInv
  <1>2. TypeOK /\ SafetyInv /\ [Next]_vars => SafetyInv'
    <2> SUFFICES ASSUME TypeOK, SafetyInv, [Next]_vars PROVE SafetyInv'
      OBVIOUS
    <2>1. CASE UNCHANGED vars
      <3> USE <2>1 DEF vars, handoffVars, protoVars
      <3>1. SameHands /\ \A s \in Space : TakenOut(s)' <=> TakenOut(s)
        BY DEF SameHands, ToCount, SentTo, Closes, TakenOut
      <3>2. /\ TodoInv' /\ RefCount' /\ \A x : InTodo(x)' <=> InTodo(x)
            /\ \A s \in Space : Counters(s)' = Counters(s) /\ (Held(s)' <=> Held(s))
            /\ \A h \in PoGe : \A s \in Space :
                  (Touches(h, s)' <=> Touches(h, s)) /\ (Closes(h, s)' <=> Closes(h, s))
        BY <3>1, HandsKept, ThreadFrame DEF SameHands
      <3>3. /\ FaultInv' /\ LockInv' /\ PortInv' /\ CellInv' /\ StageInv' /\ CountInv' /\ ArmInv'
            /\ MoveInv' /\ OutInv'
        BY <3>2, Kinds DEF SafetyInv, FaultInv, LockInv, PortInv, InCall, CellInv, StageInv, CountInv, ArmInv, TypeOK,
                           MoveInv, OutInv
      <3>4. DatumInv' /\ ContentInv'
        BY <3>1, <3>2, Kinds DEF SafetyInv, DatumInv, SentTo, ContentInv
      <3> QED BY <3>2, <3>3, <3>4 DEF SafetyInv
    <2>2. ASSUME NEW p \in PoPu, PutBegin(p) \/ PutterStep(p) PROVE SafetyInv'
      BY <2>2, PutBeginSafe, RecvPutSafe DEF PutterStep
    <2>3. ASSUME NEW g \in PoGe, GetBegin(g) \/ GetterStep(g) \/ FinalizeCell(g) PROVE SafetyInv'
      BY <2>3, GetBeginSafe, FinalizeCellSafe, RecvGetSafe, StampSafe, ExecuteCopySafe, CountSafe,
         CheckMovedSafe, AskSafe, WonCountSafe, SignalAskSafe, FinalizePortSafe, StepsNotTaken
         DEF GetterStep, AcquireData
    <2>4. ASSUME NEW t \in Port, Enter(t) \/ TimeOut(t) \/ Revoke(t) PROVE SafetyInv'
      BY <2>4, EnterSafe, TimeOutSafe, RevokeSafe
    <2>5. CASE Coordinate
      <3>1. ASSUME NEW r \in RuleId, SelectRule(r) PROVE SafetyInv'
        BY <3>1, SelectRuleSafe
      <3>2. CASE Unlock
        BY <3>2, UnlockSafe
      <3>3. CASE PerformAction
        BY <3>3, PortToCellsSafe, PortToPortsSafe, CellToCellsSafe, CellToPortsSafe
           DEF PerformAction, ThreadsStay
      <3> QED BY <2>5, <3>1, <3>2, <3>3, ArmSafe, TellSafe DEF Coordinate
    <2> QED BY <2>1, <2>2, <2>3, <2>4, <2>5 DEF Next
  <1> QED BY <1>1, <1>2, TypeCorrect, PTL DEF Spec

(***************************************************************************)
(* put_timeout() dropping once more what has moved is all that can go      *)
(* wrong: no assert or expect of the coordinator, of acquire_data or of a  *)
(* put fails, no getter and no guard reads dead memory and no live value   *)
(* is forgotten, however the calls of any number of threads interleave.    *)
(***************************************************************************)
THEOREM OnlyPutTimeoutFaults ==
    ASSUME Served
    PROVE  Spec => [](fault \subseteq {"redrop"})
  <1>1. SafetyInv => fault \subseteq {"redrop"}
    BY DEF SafetyInv, FaultInv
  <1> QED BY <1>1, HandoffIsSafe, PTL

(***************************************************************************)
(* Nothing goes wrong at all if the data is Copy or put_timeout() is not   *)
(* among the calls: every datum then ends up with exactly one owner.       *)
(***************************************************************************)
THEOREM NothingFaults ==
    ASSUME Served, IsCopy \/ PutTimeoutPorts = {}
    PROVE  Spec => []NoFault
  <1>1. SafetyInv => NoFault
    BY DEF SafetyInv, FaultInv, NoFault
  <1> QED BY <1>1, HandoffIsSafe, PTL

(***************************************************************************)
(* The reference counts of cells that share a value are exact in every     *)
(* state, since no assert fails before one is reached.                     *)
(***************************************************************************)
THEOREM CountsStayExact ==
    ASSUME Served
    PROVE  Spec => []RefCount
  <1>1. SafetyInv => RefCount
    BY DEF SafetyInv
  <1> QED BY <1>1, HandoffIsSafe, PTL

(***************************************************************************)
(* A cell that is ready matches its memory bit: full ones point to a live  *)
(* value, empty ones to nothing.                                           *)
(***************************************************************************)
THEOREM CellsMatchBits ==
    ASSUME Served
    PROVE  Spec => []CellContents
  <1>1. TypeOK /\ SafetyInv => CellContents
    <2> SUFFICES ASSUME TypeOK, SafetyInv, NEW m \in Memo, m \in ready
                 PROVE  IF m \in full THEN Deref(m) # None ELSE ptr[m] = None
      BY DEF CellContents
    <2>1. m \in full => Deref(m) # None
      BY ReadyValue, Kinds
    <2>2. m \notin full => ptr[m] = None
      BY DEF SafetyInv, ContentInv
    <2> QED BY <2>1, <2>2
  <1> QED BY <1>1, HandoffIsSafe, TypeCorrect, PTL

(***************************************************************************)
(* A port that advertises readiness waits with an empty dropbox, takes     *)
(* part in no firing, and a putter's datum is in place.                    *)
(***************************************************************************)
THEOREM ReadyPortsWait ==
    ASSUME Served
    PROVE  Spec => []ReadyIsWaiting
  <1>1. TypeOK /\ SafetyInv => ReadyIsWaiting
    <2> SUFFICES ASSUME TypeOK, SafetyInv, NEW t \in Port, t \in ready
                 PROVE  /\ at[t] \in {"coord", "recv", "revoke"}
                        /\ box[t] = None /\ ~InTodo(t)
                        /\ t \in PoGe => tell[t] = None
                        /\ t \in PoPu => Deref(t) # None /\ Involved(t) = {}
      BY DEF ReadyIsWaiting
    <2>1. /\ InCall(t) /\ at[t] # "recv2" /\ box[t] = None /\ ~InTodo(t)
          /\ t \in PoGe => tell[t] = None
          /\ t \in PoPu => ~Held(t)
      BY DEF SafetyInv, PortInv
    <2>2. t \in PoPu => Deref(t) # None
      BY ReadyValue, Kinds
    <2>3. t \in PoPu => Involved(t) = {}
      BY <2>1, Kinds DEF SafetyInv, StageInv, Involved, Held, Touches, ToCount, SentTo, Closes
    <2> QED BY <2>1, <2>2, <2>3 DEF InCall, Waiting
  <1> QED BY <1>1, HandoffIsSafe, TypeCorrect, PTL

\* Whoever is in a getter's hands is involved with that getter.
LEMMA HeldInvolved ==
    ASSUME NEW s \in Space, Held(s)
    PROVE  Involved(s) # {}
  BY DEF Held, Touches, ToCount, SentTo, Closes, Before, After, InHandoff, Involved

(***************************************************************************)
(* A call whose readiness was consumed is owed an answer that somebody is  *)
(* there to give, also when the call has timed out meanwhile.              *)
(***************************************************************************)
THEOREM AnswersAreOwed ==
    ASSUME Served
    PROVE  Spec => []OwedAnswer
  <1>1. SafetyInv => OwedAnswer
    BY Kinds, HeldInvolved DEF SafetyInv, PortInv, InCall, OwedAnswer
  <1> QED BY <1>1, HandoffIsSafe, PTL

(***************************************************************************)
(* A cell that is not ready is about to be filled or emptied by someone.   *)
(***************************************************************************)
THEOREM CellsAreTakenCareOf ==
    ASSUME Served
    PROVE  Spec => []Caretaker
  <1>1. SafetyInv => Caretaker
    BY Kinds, HeldInvolved DEF SafetyInv, CellInv, Caretaker
  <1> QED BY <1>1, HandoffIsSafe, PTL

(***************************************************************************)
(* As long as a getter may read a putter's stack, the putter has not       *)
(* returned and its datum is live.                                         *)
(***************************************************************************)
THEOREM ReadersAreSafe ==
    ASSUME Served
    PROVE  Spec => []NoDanglingReader
  <1>1. TypeOK /\ SafetyInv => NoDanglingReader
    <2> SUFFICES ASSUME TypeOK, SafetyInv, NEW g \in PoGe, NEW p \in PoPu,
                        \/ SentTo(g, p)
                        \/ src[g] = p /\ at[g] \in {"stamp", "copy", "ask", "woncount",
                                                    "await", "clone"}
                 PROVE  at[p] \in Waiting \cup {"coord"} /\ heap[p] # None
      BY DEF NoDanglingReader
    <2>1. Touches(g, p)
      BY DEF SafetyInv, StageInv, InHandoff, Touches, ToCount, SentTo, Closes
    <2>2. Held(p) /\ InCall(p)
      BY <2>1, Kinds DEF Held, SafetyInv, PortInv
    <2>3. ~TakenOut(p)
      <3>1. \A h \in PoGe : Closes(h, p) => h = g
        BY <2>1, Kinds DEF SafetyInv, CountInv
      <3>2. at[g] # "final" \/ src[g] # p
        BY AtWork DEF InHandoff
      <3> QED BY <3>1, <3>2 DEF TakenOut, Closes, After
    <2>4. heap[p] # None
      BY <2>2, <2>3, Kinds DEF SafetyInv, DatumInv, SentTo
    <2> QED BY <2>2, <2>4 DEF InCall
  <1> QED BY <1>1, HandoffIsSafe, TypeCorrect, PTL

(***************************************************************************)
(* A get() that has returned has initialized its destination.              *)
(***************************************************************************)
THEOREM GettersReturnData ==
    ASSUME Served
    PROVE  Spec => []InitOnReturn
  <1>1. SafetyInv => InitOnReturn
    BY DEF SafetyInv, OutInv, InitOnReturn
  <1> QED BY <1>1, HandoffIsSafe, PTL

=============================================================================
