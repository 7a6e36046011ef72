------------------------------- MODULE Proto -------------------------------
(***************************************************************************)
(* One running protocol instance (ProtoAll): the port threads calling      *)
(* put() and get(), the lock-protected ProtoW, and the coordinator that    *)
(* whichever thread holds the lock becomes.                                *)
(*                                                                         *)
(* A thread is named by the port it owns.  Its control location at[t]:     *)
(*   idle                 not in a call                                    *)
(*   enter                about to lock and raise its readiness            *)
(*   coord, sweep         holds the lock, firing rules (on entering a      *)
(*                        call, on finalizing a memory cell)               *)
(*   recv                 waits on its dropbox                             *)
(*   revoke, recv2        timed out: about to take its readiness back;     *)
(*                        too late, waits again without a timeout          *)
(*   the rest             inside acquire_data, see Handoff                 *)
(***************************************************************************)
EXTENDS Handoff

CONSTANTS TimedPorts   \* ports whose calls carry a timeout

ASSUME TimedAssumption == PutTimeoutPorts \subseteq TimedPorts /\ TimedPorts \subseteq Port

VARIABLES
    lock,     \* the thread holding the protocol's Mutex, or None
    ready,    \* ProtoActive.ready
    full,     \* ProtoW.memory_bits
    refs,     \* ProtoActive.mem_refs; 0 for an address that is not a key
    owned,    \* Storage.owned
    todo,     \* actions of the rule being fired, still to be performed
    arming,   \* the space whose countdown and flags are about to be stored
    tell      \* the space each getter is about to be sent to, by the coordinator

protoVars == <<lock, ready, full, refs, owned, todo, arming, tell>>
vars == <<handoffVars, protoVars>>

InHandoff == {"stamp", "copy", "count", "check", "ask", "woncount", "await",
              "clone", "losecount", "release", "sigask", "final"}
Where == {"idle", "enter", "coord", "sweep", "recv", "revoke", "recv2"} \cup InHandoff

Init ==
    /\ ptr = [s \in Space |-> None]
    /\ countdown = [s \in Space |-> 0]
    /\ flags = [s \in Space |-> {}]
    /\ sema = [s \in Space |-> 0]
    /\ box = [t \in Port |-> None]
    /\ at = [t \in Port |-> "idle"]
    /\ mode = [g \in PoGe |-> "signal"]
    /\ src = [g \in PoGe |-> None]
    /\ moved = [g \in PoGe |-> FALSE]
    /\ heap = [a \in Addr |-> None]
    /\ out = [g \in PoGe |-> None]
    /\ fault = {}
    /\ lock = None
    /\ ready = Memo
    /\ full = {}
    /\ refs = [s \in StorePtr |-> 0]
    /\ owned = {}
    /\ todo = <<>>
    /\ arming = None
    /\ tell = [g \in PoGe |-> None]

-----------------------------------------------------------------------------
(* Entering a call *)

PutBegin(p) ==
    /\ Goto(p, "idle", "enter")
    /\ \E v \in Data : heap' = [heap EXCEPT ![p] = v]
    /\ ptr' = [ptr EXCEPT ![p] = p]
    /\ UNCHANGED <<countdown, flags, sema, box, mode, src, moved, out, fault>>
    /\ UNCHANGED protoVars

GetBegin(g) ==
    /\ Goto(g, "idle", "enter")
    /\ \E m \in {"data", "signal"} : mode' = [mode EXCEPT ![g] = m]
    /\ out' = [out EXCEPT ![g] = None]
    /\ UNCHANGED <<ptr, countdown, flags, sema, box, src, moved, heap, fault>>
    /\ UNCHANGED protoVars

\* w.lock().ready_set_coordinate(my_id), up to the first look at the rules
Enter(t) ==
    /\ lock = None
    /\ Goto(t, "enter", "coord")
    /\ lock' = t
    /\ ready' = ready \cup {t}
    /\ UNCHANGED <<ptr, countdown, flags, sema, box, mode, src, moved, heap, out, fault>>
    /\ UNCHANGED <<full, refs, owned, todo, arming, tell>>

-----------------------------------------------------------------------------
(* exhaust_rules, run by the thread that holds the lock *)

\* A guard formula reads memory_bits and the values the pointers lead to.
EvalAtom(x) ==
    CASE x.op = "MemIsNull" -> x.loc \notin full
      [] x.op = "ValueEq"   -> Deref(x.a) = Deref(x.b)

\* Mutant: guards are not looked at.
GuardIgnored(f) == TRUE

eval_formula(f) ==
    CASE f.op = "True" -> TRUE
      [] f.op = "None" -> ~\E x \in f.atoms : EvalAtom(x)
      [] f.op = "And"  -> ~\A x \in f.atoms : EvalAtom(x)
      [] f.op = "Or"   -> \E x \in f.atoms : EvalAtom(x)

\* Mutant: memory getters may be full.
IsReadyFullOnly(r) == guard_ready(r) \subseteq ready /\ guard_full(r) \subseteq full

is_ready(r) ==
    /\ guard_ready(r) \subseteq ready
    /\ guard_full(r) \subseteq full
    /\ (guard_ready(r) \cap full) \subseteq guard_full(r)

CanFire(r) == is_ready(r) /\ eval_formula(Rules[r].guard)

\* the values that evaluating a rule's guard dereferences
ReadsDead(r) ==
    \E x \in Rules[r].guard.atoms :
        x.op = "ValueEq" /\ (Deref(x.a) = None \/ Deref(x.b) = None)

\* Mutants: memory bits are left alone; getters keep their readiness.
AssignNothing(r) == full
SubtractPutters(r) == ready \ (guard_ready(r) \ PoGe)

\* assign_memory_bits and subtract_readiness
assign_memory_bits(r) == (full \cup assign_vals(r)) \ (assign_mask(r) \ assign_vals(r))
subtract_readiness(r) == ready \ guard_ready(r)

\* everyone involved in the last action performed has been told
AllTold == arming = None /\ \A g \in PoGe : tell[g] = None

\* The first rule that can fire: commit its memory bits, take the readiness
\* of everyone involved, then perform its actions one by one.
SelectRule(r) ==
    /\ lock # None /\ todo = <<>> /\ AllTold
    /\ CanFire(r) /\ \A q \in 1..(r - 1) : ~CanFire(q)
    /\ full' = assign_memory_bits(r)
    /\ ready' = subtract_readiness(r)
    /\ todo' = Rules[r].actions
    /\ fault' = fault \cup Blame(\E q \in 1..r : is_ready(q) /\ ReadsDead(q), "ub")
    /\ UNCHANGED <<ptr, countdown, flags, sema, box, at, mode, src, moved, heap, out>>
    /\ UNCHANGED <<lock, refs, owned, arming, tell>>

\* Mutant: the loop looks at the first rule only.
ExhaustedAfterFirst == ~CanFire(1)

\* the loop over all rules ran to its end
Exhausted == \A r \in RuleId : ~CanFire(r)

\* No rule can fire: drop the lock and go on with the call.
Unlock ==
    /\ lock # None /\ todo = <<>> /\ AllTold
    /\ Exhausted
    /\ lock' = None
    /\ at' = [at EXCEPT ![lock] = IF at[lock] = "coord" THEN "recv" ELSE "idle"]
    /\ fault' = fault \cup Blame(\E r \in RuleId : is_ready(r) /\ ReadsDead(r), "ub")
    /\ UNCHANGED <<ptr, countdown, flags, sema, box, mode, src, moved, heap, out>>
    /\ UNCHANGED <<ready, full, refs, owned, todo, arming, tell>>

-----------------------------------------------------------------------------
(* Firer::perform_action: one action of the rule being fired *)

\* Mutants: cells that share a value count as one; a clone is made by moving.
CountedOnce(cells) == 1
NothingLeft(p, cloned) == None

refcounts(cells) == Cardinality(cells)

\* what clone_in or move_in leaves on the putter's stack
LeftBehind(p, cloned) == IF cloned \/ IsCopy THEN heap[p] ELSE None

\* Storage::alloc, then move_in or clone_in, then overwrite_null_ptr in every
\* memory getter: cells that take the same value share one address.
FillCells(p, cells, dest, cloned) ==
    /\ dest \in StorePtr \ owned
    /\ owned' = owned \cup {dest}
    /\ refs' = [refs EXCEPT ![dest] = refcounts(cells)]
    /\ heap' = [heap EXCEPT ![dest] = Deref(p),
                            ![p] = LeftBehind(p, cloned)]
    /\ ptr' = [s \in Space |-> IF s \in cells THEN dest ELSE ptr[s]]
    /\ ready' = ready \cup cells

NoCells == UNCHANGED <<owned, refs, heap, ptr, ready>>

\* the asserts and reads of FillCells that can fail
FillFaults(p, cells) ==
    Blame(\E m \in cells : ptr[m] # None, "panic")
    \cup Blame(cells # {} /\ \E dest \in StorePtr \ owned : refs[dest] # 0, "panic")
    \cup Blame(cells # {} /\ Deref(p) = None, "ub")

\* The port getters of a firing are still to be told.
StartHandoff(s, getters) ==
    /\ arming' = s
    /\ tell' = [g \in PoGe |-> IF g \in getters THEN s ELSE None]

SendFaults(t) == Blame(box[t] # None, "panic")

\* A port putter, memory getters only: the coordinator moves the datum in and
\* answers the putter itself.
PortToCells(a) ==
    LET p == a.putter
        cells == mg(a)
    IN
    /\ p \in PoPu /\ pg(a) = {}
    /\ IF cells = {} THEN NoCells
       ELSE \E dest \in StorePtr : FillCells(p, cells, dest, FALSE)
    /\ box' = [box EXCEPT ![p] = IF cells = {} THEN 0 ELSE 1]
    /\ fault' = fault \cup FillFaults(p, cells) \cup SendFaults(p)
    /\ UNCHANGED <<arming, tell>>

\* A port putter and port getters: memory gets a clone, the getters are told.
PortToPorts(a) ==
    LET p == a.putter
        cells == mg(a)
    IN
    /\ p \in PoPu /\ pg(a) # {}
    /\ IF cells = {} THEN NoCells
       ELSE \E dest \in StorePtr : FillCells(p, cells, dest, TRUE)
    /\ StartHandoff(p, pg(a))
    /\ fault' = fault \cup FillFaults(p, cells)
    /\ UNCHANGED box

\* A memory putter shares its address with its memory getters.
ShareWith(p, cells) == [s \in Space |-> IF s \in cells THEN ptr[p] ELSE ptr[s]]

\* Mutant: sharing is not counted.
SharedUncounted(p, cells) == refs

Shared(p, cells) == IF ptr[p] = None THEN refs
                    ELSE [refs EXCEPT ![ptr[p]] = @ + Cardinality(cells)]

ShareFaults(p, cells) ==
    Blame(\E m \in cells \ {p} : ptr[m] # None, "panic")
    \cup Blame(IF ptr[p] = None THEN TRUE ELSE refs[ptr[p]] = 0, "panic")

\* MemoSpace::make_empty, given the pointers, counts and readiness before it:
\* the last cell to let go of an address drops the value or forgets it.
make_empty(m, ptrs, counts, rdy) ==
    LET a == ptrs[m]
        last == IF a = None THEN FALSE ELSE counts[a] = 1
    IN
    /\ ptr' = [ptrs EXCEPT ![m] = None]
    /\ refs' = IF a = None THEN counts
               ELSE [counts EXCEPT ![a] = IF @ = 0 THEN 0 ELSE @ - 1]
    /\ owned' = IF last THEN owned \ {a} ELSE owned
    /\ heap' = IF last THEN [heap EXCEPT ![a] = None] ELSE heap
    /\ ready' = rdy \cup {m}

\* the expects and asserts of make_empty, and what it drops or forgets
EmptyFaults(m, ptrs, counts, rdy, dropped) ==
    LET a == ptrs[m]
        last == IF a = None THEN FALSE ELSE counts[a] = 1
    IN
    Blame(IF a = None THEN TRUE ELSE counts[a] = 0, "panic")
    \cup Blame(last /\ a \notin owned, "panic")
    \cup Blame(m \in rdy, "panic")
    \cup Blame(last /\ ~IsCopy /\ dropped /\ heap[a] = None, "ub")
    \cup Blame(last /\ ~IsCopy /\ ~dropped /\ heap[a] # None, "leak")

\* A memory putter and no port getter: the coordinator empties it itself,
\* unless it is one of its own getters.
CellToCells(a) ==
    LET p == a.putter
        cells == mg(a)
        ptrs == ShareWith(p, cells)
        counts == Shared(p, cells)
        rdy == ready \cup (cells \ {p})
    IN
    /\ p \in Memo /\ pg(a) = {}
    /\ IF SelfPut(a)
       THEN /\ ptr' = ptrs /\ refs' = counts /\ ready' = rdy
            /\ fault' = fault \cup ShareFaults(p, cells)
            /\ UNCHANGED <<owned, heap>>
       ELSE /\ make_empty(p, ptrs, counts, rdy)
            /\ fault' = fault \cup ShareFaults(p, cells)
                              \cup EmptyFaults(p, ptrs, counts, rdy, TRUE)
    /\ UNCHANGED <<box, arming, tell>>

\* A memory putter and port getters: the last of them will finalize it.
CellToPorts(a) ==
    LET p == a.putter
        cells == mg(a)
        counts == Shared(p, cells)
    IN
    /\ p \in Memo /\ pg(a) # {}
    /\ ptr' = ShareWith(p, cells)
    /\ refs' = counts
    /\ ready' = ready \cup (cells \ {p})
    /\ StartHandoff(p, pg(a))
    /\ fault' = fault \cup ShareFaults(p, cells)
    /\ UNCHANGED <<owned, heap, box>>

PerformAction ==
    /\ todo # <<>> /\ AllTold
    /\ \/ PortToCells(Head(todo))
       \/ PortToPorts(Head(todo))
       \/ CellToCells(Head(todo))
       \/ CellToPorts(Head(todo))
    /\ todo' = Tail(todo)
    /\ UNCHANGED <<countdown, flags, sema, at, mode, src, moved, out, lock, full>>

\* A cell that shares its value keeps it: its getters may not move it.
disable_move(s) == s \in Memo /\ IF ptr[s] = None THEN TRUE ELSE refs[ptr[s]] # 1

\* Mutants: the DISABLED bit is stored the other way round; one getter too many
\* is counted; getters are sent the message meant for putters, or are sent it
\* before their space is ready for them.
raised(s) == IF disable_move(s) THEN {DISABLED} ELSE {}
one_more(s) == Cardinality({g \in PoGe : tell[g] = s}) + 1
SendOne(g) == 1
SendAtOnce == TRUE

\* cloner_countdown counts the port getters; PutterFlags::reset(!disable_move)
po_ge_len(s) == Cardinality({g \in PoGe : tell[g] = s})
reset(s) == IF disable_move(s) THEN {} ELSE {DISABLED}

Arm ==
    /\ arming # None
    /\ countdown' = [countdown EXCEPT ![arming] = po_ge_len(arming)]
    /\ flags' = [flags EXCEPT ![arming] = reset(arming)]
    /\ arming' = None
    /\ UNCHANGED <<ptr, sema, box, at, mode, src, moved, heap, out, fault>>
    /\ UNCHANGED <<lock, ready, full, refs, owned, todo, tell>>

\* the stores come before any message
Stored == arming = None

\* send_to_getter's message: the id of the putter
putter_id(g) == tell[g]

\* Each message is a step of its own: getters told early run ahead of the rest.
Tell(g) ==
    /\ tell[g] # None /\ Stored
    /\ box' = [box EXCEPT ![g] = putter_id(g)]
    /\ fault' = fault \cup SendFaults(g)
    /\ tell' = [tell EXCEPT ![g] = None]
    /\ UNCHANGED <<ptr, countdown, flags, sema, at, mode, src, moved, heap, out>>
    /\ UNCHANGED <<lock, ready, full, refs, owned, todo, arming>>

-----------------------------------------------------------------------------
(* Timeouts *)

TimeOut(t) ==
    /\ t \in TimedPorts /\ box[t] = None
    /\ Goto(t, "recv", "revoke")
    /\ UNCHANGED <<ptr, countdown, flags, sema, box, mode, src, moved, heap, out, fault>>
    /\ UNCHANGED protoVars

\* Mutants: the timeout wins whatever the coordinator did; the test is inverted.
StillReadyIgnored(t) == TRUE
StillReadyInverted(t) == t \notin ready

\* ready.set_to(id, false) tells whether the readiness was still there
StillReady(t) == t \in ready

\* Take the readiness back, if no firing has consumed it.  A putter then
\* returns its datum to the caller, a getter returns None.
Revoke(t) ==
    /\ lock = None
    /\ Goto(t, "revoke", IF StillReady(t) THEN "idle" ELSE "recv2")
    /\ ready' = ready \ {t}
    /\ heap' = IF t \in PoPu /\ StillReady(t) THEN [heap EXCEPT ![t] = None] ELSE heap
    /\ mode' = IF t \in PoGe /\ StillReady(t) THEN [mode EXCEPT ![t] = "signal"] ELSE mode
    /\ UNCHANGED <<ptr, countdown, flags, sema, box, src, moved, out, fault>>
    /\ UNCHANGED <<lock, full, refs, owned, todo, arming, tell>>

-----------------------------------------------------------------------------
\* Mutant: the argument of finalize is passed on without the negation.
DropMoved(g) == moved[g]

\* the value is dropped with its last cell unless it was moved out
drop_if_last_ref(g) == ~moved[g]

\* MemoSpace::finalize: lock, empty the cell, and coordinate once more.
FinalizeCell(g) ==
    LET m == src[g] IN
    /\ m \in Memo /\ lock = None
    /\ Goto(g, "final", "sweep")
    /\ lock' = g
    /\ make_empty(m, ptr, refs, ready)
    /\ fault' = fault \cup EmptyFaults(m, ptr, refs, ready, drop_if_last_ref(g))
    /\ UNCHANGED <<countdown, flags, sema, box, mode, src, moved, out>>
    /\ UNCHANGED <<full, todo, arming, tell>>

GetterStep(g) == (RecvGet(g) \/ AcquireData(g)) /\ UNCHANGED protoVars
PutterStep(p) == RecvPut(p) /\ UNCHANGED protoVars
Coordinate ==
    \/ \E r \in RuleId : SelectRule(r)
    \/ PerformAction
    \/ Arm
    \/ \E g \in PoGe : Tell(g)
    \/ Unlock

Next ==
    /\ fault = {}
    /\ \/ \E p \in PoPu : PutBegin(p) \/ PutterStep(p)
       \/ \E g \in PoGe : GetBegin(g) \/ GetterStep(g) \/ FinalizeCell(g)
       \/ \E t \in Port : Enter(t) \/ TimeOut(t) \/ Revoke(t)
       \/ Coordinate

Spec == Init /\ [][Next]_vars

(***************************************************************************)
(* A thread that can take its next step eventually takes it, and a thread  *)
(* that keeps finding the lock free eventually gets it (parking_lot's      *)
(* Mutex is eventually fair).  Nobody has to begin another call.           *)
(***************************************************************************)
Fairness ==
    /\ WF_vars(fault = {} /\ Coordinate)
    /\ \A p \in PoPu : WF_vars(fault = {} /\ PutterStep(p))
    /\ \A g \in PoGe : /\ WF_vars(fault = {} /\ GetterStep(g))
                      /\ SF_vars(fault = {} /\ FinalizeCell(g))
    /\ \A t \in Port : /\ SF_vars(fault = {} /\ Enter(t))
                      /\ WF_vars(fault = {} /\ TimeOut(t))
                      /\ SF_vars(fault = {} /\ Revoke(t))

FairSpec == Spec /\ Fairness
=============================================================================
