----------------------------- MODULE ProtoProps -----------------------------
(***************************************************************************)
(* What must hold of a running protocol instance, and the refinement       *)
(* mapping under which it implements Connector.                            *)
(***************************************************************************)
EXTENDS Proto

(***************************************************************************)
(* Type invariant of the state of Handoff and Proto.                       *)
(***************************************************************************)
TypeOK ==
    /\ ptr \in [Space -> Addr \cup {None}]
    /\ \A p \in PoPu : ptr[p] \in {p, None}
    /\ \A m \in Memo : ptr[m] \in StorePtr \cup {None}
    /\ countdown \in [Space -> Int]
    /\ flags \in [Space -> SUBSET {MOVED, DISABLED}]
    /\ sema \in [Space -> Nat]
    /\ box \in [Port -> {0, 1} \cup Space \cup {None}]
    /\ \A g \in PoGe : box[g] \in Space \cup {None}
    /\ at \in [Port -> Where]
    /\ mode \in [PoGe -> {"data", "signal"}]
    /\ src \in [PoGe -> Space \cup {None}]
    /\ \A g \in PoGe : at[g] \in InHandoff => src[g] \in Space
    /\ moved \in [PoGe -> BOOLEAN]
    /\ heap \in [Addr -> Data \cup {None}]
    /\ out \in [PoGe -> Data \cup {None}]
    /\ fault \subseteq {"panic", "ub", "leak", "redrop"}
    /\ lock \in Port \cup {None}
    /\ ready \subseteq Loc
    /\ full \subseteq Memo
    /\ refs \in [StorePtr -> Nat]
    /\ owned \subseteq StorePtr
    /\ todo \in Seq(ActionDef)
    /\ arming \in Space \cup {None}
    /\ tell \in [PoGe -> Space \cup {None}]

-----------------------------------------------------------------------------
\* x takes part in an action that has yet to be performed
InTodo(x) == \E i \in DOMAIN todo : x \in {todo[i].putter} \cup todo[i].getters

\* g is, or is about to be, told of space s
SentTo(g, s) == tell[g] = s \/ box[g] = s

\* the getters of space s that have not let go of it
Involved(s) == {g \in PoGe : SentTo(g, s) \/ (at[g] \in InHandoff /\ src[g] = s)}

Waiting == {"recv", "revoke", "recv2"}

(***************************************************************************)
(* None of the code's asserts and expects fails, dead memory is neither    *)
(* read nor dropped, and no live value is forgotten: every put-datum ends  *)
(* up with exactly one owner (the asserts of mod.rs and memory.rs; put()   *)
(* forgets its datum iff it is told 1, which put_timeout() never does).    *)
(***************************************************************************)
NoFault == fault = {}

(***************************************************************************)
(* A get() that has returned, or has nothing left to do but to coordinate, *)
(* has initialized its destination, whether it copied, cloned or waited    *)
(* for others to clone (get_in_place: "on return: `dest` is initialized"). *)
(***************************************************************************)
InitOnReturn == \A g \in PoGe : at[g] \in {"idle", "sweep"} /\ mode[g] = "data" => out[g] # None

(***************************************************************************)
(* No lost wakeup: whenever the lock is free no rule can fire, so nobody   *)
(* waits for a firing that only needs someone to enter and notice it.      *)
(***************************************************************************)
NoMissedFiring == lock = None => todo = <<>> /\ AllTold /\ \A r \in RuleId : ~CanFire(r)

(***************************************************************************)
(* mem_refs counts the cells that share each stored value, and Storage     *)
(* owns exactly the addresses some cell points to.                         *)
(***************************************************************************)
RefCount ==
    \A a \in StorePtr :
        /\ refs[a] = Cardinality({m \in Memo : ptr[m] = a})
        /\ a \in owned <=> refs[a] > 0

(***************************************************************************)
(* A cell that is ready matches its memory bit: full cells point to a live *)
(* value, empty cells to nothing.                                          *)
(***************************************************************************)
CellContents ==
    \A m \in Memo \cap ready : IF m \in full THEN Deref(m) # None ELSE ptr[m] = None

(***************************************************************************)
(* A port that advertises readiness waits with an empty dropbox and takes  *)
(* part in no firing, and a ready putter's datum is in place: what a rule  *)
(* selects is really there.                                                *)
(***************************************************************************)
ReadyIsWaiting ==
    \A t \in Port \cap ready :
        /\ at[t] \in {"coord", "recv", "revoke"}
        /\ box[t] = None /\ ~InTodo(t)
        /\ t \in PoGe => tell[t] = None
        /\ t \in PoPu => Deref(t) # None /\ Involved(t) = {}

(***************************************************************************)
(* A call whose readiness was consumed is owed an answer and somebody is   *)
(* there to give it, however the timeout of the call races with the        *)
(* firing.                                                                 *)
(***************************************************************************)
OwedAnswer ==
    \A t \in Port \ ready :
        at[t] \in Waiting => \/ box[t] # None
                             \/ InTodo(t)
                             \/ t \in PoGe /\ tell[t] # None
                             \/ t \in PoPu /\ Involved(t) # {}

(***************************************************************************)
(* A cell that is not ready is being emptied or filled by someone: the     *)
(* coordinator or a getter that will finalize it (TempSpace's comment on   *)
(* how normal cells are kept consistent).                                  *)
(***************************************************************************)
Caretaker == \A m \in Memo \ ready : InTodo(m) \/ Involved(m) # {}

(***************************************************************************)
(* As long as a getter may still read a putter's stack, the putter has not *)
(* returned and the datum is live.                                         *)
(***************************************************************************)
NoDanglingReader ==
    \A g \in PoGe, p \in PoPu :
        /\ \/ SentTo(g, p)
           \/ src[g] = p /\ at[g] \in {"stamp", "copy", "ask", "woncount", "await", "clone"}
        => at[p] \in Waiting \cup {"coord"} /\ heap[p] # None

-----------------------------------------------------------------------------
(* Liveness, under FairSpec *)

(***************************************************************************)
(* Every call a firing has picked returns.                                 *)
(***************************************************************************)
AnswerArrives ==
    \A t \in Port : (at[t] \in Waiting /\ t \notin ready) ~> at[t] = "idle"

(***************************************************************************)
(* A call with a timeout returns, whether or not it finds partners.        *)
(***************************************************************************)
TimedCallReturns == \A t \in TimedPorts : at[t] = "enter" ~> at[t] = "idle"

-----------------------------------------------------------------------------
(* The refinement mapping.  A firing takes effect when its rule is          *)
(* selected; the values it moves are traced to wherever they are now.       *)

Supplier(x) == {todo[i].putter : i \in {j \in DOMAIN todo : x \in todo[j].getters}}
Giver(x) == CHOOSE s \in Supplier(x) : TRUE

absOffer == [p \in PoPu |-> IF p \in ready THEN Deref(p) ELSE None]
absWant == [g \in PoGe |-> IF g \in ready THEN mode[g] ELSE "none"]
absMem == [m \in Memo |->
            IF m \notin full THEN None
            ELSE IF Supplier(m) # {} THEN Deref(Giver(m))
            ELSE Deref(m)]
absGiven == [g \in PoGe |->
            IF mode[g] = "signal" THEN None
            ELSE IF Supplier(g) # {} THEN Deref(Giver(g))
            ELSE IF tell[g] # None THEN Deref(tell[g])
            ELSE IF box[g] # None THEN Deref(box[g])
            ELSE IF at[g] \in {"stamp", "copy", "ask", "woncount", "await", "clone"}
                 THEN Deref(src[g])
            ELSE out[g]]

Abstract == INSTANCE Connector WITH
                offer <- absOffer, want <- absWant, mem <- absMem, given <- absGiven

(***************************************************************************)
(* The protocol implements the atomic connector, and its liveness: if some *)
(* rule stays firable, a rule fires.                                       *)
(***************************************************************************)
ImplementsConnector == Abstract!Spec
FiresWhenItCan == Abstract!FairSpec
=============================================================================
