------------------------------ MODULE Storage ------------------------------
(***************************************************************************)
(* Storage: where the values of memory cells live.  An address that has    *)
(* been given up is kept in a free list for its layout and used again, for *)
(* a value of any type of that layout.  The order of a free list is left   *)
(* out: any of its addresses may be the next.                              *)
(***************************************************************************)
CONSTANTS StorePtr, TypeId, Layout,
          LayoutOf,    \* TypeInfo.layout
          Clonable,    \* types whose clone does not panic
          None

\* None is neither a type nor a layout.
ASSUME StorageAssumption == /\ LayoutOf \in [TypeId -> Layout]
                            /\ None \notin TypeId /\ None \notin Layout

VARIABLES heap,        \* for each address the layout it was allocated with
          free,        \* the free lists
          prepared,    \* layouts that have a free list
          owned,       \* for each address the type of its value
          type_info,   \* types whose TypeInfo is kept
          live,        \* addresses that hold a value
          shrunk,      \* shrink_to_fit was called while an address was owned
          broken,      \* a clone has panicked
          fault        \* expect, panic!, or a value or an address misused

storageVars == <<heap, free, prepared, owned, type_info, live, shrunk, broken, fault>>

StorageInit ==
    /\ heap = [p \in StorePtr |-> None] /\ owned = [p \in StorePtr |-> None]
    /\ free = [l \in Layout |-> {}] /\ prepared = {} /\ type_info = {} /\ live = {}
    /\ shrunk = FALSE /\ broken = FALSE /\ fault = FALSE

-----------------------------------------------------------------------------
FreePtrs == UNION {free[l] : l \in Layout}

\* Mutant: any free address will do, whatever its layout.
AllocAnywhere(t, p) ==
    /\ IF FreePtrs # {}
       THEN /\ p \in FreePtrs
            /\ free' = [l \in Layout |-> free[l] \ {p}] /\ UNCHANGED heap
       ELSE /\ heap[p] = None
            /\ heap' = [heap EXCEPT ![p] = LayoutOf[t]] /\ UNCHANGED free
    /\ prepared' = prepared \cup {LayoutOf[t]} /\ type_info' = type_info \cup {t}
    /\ owned' = [owned EXCEPT ![p] = t]
    /\ fault' = (fault \/ owned[p] # None)
    /\ UNCHANGED shrunk

\* alloc: an address of the free list, a new one if that is empty
Alloc(t, p) ==
    LET l == LayoutOf[t] IN
    /\ IF free[l] # {}
       THEN /\ p \in free[l]
            /\ free' = [free EXCEPT ![l] = @ \ {p}] /\ UNCHANGED heap
       ELSE /\ heap[p] = None
            /\ heap' = [heap EXCEPT ![p] = l] /\ UNCHANGED free
    /\ prepared' = prepared \cup {l} /\ type_info' = type_info \cup {t}
    /\ owned' = [owned EXCEPT ![p] = t]
    /\ fault' = (fault \/ owned[p] # None)
    /\ UNCHANGED shrunk

\* move_in, and move_value_in, which forgets its argument
MoveIn(t, p) ==
    /\ Alloc(t, p)
    /\ live' = live \cup {p} /\ UNCHANGED broken

\* clone_in; the default of maybe_clone panics, with the address owned already
CloneIn(t, p) ==
    /\ Alloc(t, p)
    /\ live' = IF t \in Clonable THEN live \cup {p} ELSE live
    /\ broken' = (broken \/ t \notin Clonable)

\* inner_free, for the layout of the type the address is owned for; the
\* coordinator gives up only addresses of values it put there
InnerFree(p) ==
    LET l == LayoutOf[owned[p]] IN
    /\ owned[p] # None /\ p \in live
    /\ owned' = [owned EXCEPT ![p] = None]
    /\ live' = live \ {p}
    /\ IF l \in prepared THEN free' = [free EXCEPT ![l] = @ \cup {p}] /\ UNCHANGED fault
       ELSE fault' = TRUE /\ UNCHANGED free
    /\ UNCHANGED <<heap, prepared, type_info, shrunk, broken>>

\* the value leaves: copied out, taken over by a getter, or dropped
MoveOut(p) == InnerFree(p)
ForgetInside(p) == InnerFree(p)
DropInside(p) == InnerFree(p)

Misfiled == \E l \in Layout : \E p \in free[l] : heap[p] # l

\* every free list goes, with its addresses
ShrinkToFit ==
    /\ heap' = [p \in StorePtr |-> IF p \in FreePtrs THEN None ELSE heap[p]]
    /\ free' = [l \in Layout |-> {}] /\ prepared' = {}
    /\ shrunk' = (shrunk \/ \E p \in StorePtr : owned[p] # None)
    /\ fault' = (fault \/ Misfiled)
    /\ UNCHANGED <<owned, type_info, live, broken>>

\* Drop: values that are left are dropped, and every address is given back
DropStorage ==
    LET left == {p \in StorePtr : owned[p] # None} IN
    /\ heap' = [p \in StorePtr |-> IF p \in left \cup FreePtrs THEN None ELSE heap[p]]
    /\ owned' = [p \in StorePtr |-> None] /\ live' = live \ left
    /\ free' = [l \in Layout |-> {}] /\ prepared' = {}
    /\ fault' = \/ fault \/ Misfiled
                \/ \E p \in left : \/ owned[p] \notin type_info \/ p \notin live
                                   \/ heap[p] # LayoutOf[owned[p]]
    /\ UNCHANGED <<type_info, shrunk, broken>>

StorageNext ==
    \/ \E t \in TypeId, p \in StorePtr : MoveIn(t, p) \/ CloneIn(t, p)
    \/ \E p \in StorePtr : MoveOut(p) \/ ForgetInside(p) \/ DropInside(p)
    \/ ShrinkToFit \/ DropStorage

StorageSpec == StorageInit /\ [][StorageNext]_storageVars

-----------------------------------------------------------------------------
(***************************************************************************)
(* Every address is in use for one type or in the free list of the layout  *)
(* it was allocated with, or not allocated; a type in use is known by its  *)
(* TypeInfo, which Drop looks up ("invariant: self.owned keys ALWAYS are   *)
(* mapped in type_info"), and has a free list to go to.                    *)
(***************************************************************************)
Accounted ==
    \A p \in StorePtr :
        /\ heap[p] # None <=> owned[p] # None \/ p \in FreePtrs
        /\ owned[p] # None => /\ p \notin FreePtrs
                              /\ heap[p] = LayoutOf[owned[p]]
                              /\ owned[p] \in type_info
                              /\ LayoutOf[owned[p]] \in prepared
        /\ p \in live => owned[p] # None

(***************************************************************************)
(* No address is lost, used for two values, or given back with another     *)
(* layout, unless shrink_to_fit is called while something is stored; and   *)
(* Drop drops only values, unless a value was cloned that cannot be.       *)
(***************************************************************************)
StorageSound ==
    ~shrunk => /\ Accounted
               /\ ~broken => ~fault /\ live = {p \in StorePtr : owned[p] # None}
=============================================================================
