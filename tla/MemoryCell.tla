----------------------------- MODULE MemoryCell -----------------------------
(***************************************************************************)
(* Memory of graveyard2/reo.rs: a cell that acts as a port towards both    *)
(* sides, and tells a selector by two readiness flags which side would     *)
(* not fail.                                                               *)
(***************************************************************************)
EXTENDS Naturals

CONSTANT MaxPuts     \* bound on accepted puts

VARIABLES slot,      \* data, 0 for None
          offered, taken, acked,   \* the last datum put, received, put with Ok
          ready,     \* readiness of the full and the empty registration
          left       \* {"memory"} once shut down

cellVars == <<slot, offered, taken, acked, ready, left>>

Init == /\ slot = 0 /\ offered = 0 /\ taken = 0 /\ acked = 0
        /\ ready = [full |-> "empty", empty |-> "empty"]
        /\ left = {}

\* update_ready, for the data there is after the step
Updated(data) == IF data = 0 THEN [full |-> "empty", empty |-> "writable"]
                 ELSE [full |-> "writable", empty |-> "empty"]

\* Mutant: the cell does not tell that it is full.
PutQuietly ==
    /\ left = {} /\ offered < MaxPuts
    /\ offered' = offered + 1 /\ slot' = offered + 1
    /\ acked' = IF slot = 0 THEN offered + 1 ELSE acked
    /\ UNCHANGED <<taken, ready, left>>

\* put returns Ok when the cell was empty; on a full one the new datum stays
\* and the old one is the error
Put ==
    /\ left = {} /\ offered < MaxPuts
    /\ offered' = offered + 1 /\ slot' = offered + 1
    /\ acked' = IF slot = 0 THEN offered + 1 ELSE acked
    /\ ready' = IF slot = 0 THEN Updated(slot') ELSE ready
    /\ UNCHANGED <<taken, left>>

\* also after shutdown
Get ==
    /\ slot # 0
    /\ taken' = slot /\ slot' = 0
    /\ ready' = Updated(0)
    /\ UNCHANGED <<offered, acked, left>>

\* a registration handle of reg_g or reg_p is dropped
Registered ==
    /\ ready' = Updated(slot)
    /\ UNCHANGED <<slot, offered, taken, acked, left>>

Shutdown ==
    /\ left = {} /\ left' = {"memory"}
    /\ ready' = [full |-> "writable", empty |-> "writable"]
    /\ UNCHANGED <<slot, offered, taken, acked>>

Next == Put \/ Get \/ Registered \/ Shutdown

Spec == Init /\ [][Next]_cellVars

(***************************************************************************)
(* A cell in use never invites a call that would fail, and once a call has *)
(* succeeded it invites one of its sides.                                  *)
(***************************************************************************)
CertainlyReady ==
    left = {} => /\ ready.full = "writable" => slot # 0
                 /\ ready.empty = "writable" => slot = 0
                 /\ offered > 0 => "writable" \in {ready.full, ready.empty}

H == INSTANCE Handover
HandsOver == H!StoredSpec
=============================================================================
