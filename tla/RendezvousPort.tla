--------------------------- MODULE RendezvousPort ---------------------------
(***************************************************************************)
(* The ports of graveyard2/reo.rs.  The putter leaves a pointer to its     *)
(* stack and waits at two barriers, both sends on one rendezvous channel;  *)
(* between them (state B) the getter may read, then ends with Got or Thaw, *)
(* or is dropped.  A channel without capacity passes a signal in a step of *)
(* both threads.                                                           *)
(***************************************************************************)
EXTENDS Naturals

CONSTANT MaxPuts     \* bound on calls of put and try_put

VARIABLES put,       \* where the putter is: idle, b1, b2, got, thawed, again
          how,       \* its call: put, try (no time limit) or timed
          get,       \* where the getter is: idle, get1, peek1, move, get2, got, thaw2
          putter_state,  \* what the getter thinks: A, BUnpeeked, BPeeked
          slot,      \* the datum on the putter's stack, 0 if moved away or no call
          offered, taken, acked,   \* the last datum put, received, acknowledged
          ready,     \* readiness of the two registrations
          left,      \* dropped halves
          fault      \* a wrong signal, a dead datum read, lost or returned twice

portVars == <<put, how, get, putter_state, slot, offered, taken, acked, ready, left, fault>>

Init ==
    /\ put = "idle" /\ how = "put" /\ get = "idle" /\ putter_state = "A"
    /\ slot = 0 /\ offered = 0 /\ taken = 0 /\ acked = 0
    /\ ready = [putter |-> "empty", getter |-> "empty"]
    /\ left = {} /\ fault = FALSE

-----------------------------------------------------------------------------
(* The putter *)

PutBegin(h) ==
    /\ put = "idle" /\ "putter" \notin left /\ offered < MaxPuts
    /\ put' = "b1" /\ how' = h
    /\ offered' = offered + 1 /\ slot' = offered + 1
    /\ ready' = [ready EXCEPT !.getter = IF h = "put" THEN "writable" ELSE "readable"]
    /\ UNCHANGED <<get, putter_state, taken, acked, left, fault>>

\* Ok forgets the datum, Err gives it back
Return(ok, readiness) ==
    /\ put' = "idle"
    /\ slot' = 0
    /\ acked' = IF ok THEN offered ELSE acked
    /\ fault' = (fault \/ ok # (slot = 0))
    /\ ready' = [ready EXCEPT !.getter = readiness]
    /\ UNCHANGED <<how, get, putter_state, offered, taken, left>>

TimeOut == put = "b1" /\ how = "timed" /\ Return(FALSE, ready.getter)

Disconnected ==
    /\ "getter" \in left /\ put \in {"b1", "b2"}
    /\ Return(FALSE, IF put = "b1" THEN ready.getter ELSE "empty")

PutDone == put = "got" /\ Return(TRUE, "empty")

\* after a thaw try_put looks at the clock, and is tentatively ready again
Thawed ==
    \/ /\ put = "thawed"
       /\ \/ /\ put' = "again"
             /\ ready' = [ready EXCEPT !.getter = "empty"]
             /\ UNCHANGED <<how, get, putter_state, slot, offered, taken, acked, left, fault>>
          \/ how = "timed" /\ Return(FALSE, "empty")
    \/ /\ put = "again"
       /\ put' = "b1"
       /\ ready' = [ready EXCEPT !.getter = "readable"]
       /\ UNCHANGED <<how, get, putter_state, slot, offered, taken, acked, left, fault>>

DropPutter ==
    /\ put = "idle" /\ "putter" \notin left
    /\ left' = left \cup {"putter"}
    /\ ready' = [ready EXCEPT !.getter = "readable"]
    /\ UNCHANGED <<put, how, get, putter_state, slot, offered, taken, acked, fault>>

-----------------------------------------------------------------------------
(* The getter *)

Calls == get = "idle" /\ "getter" \notin left
IsB == putter_state # "A"

GetBegin ==
    /\ Calls
    /\ ready' = [ready EXCEPT !.putter = "writable"]
    /\ get' = IF IsB THEN "move" ELSE "get1"
    /\ UNCHANGED <<put, how, putter_state, slot, offered, taken, acked, left, fault>>

\* peek waits for the putter; in state B it only reads
PeekBegin ==
    /\ Calls
    /\ IF IsB THEN /\ putter_state' = "BPeeked" /\ fault' = (fault \/ slot = 0)
                   /\ UNCHANGED get
              ELSE get' = "peek1" /\ UNCHANGED <<putter_state, fault>>
    /\ UNCHANGED <<put, how, slot, offered, taken, acked, ready, left>>

\* Mutant: the getter believes in state A while the putter is frozen.
FreezeForgotten ==
    /\ Calls /\ ~IsB /\ put = "b1"
    /\ put' = "b2"
    /\ UNCHANGED <<how, get, putter_state, slot, offered, taken, acked, ready, left, fault>>

\* freeze, and try_peek in state A: a send that only succeeds if the putter
\* waits already
Freeze ==
    /\ Calls /\ ~IsB /\ put = "b1"
    /\ put' = "b2"
    /\ \/ putter_state' = "BUnpeeked" /\ UNCHANGED fault
       \/ putter_state' = "BPeeked" /\ fault' = (fault \/ slot = 0)
    /\ UNCHANGED <<how, get, slot, offered, taken, acked, ready, left>>

\* only after freeze, where no peek has been performed
ThawBegin ==
    /\ Calls /\ putter_state = "BUnpeeked"
    /\ get' = "thaw2"
    /\ UNCHANGED <<put, how, putter_state, slot, offered, taken, acked, ready, left, fault>>

Signal == CASE get \in {"get1", "peek1"} -> "AToB"
            [] get = "get2"  -> "BToAGot"
            [] get = "thaw2" -> "BToAThaw"

\* a send that blocks meets recv
Barrier ==
    /\ get \in {"get1", "peek1", "get2", "thaw2"} /\ put \in {"b1", "b2"}
    /\ put' = CASE Signal = "AToB"     -> "b2"
                [] Signal = "BToAGot"  -> "got"
                [] Signal = "BToAThaw" -> IF how = "put" THEN "b1" ELSE "thawed"
    /\ get' = CASE get = "get1" -> "move"
                [] get = "get2" -> "got"
                [] OTHER        -> "idle"
    /\ putter_state' = CASE get = "peek1" -> "BPeeked"
                         [] get = "thaw2" -> "A"
                         [] OTHER         -> putter_state
    /\ fault' = \/ fault
                \/ (put = "b1") # (Signal = "AToB")
                \/ get = "peek1" /\ slot = 0
    /\ UNCHANGED <<how, slot, offered, taken, acked, ready, left>>

\* Mutant: the datum is copied, and stays with the putter.
MoveCopies ==
    /\ get = "move" /\ get' = "get2"
    /\ taken' = slot /\ fault' = (fault \/ slot = 0)
    /\ UNCHANGED <<put, how, putter_state, slot, offered, acked, ready, left>>

\* mem::replace
Move ==
    /\ get = "move" /\ get' = "get2"
    /\ taken' = slot /\ slot' = 0
    /\ fault' = (fault \/ slot = 0)
    /\ UNCHANGED <<put, how, putter_state, offered, acked, ready, left>>

GetDone ==
    /\ get = "got" /\ get' = "idle"
    /\ putter_state' = "A"
    /\ ready' = [ready EXCEPT !.putter = "empty"]
    /\ UNCHANGED <<put, how, slot, offered, taken, acked, left, fault>>

GetFails ==
    /\ "putter" \in left /\ get \in {"get1", "peek1"}
    /\ get' = "idle"
    /\ UNCHANGED <<put, how, putter_state, slot, offered, taken, acked, ready, left, fault>>

\* also in state B: the putter is freed and keeps its datum
DropGetter ==
    /\ Calls
    /\ left' = left \cup {"getter"}
    /\ ready' = [ready EXCEPT !.putter = "readable"]
    /\ UNCHANGED <<put, how, get, putter_state, slot, offered, taken, acked, fault>>

-----------------------------------------------------------------------------
\* what threads in a call do; starting one, dropping a half and running out of
\* time are left to the environment
Progress == \/ Disconnected \/ PutDone \/ Thawed
            \/ Barrier \/ Move \/ GetDone \/ GetFails

Next == \/ Progress \/ TimeOut \/ DropPutter \/ DropGetter
        \/ \E h \in {"put", "try", "timed"} : PutBegin(h)
        \/ GetBegin \/ PeekBegin \/ Freeze \/ ThawBegin

Spec == Init /\ [][Next]_portVars

-----------------------------------------------------------------------------
(***************************************************************************)
(* "The putter cannot return while the Getter considers it to be in        *)
(* stateB": it waits at the second barrier until the getter has sent Got   *)
(* or Thaw, or is gone.                                                    *)
(***************************************************************************)
HeldWhileRead == IsB /\ get # "got" /\ "getter" \notin left => put = "b2"

(***************************************************************************)
(* A port marked as certainly ready stays ready: the getter's registration *)
(* is writable only during put, the putter's only during get, unless the   *)
(* other half is gone.                                                     *)
(***************************************************************************)
CertainlyReady ==
    /\ ready.getter = "writable" => (put # "idle" /\ how = "put") \/ "getter" \in left
    /\ ready.putter = "writable" => get # "idle" \/ "putter" \in left

NoFault == ~fault

\* a put and a get do not wait for each other forever
Served == put = "idle" \/ get = "idle"
NobodyStuck == []<>Served

H == INSTANCE Handover
HandsOver == H!Spec
=============================================================================
