----------------------------- MODULE LockedPort -----------------------------
(***************************************************************************)
(* The ports of graveyard/ports2.rs: a slot under a mutex, a condition     *)
(* variable for putters that find it full, a rendezvous between the putter *)
(* that filled it and the getter that will empty it, and a selector that   *)
(* is told when the slot is filled.  put takes &self, so several threads   *)
(* may use one putter.  A critical section is one action.                  *)
(***************************************************************************)
EXTENDS Naturals

CONSTANTS Thread,    \* threads that put
          MaxPuts,   \* bound on data stored
          MaxEvents  \* bound on unread events, for registrations
                     \* (with which the getter alone could go on)

VARIABLES put,       \* where each putting thread is: idle, lock, wait, send
          get,       \* where the getter is: idle, recv, take, select
          slot,      \* protected.datum, 0 for None
          offered, taken,   \* the last datum stored, the last received
          acked,     \* the last one for which put returned Ok
          listening, \* the listeners there are: get, put
          events,    \* number of unread events: GetReady, PutReady and, for the
                     \* getter's selector, Deregistered and Dropped; putters
                     \* have a selector of their own, and tell it of their Drop
          left,      \* dropped halves
          fault      \* a getter met its putter and found no datum

lockedVars == <<put, get, slot, offered, taken, acked, listening, events, left, fault>>

Init ==
    /\ put = [t \in Thread |-> "idle"] /\ get = "idle"
    /\ slot = 0 /\ offered = 0 /\ taken = 0 /\ acked = 0
    /\ listening = {} /\ events = [GetReady |-> 0, PutReady |-> 0, Notices |-> 0]
    /\ left = {} /\ fault = FALSE

\* notify_all
Woken == [t \in Thread |-> IF put[t] = "wait" THEN "lock" ELSE put[t]]

\* the event is sent to the listener, if there is one
Tell(listener, ev) == IF listener \in listening THEN [events EXCEPT ![ev] = @ + 1] ELSE events

-----------------------------------------------------------------------------
(* The putters *)

PutBegin(t) ==
    /\ put[t] = "idle" /\ "putter" \notin left /\ offered < MaxPuts
    /\ put' = [put EXCEPT ![t] = "lock"]
    /\ UNCHANGED <<get, slot, offered, taken, acked, listening, events, left, fault>>

Store(t) ==
    /\ put[t] = "lock"
    /\ IF slot # 0
       THEN /\ put' = [put EXCEPT ![t] = "wait"]
            /\ UNCHANGED <<slot, offered, events>>
       ELSE /\ offered' = offered + 1 /\ slot' = offered + 1
            /\ events' = Tell("get", "GetReady")
            /\ put' = [put EXCEPT ![t] = "send"]
    /\ UNCHANGED <<get, taken, acked, listening, left, fault>>

\* the send fails, and put returns Ok all the same
SendFails(t) ==
    /\ put[t] = "send" /\ "getter" \in left
    /\ put' = [put EXCEPT ![t] = "idle"] /\ acked' = slot
    /\ UNCHANGED <<get, slot, offered, taken, listening, events, left, fault>>

DropPutter ==
    /\ \A t \in Thread : put[t] = "idle"
    /\ "putter" \notin left
    /\ left' = left \cup {"putter"}
    /\ UNCHANGED <<put, get, slot, offered, taken, acked, listening, events, fault>>

-----------------------------------------------------------------------------
(* The getter *)

Calls == get = "idle" /\ "getter" \notin left

GetBegin ==
    /\ Calls /\ get' = "recv"
    /\ UNCHANGED <<put, slot, offered, taken, acked, listening, events, left, fault>>

\* put returns Ok, before the getter has taken the datum
Meet(t) ==
    /\ put[t] = "send" /\ get = "recv"
    /\ put' = [put EXCEPT ![t] = "idle"] /\ get' = "take" /\ acked' = slot
    /\ UNCHANGED <<slot, offered, taken, listening, events, left, fault>>

\* Mutant: putters that wait for an empty slot are not told.
TakeQuietly ==
    /\ get = "take" /\ get' = "idle"
    /\ taken' = slot /\ slot' = 0
    /\ events' = Tell("put", "PutReady")
    /\ UNCHANGED <<put, offered, acked, listening, left, fault>>

Take ==
    /\ get = "take" /\ get' = "idle"
    /\ IF slot # 0
       THEN /\ taken' = slot /\ slot' = 0 /\ put' = Woken
            /\ events' = Tell("put", "PutReady")
            /\ UNCHANGED fault
       ELSE fault' = TRUE /\ UNCHANGED <<taken, slot, put, events>>
    /\ UNCHANGED <<offered, acked, listening, left>>

GetFails ==
    /\ get = "recv" /\ "putter" \in left
    /\ get' = "idle"
    /\ UNCHANGED <<put, slot, offered, taken, acked, listening, events, left, fault>>

DropGetter ==
    /\ Calls
    /\ left' = left \cup {"getter"}
    /\ put' = Woken
    /\ events' = Tell("get", "Notices")
    /\ UNCHANGED <<get, slot, offered, taken, acked, listening, fault>>

-----------------------------------------------------------------------------
(* The selectors *)

Unread == events.GetReady + events.Notices

\* a getter that registers again is deregistered first; whoever could be served
\* is told at once
RegisterGetter ==
    /\ Calls /\ Unread < MaxEvents
    /\ listening' = listening \cup {"get"}
    /\ events' = [Tell("get", "Notices") EXCEPT !.GetReady = IF slot # 0 THEN @ + 1 ELSE @]
    /\ UNCHANGED <<put, get, slot, offered, taken, acked, left, fault>>

\* twice is an error
RegisterPutter ==
    /\ \A t \in Thread : put[t] = "idle"
    /\ "putter" \notin left /\ "put" \notin listening
    /\ listening' = listening \cup {"put"}
    /\ events' = [events EXCEPT !.PutReady = IF slot = 0 THEN @ + 1 ELSE @]
    /\ UNCHANGED <<put, get, slot, offered, taken, acked, left, fault>>

Deregister ==
    /\ Calls /\ "get" \in listening
    /\ listening' = listening \ {"get"}
    /\ events' = Tell("get", "Notices")
    /\ UNCHANGED <<put, get, slot, offered, taken, acked, left, fault>>

\* the getter's thread waits for its selector until it can get
Select ==
    /\ Calls /\ "get" \in listening /\ get' = "select"
    /\ UNCHANGED <<put, slot, offered, taken, acked, listening, events, left, fault>>

Selected ==
    /\ get = "select"
    /\ \E ev \in {"GetReady", "Notices"} :
        /\ events[ev] > 0 /\ events' = [events EXCEPT ![ev] = @ - 1]
        /\ get' = IF ev = "GetReady" THEN "recv" ELSE "select"
    /\ UNCHANGED <<put, slot, offered, taken, acked, listening, left, fault>>

\* and a putter's for the other
SelectedPutter(t) ==
    /\ put[t] = "idle" /\ "putter" \notin left /\ offered < MaxPuts
    /\ events.PutReady > 0 /\ events' = [events EXCEPT !.PutReady = @ - 1]
    /\ put' = [put EXCEPT ![t] = "lock"]
    /\ UNCHANGED <<get, slot, offered, taken, acked, listening, left, fault>>

-----------------------------------------------------------------------------
Progress == \/ \E t \in Thread : Store(t) \/ SendFails(t) \/ Meet(t)
            \/ Take \/ GetFails \/ Selected

Next == \/ Progress \/ DropPutter \/ DropGetter
        \/ \E t \in Thread : PutBegin(t) \/ SelectedPutter(t)
        \/ GetBegin \/ RegisterGetter \/ RegisterPutter \/ Deregister \/ Select

Spec == Init /\ [][Next]_lockedVars

-----------------------------------------------------------------------------
\* A getter that has met a putter finds a datum.
NoFault == ~fault

(***************************************************************************)
(* A stored datum has a putter that waits to meet the getter, or has just  *)
(* met it; no second datum is stored on top of it.                         *)
(***************************************************************************)
HeldWhileRead ==
    /\ \A t, u \in Thread : put[t] = "send" /\ put[u] = "send" => t = u
    /\ get = "take" => \A t \in Thread : put[t] # "send"
    /\ "getter" \notin left =>
          (slot # 0 <=> get = "take" \/ \E t \in Thread : put[t] = "send")

(***************************************************************************)
(* A getter that listens has an unread event while a datum waits for it;   *)
(* putters that listen have one while the slot is empty, or one of them is *)
(* about to fill it.                                                       *)
(***************************************************************************)
CertainlyReady ==
    /\ "get" \in listening /\ slot # 0 /\ get \in {"idle", "select"} => events.GetReady > 0
    /\ "put" \in listening /\ slot = 0 => events.PutReady > 0 \/ \E t \in Thread : put[t] = "lock"

(***************************************************************************)
(* Putters and a getter that waits, for them or for the selector, do not   *)
(* wait for each other forever.                                            *)
(***************************************************************************)
Served == get = "idle" \/ \A t \in Thread : put[t] = "idle"
NobodyStuck == []<>Served

H == INSTANCE Handover
HandsOver == H!StoredSpec
=============================================================================
