----------------------------- MODULE CachedPort -----------------------------
(***************************************************************************)
(* The ports of graveyard/reo_simplest_working.rs.  The datum travels over *)
(* a rendezvous channel into the getter's hands or, when it only peeks,    *)
(* into its cache; a second rendezvous tells the putter that it is done.   *)
(***************************************************************************)
EXTENDS Naturals

CONSTANT MaxPuts     \* bound on calls of put and try_put

VARIABLES put,       \* where the putter is: idle, send, done, return
          how,       \* its call: put, timed, or now (try_put with and without a
                     \* time limit)
          get,       \* where the getter is: idle, recvget, recvpeek, done, return
          cache,     \* a datum peeked at, 0 for None
          slot,      \* the datum not yet received, 0 for none
          offered, taken, acked,   \* the last datum put, received, acknowledged
          ready,     \* readiness of the two registrations
          left       \* dropped halves

cachedVars == <<put, how, get, cache, slot, offered, taken, acked, ready, left>>

Init ==
    /\ put = "idle" /\ how = "put" /\ get = "idle" /\ cache = 0
    /\ slot = 0 /\ offered = 0 /\ taken = 0 /\ acked = 0
    /\ ready = [putter |-> FALSE, getter |-> FALSE]
    /\ left = {}

-----------------------------------------------------------------------------
(* The putter.  Only put says that it is ready. *)

PutBegin(h) ==
    /\ put = "idle" /\ "putter" \notin left /\ offered < MaxPuts
    /\ put' = "send" /\ how' = h
    /\ offered' = offered + 1 /\ slot' = offered + 1
    /\ ready' = IF h = "put" THEN [ready EXCEPT !.getter = TRUE] ELSE ready
    /\ UNCHANGED <<get, cache, taken, acked, left>>

\* the datum is the caller's again, or dropped
Fail == /\ put' = "idle" /\ slot' = 0
        /\ UNCHANGED <<how, get, cache, offered, taken, acked, ready, left>>

TimeOut == put = "send" /\ how # "put" /\ Fail

Disconnected == "getter" \in left /\ put \in {"send", "done"} /\ Fail

PutReturn ==
    /\ put = "return" /\ put' = "idle"
    /\ acked' = offered
    /\ ready' = [ready EXCEPT !.getter = FALSE]
    /\ UNCHANGED <<how, get, cache, slot, offered, taken, left>>

DropPutter ==
    /\ put = "idle" /\ "putter" \notin left
    /\ left' = left \cup {"putter"}
    /\ ready' = [ready EXCEPT !.getter = TRUE]
    /\ UNCHANGED <<put, how, get, cache, slot, offered, taken, acked>>

-----------------------------------------------------------------------------
(* The getter *)

Calls == get = "idle" /\ "getter" \notin left

\* a cached datum is taken at once, any other is waited for
GetBegin ==
    /\ Calls
    /\ IF cache # 0
       THEN /\ taken' = cache /\ cache' = 0 /\ slot' = 0 /\ get' = "done"
            /\ UNCHANGED ready
       ELSE /\ get' = "recvget"
            /\ ready' = [ready EXCEPT !.putter = TRUE]
            /\ UNCHANGED <<taken, cache, slot>>
    /\ UNCHANGED <<put, how, offered, acked, left>>

PeekBegin ==
    /\ Calls /\ cache = 0
    /\ get' = "recvpeek"
    /\ ready' = [ready EXCEPT !.putter = TRUE]
    /\ UNCHANGED <<put, how, cache, slot, offered, taken, acked, left>>

\* Mutant: peeking frees the putter.
TryPeekFrees ==
    /\ Calls /\ cache = 0 /\ put = "send" /\ how # "now"
    /\ put' = "return" /\ cache' = slot
    /\ ready' = [ready EXCEPT !.putter = TRUE]
    /\ UNCHANGED <<how, get, slot, offered, taken, acked, left>>

\* try_recv meets a putter that waits already, which try_send never does
TryPeek ==
    /\ Calls /\ cache = 0 /\ put = "send" /\ how # "now"
    /\ put' = "done" /\ cache' = slot
    /\ ready' = [ready EXCEPT !.putter = TRUE]
    /\ UNCHANGED <<how, get, slot, offered, taken, acked, left>>

\* the rendezvous of data
Pass ==
    /\ put = "send" /\ get \in {"recvget", "recvpeek"}
    /\ put' = "done"
    /\ IF get = "recvpeek"
       THEN cache' = slot /\ get' = "idle" /\ UNCHANGED <<taken, slot>>
       ELSE taken' = slot /\ slot' = 0 /\ get' = "done" /\ UNCHANGED cache
    /\ UNCHANGED <<how, offered, acked, ready, left>>

\* the rendezvous of done_sig
DoneSig ==
    /\ put = "done" /\ get = "done"
    /\ put' = "return" /\ get' = "return"
    /\ UNCHANGED <<how, cache, slot, offered, taken, acked, ready, left>>

GetReturn ==
    /\ get = "return" /\ get' = "idle"
    /\ ready' = [ready EXCEPT !.putter = FALSE]
    /\ UNCHANGED <<put, how, cache, slot, offered, taken, acked, left>>

GetFails ==
    /\ "putter" \in left /\ get \in {"recvget", "recvpeek"}
    /\ get' = "idle"
    /\ UNCHANGED <<put, how, cache, slot, offered, taken, acked, ready, left>>

\* a cached datum is dropped with the getter
DropGetter ==
    /\ Calls
    /\ left' = left \cup {"getter"}
    /\ ready' = [ready EXCEPT !.putter = TRUE]
    /\ slot' = IF cache # 0 THEN 0 ELSE slot
    /\ cache' = 0
    /\ UNCHANGED <<put, how, get, offered, taken, acked>>

-----------------------------------------------------------------------------
Progress == Disconnected \/ PutReturn \/ Pass \/ DoneSig \/ GetReturn \/ GetFails

Next == \/ Progress \/ TimeOut \/ DropPutter \/ DropGetter
        \/ \E h \in {"put", "timed", "now"} : PutBegin(h)
        \/ GetBegin \/ PeekBegin \/ TryPeek

Spec == Init /\ [][Next]_cachedVars

-----------------------------------------------------------------------------
\* A putter whose datum is peeked at waits for the getter.
HeldWhileRead == cache # 0 => put = "done" /\ slot = cache

(***************************************************************************)
(* A half marked as ready is in a call that waits for the other half, or   *)
(* done waiting, or has a datum for it; a half is also marked when the     *)
(* other one is gone.                                                      *)
(***************************************************************************)
CertainlyReady ==
    /\ ready.getter => put # "idle" \/ left # {}
    /\ ready.putter => get # "idle" \/ cache # 0 \/ left # {}

Served == put = "idle" \/ get = "idle"
NobodyStuck == []<>Served

H == INSTANCE Handover
HandsOver == H!Spec
=============================================================================
