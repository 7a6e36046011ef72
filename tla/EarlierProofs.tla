--------------------------- MODULE EarlierProofs ---------------------------
(***************************************************************************)
(* The earlier versions: ports for any number of puts and, where a putter  *)
(* is shared, of threads, the protocol without a lock for any locations    *)
(* and rules, and, with GroupProofs, all of them.  Every section has one   *)
(* inductive invariant.                                                    *)
(***************************************************************************)
EXTENDS Earlier, FiniteSetTheorems, SequenceTheorems, WellFoundedInduction, TLAPS

Data == /\ slot \in Nat /\ offered \in Nat /\ taken \in Nat /\ acked \in Nat
Halves == left \subseteq {"putter", "getter"}

-----------------------------------------------------------------------------
(* The memory cell *)

MemoryInv ==
    /\ Data
    /\ slot <= offered
    /\ ready \in [full : {"empty", "writable"}, empty : {"empty", "writable"}]
    /\ Memory!CertainlyReady

LEMMA MemoryInit ==
    ASSUME Memory!Init
    PROVE  MemoryInv
  BY DEF Memory!Init, MemoryInv, Data, Memory!CertainlyReady

LEMMA MemoryStep ==
    ASSUME MemoryInv, Memory!Next
    PROVE  MemoryInv' /\ (Promise!StoredNext \/ UNCHANGED <<slot, offered, taken, acked>>)
  <1> USE DEF MemoryInv, Data, Memory!CertainlyReady, Memory!Updated
  <1>1. CASE Memory!Put
    BY <1>1 DEF Memory!Put, Promise!StoredNext, Promise!Offer, Promise!OfferAndAnswer
  <1>2. CASE Memory!Get
    BY <1>2 DEF Memory!Get, Promise!StoredNext, Promise!Take
  <1>3. CASE Memory!Registered
    BY <1>3 DEF Memory!Registered
  <1>4. CASE Memory!Shutdown
    BY <1>4 DEF Memory!Shutdown
  <1> QED BY <1>1, <1>2, <1>3, <1>4 DEF Memory!Next

LEMMA MemoryBox ==
    ASSUME MemoryInv, [Memory!Next]_Memory!cellVars
    PROVE  MemoryInv' /\ [Promise!StoredNext]_<<slot, offered, taken, acked>>
  <1>1. CASE UNCHANGED Memory!cellVars
    BY <1>1 DEF Memory!cellVars, MemoryInv, Data, Memory!CertainlyReady
  <1> QED BY <1>1, MemoryStep

(***************************************************************************)
(* Memory of graveyard2/reo.rs never invites a call that would fail, and   *)
(* once a put has succeeded it invites one of its sides, until it is shut  *)
(* down.                                                                   *)
(***************************************************************************)
THEOREM MemoryIsCertainlyReady == Memory!Spec => []Memory!CertainlyReady
  <1>1. MemoryInv => Memory!CertainlyReady
    BY DEF MemoryInv
  <1> QED BY <1>1, MemoryInit, MemoryBox, PTL DEF Memory!Spec

(***************************************************************************)
(* The cell hands every datum over at most once, in order, and put returns *)
(* Ok when it has stored its datum; a datum that is overwritten is never   *)
(* received, whatever its putter was told.                                 *)
(***************************************************************************)
THEOREM MemoryHandsOver == Memory!Spec => Promise!StoredSpec
  <1>1. Memory!Init => Promise!Init
    BY DEF Memory!Init, Promise!Init
  <1> QED BY <1>1, MemoryInit, MemoryBox, PTL DEF Memory!Spec, Promise!StoredSpec

-----------------------------------------------------------------------------
(* The cached port *)

\* whose datum it is: the getter's once it is done, and the cache's before
CachedInv ==
    /\ Data /\ Halves
    /\ put \in {"idle", "send", "done", "return"} /\ how \in {"put", "timed", "now"}
    /\ get \in {"idle", "recvget", "recvpeek", "done", "return"}
    /\ cache \in Nat /\ ready \in [putter : BOOLEAN, getter : BOOLEAN]
    /\ put \in {"idle", "return"} => slot = 0
    /\ put = "send" => slot = offered /\ slot # 0
    /\ put = "done" => slot = IF get = "done" THEN 0 ELSE cache
    /\ put = "done" /\ "getter" \notin left => cache # 0 \/ get = "done"
    /\ put = "return" \/ get = "done" => taken = offered
    /\ cache # 0 => put = "done" /\ cache = offered /\ get = "idle"
    /\ get = "done" => put = "done"
    /\ "getter" \in left => get = "idle" /\ cache = 0
    /\ ready.getter => (put # "idle" /\ how = "put") \/ left # {}
    /\ ready.putter => get # "idle" \/ cache # 0 \/ left # {}

LEMMA CachedInit ==
    ASSUME Cached!Init
    PROVE  CachedInv
  BY DEF Cached!Init, CachedInv, Data, Halves

LEMMA CachedStep ==
    ASSUME CachedInv, Cached!Next
    PROVE  CachedInv' /\ (Promise!Next \/ UNCHANGED <<slot, offered, taken, acked>>)
  <1> USE DEF CachedInv, Data, Halves
  <1>1. CASE \E h \in {"put", "timed", "now"} : Cached!PutBegin(h)
    <2> PICK h \in {"put", "timed", "now"} : Cached!PutBegin(h)
      BY <1>1
    <2>1. CASE h = "put"
      <3>1. /\ ready' \in [putter : BOOLEAN, getter : BOOLEAN] /\ ready'.putter = ready.putter
            /\ how' = "put" /\ put' = "send" /\ UNCHANGED <<get, cache, left, taken, acked>>
            /\ offered' = offered + 1 /\ slot' = offered + 1 /\ put = "idle"
        BY <2>1 DEF Cached!PutBegin
      <3>2. CachedInv'
        BY <3>1
      <3> QED BY <3>1, <3>2 DEF Promise!Next, Promise!Offer
    <2>2. CASE h # "put"
      BY <2>2 DEF Cached!PutBegin, Promise!Next, Promise!Offer
    <2> QED BY <2>1, <2>2
  <1>2. CASE Cached!TimeOut
    BY <1>2 DEF Cached!TimeOut, Cached!Fail, Promise!Next, Promise!Withdraw
  <1>3. CASE Cached!Disconnected
    BY <1>3 DEF Cached!Disconnected, Cached!Fail, Promise!Next, Promise!Withdraw
  <1>4. CASE Cached!PutReturn
    BY <1>4 DEF Cached!PutReturn, Promise!Next, Promise!Acknowledge
  <1>5. CASE Cached!DropPutter
    BY <1>5 DEF Cached!DropPutter
  <1>6. CASE Cached!GetBegin
    <2>1. CASE cache # 0
      BY <1>6, <2>1 DEF Cached!GetBegin, Cached!Calls, Promise!Next, Promise!Take
    <2>2. CASE cache = 0
      BY <1>6, <2>2 DEF Cached!GetBegin, Cached!Calls
    <2> QED BY <2>1, <2>2
  <1>7. CASE Cached!PeekBegin
    BY <1>7 DEF Cached!PeekBegin, Cached!Calls
  <1>8. CASE Cached!TryPeek
    BY <1>8 DEF Cached!TryPeek, Cached!Calls
  <1>9. CASE Cached!Pass
    BY <1>9 DEF Cached!Pass, Promise!Next, Promise!Take
  <1>10. CASE Cached!DoneSig
    BY <1>10 DEF Cached!DoneSig
  <1>11. CASE Cached!GetReturn
    BY <1>11 DEF Cached!GetReturn
  <1>12. CASE Cached!GetFails
    BY <1>12 DEF Cached!GetFails
  <1>13. CASE Cached!DropGetter
    BY <1>13 DEF Cached!DropGetter, Cached!Calls, Promise!Next, Promise!Withdraw
  <1> QED BY <1>1, <1>2, <1>3, <1>4, <1>5, <1>6, <1>7, <1>8, <1>9, <1>10, <1>11, <1>12, <1>13
          DEF Cached!Next, Cached!Progress

LEMMA CachedSafe ==
    ASSUME CachedInv
    PROVE  Cached!HeldWhileRead /\ Cached!CertainlyReady
  BY DEF CachedInv, Cached!HeldWhileRead, Cached!CertainlyReady

LEMMA CachedBox ==
    ASSUME CachedInv, [Cached!Next]_Cached!cachedVars
    PROVE  CachedInv' /\ [Promise!Next]_<<slot, offered, taken, acked>>
  <1>1. CASE UNCHANGED Cached!cachedVars
    BY <1>1 DEF Cached!cachedVars, CachedInv, Data, Halves
  <1> QED BY <1>1, CachedStep

(***************************************************************************)
(* In graveyard/reo_simplest_working.rs a putter whose datum is peeked at  *)
(* stays in its call, and a half that is marked as ready is: the other one *)
(* finds it in a call, or is gone.                                         *)
(***************************************************************************)
THEOREM CachedPortIsSafe ==
    Cached!Spec => [](Cached!HeldWhileRead /\ Cached!CertainlyReady)
  <1>1. CachedInv => Cached!HeldWhileRead /\ Cached!CertainlyReady
    BY CachedSafe
  <1> QED BY <1>1, CachedInit, CachedBox, PTL DEF Cached!Spec

(***************************************************************************)
(* Each datum is received at most once, in order, and put returns Ok only  *)
(* when its datum has been received; a put that fails withdraws it.        *)
(***************************************************************************)
THEOREM CachedPortHandsOver == Cached!Spec => Promise!Spec
  <1>1. Cached!Init => Promise!Init
    BY DEF Cached!Init, Promise!Init
  <1> QED BY <1>1, CachedInit, CachedBox, PTL DEF Cached!Spec, Promise!Spec

-----------------------------------------------------------------------------
(* The port with two barriers *)

\* where the two threads can be at once: the putter is at its second barrier
\* just when the getter believes it frozen, or has met it and not yet let go
BarrierInv ==
    /\ get \in {"move", "get2", "thaw2"} => put = "b2"
    /\ put = "b2" => get \in {"move", "get2", "thaw2", "idle"}
    /\ get = "idle" /\ "getter" \notin left => (put = "b2" <=> putter_state # "A")
    /\ get \in {"get1", "peek1"} => putter_state = "A"
    /\ get = "thaw2" => putter_state = "BUnpeeked"
    /\ get = "got" => put \in {"got", "idle", "b1"}
    /\ "getter" \in left => get = "idle"

\* where the datum is
StackInv ==
    /\ put = "idle" => slot = 0
    /\ put \in {"b1", "thawed", "again"} => slot = offered /\ slot # 0
    /\ put = "b2" /\ get # "get2" => slot = offered /\ slot # 0
    /\ put = "b2" /\ get = "get2" => slot = 0 /\ taken = offered
    /\ put = "got" => slot = 0 /\ taken = offered

RendezvousInv ==
    /\ Data /\ Halves /\ ~fault
    /\ put \in {"idle", "b1", "b2", "got", "thawed", "again"} /\ how \in {"put", "try", "timed"}
    /\ get \in {"idle", "get1", "peek1", "move", "get2", "got", "thaw2"}
    /\ putter_state \in {"A", "BUnpeeked", "BPeeked"}
    /\ ready \in [putter : {"empty", "readable", "writable"},
                  getter : {"empty", "readable", "writable"}]
    /\ BarrierInv /\ StackInv
    /\ ready.getter = "writable" => (put # "idle" /\ how = "put") \/ "getter" \in left
    /\ ready.putter = "writable" =>
          get \in {"get1", "move", "get2", "got"} \/ "putter" \in left

LEMMA RendezvousInit ==
    ASSUME Rendezvous!Init
    PROVE  RendezvousInv
  BY DEF Rendezvous!Init, RendezvousInv, Data, Halves, BarrierInv, StackInv

LEMMA ReturnOk ==
    ASSUME RendezvousInv, Rendezvous!Return(TRUE, "empty"), put = "got"
    PROVE  RendezvousInv' /\ Promise!Next
  <1> USE DEF RendezvousInv, Data, Halves, BarrierInv, StackInv
  <1> QED BY DEF Rendezvous!Return, Promise!Next, Promise!Acknowledge

LEMMA ReturnErr ==
    ASSUME RendezvousInv, put \in {"b1", "b2", "thawed"}, put = "b2" => "getter" \in left,
           NEW r \in {"empty", "readable", "writable"}, r = "writable" => "getter" \in left,
           Rendezvous!Return(FALSE, r)
    PROVE  RendezvousInv' /\ Promise!Next
  <1> USE DEF RendezvousInv, Data, Halves, BarrierInv, StackInv
  <1>1. /\ ready' \in [putter : {"empty", "readable", "writable"},
                       getter : {"empty", "readable", "writable"}]
        /\ ready'.putter = ready.putter /\ ready'.getter = r
    BY DEF Rendezvous!Return
  <1>2. /\ put' = "idle" /\ slot' = 0 /\ acked' = acked /\ slot # 0 /\ ~fault'
        /\ UNCHANGED <<how, get, putter_state, offered, taken, left>>
    BY DEF Rendezvous!Return
  <1>3. RendezvousInv'
    BY <1>1, <1>2
  <1> QED BY <1>2, <1>3 DEF Promise!Next, Promise!Withdraw

LEMMA BarrierStep ==
    ASSUME RendezvousInv, Rendezvous!Barrier
    PROVE  RendezvousInv' /\ UNCHANGED <<slot, offered, taken, acked>>
  <1> USE DEF RendezvousInv, Data, Halves, BarrierInv, StackInv, Rendezvous!Barrier, Rendezvous!Signal
  <1>1. CASE get = "get1"
    BY <1>1
  <1>2. CASE get = "peek1"
    BY <1>2
  <1>3. CASE get = "get2"
    BY <1>3
  <1>4. CASE get = "thaw2"
    BY <1>4
  <1> QED BY <1>1, <1>2, <1>3, <1>4

LEMMA RendezvousStep ==
    ASSUME RendezvousInv, Rendezvous!Next
    PROVE  RendezvousInv' /\ (Promise!Next \/ UNCHANGED <<slot, offered, taken, acked>>)
  <1> USE DEF RendezvousInv, Data, Halves, BarrierInv, StackInv, Rendezvous!Calls, Rendezvous!IsB
  <1>1. CASE \E h \in {"put", "try", "timed"} : Rendezvous!PutBegin(h)
    <2> PICK h \in {"put", "try", "timed"} : Rendezvous!PutBegin(h)
      BY <1>1
    <2>1. /\ ready' \in [putter : {"empty", "readable", "writable"},
                         getter : {"empty", "readable", "writable"}]
          /\ ready'.putter = ready.putter
          /\ ready'.getter = "writable" => h = "put"
      BY DEF Rendezvous!PutBegin
    <2>2. /\ how' = h /\ put = "idle" /\ put' = "b1" /\ offered' = offered + 1 /\ slot' = offered + 1
          /\ UNCHANGED <<get, putter_state, taken, acked, left, fault>>
      BY DEF Rendezvous!PutBegin
    <2> QED BY <2>1, <2>2 DEF Promise!Next, Promise!Offer
  <1>2. CASE Rendezvous!TimeOut
    BY <1>2, ReturnErr DEF Rendezvous!TimeOut
  <1>3. CASE Rendezvous!Disconnected
    BY <1>3, ReturnErr DEF Rendezvous!Disconnected
  <1>4. CASE Rendezvous!PutDone
    BY <1>4, ReturnOk DEF Rendezvous!PutDone
  <1>5. CASE Rendezvous!Thawed
    <2>1. CASE put = "thawed" /\ how = "timed" /\ Rendezvous!Return(FALSE, "empty")
      BY <2>1, ReturnErr
    <2>2. CASE put = "thawed" /\ put' = "again"
      BY <1>5, <2>2 DEF Rendezvous!Thawed, Rendezvous!Return
    <2>3. CASE put = "again"
      BY <1>5, <2>3 DEF Rendezvous!Thawed
    <2> QED BY <1>5, <2>1, <2>2, <2>3 DEF Rendezvous!Thawed
  <1>6. CASE Rendezvous!DropPutter
    BY <1>6 DEF Rendezvous!DropPutter
  <1>7. CASE Rendezvous!GetBegin
    BY <1>7 DEF Rendezvous!GetBegin
  <1>8. CASE Rendezvous!PeekBegin
    BY <1>8 DEF Rendezvous!PeekBegin
  <1>9. CASE Rendezvous!Freeze
    <2>1. /\ get = "idle" /\ "getter" \notin left /\ put = "b1" /\ put' = "b2" /\ slot # 0
          /\ UNCHANGED <<how, get, slot, offered, taken, acked, ready, left>>
      BY <1>9 DEF Rendezvous!Freeze
    <2>2. putter_state' \in {"BUnpeeked", "BPeeked"} /\ ~fault'
      <3>1. CASE putter_state' = "BUnpeeked" /\ UNCHANGED fault
        BY <3>1
      <3>2. CASE putter_state' = "BPeeked" /\ fault' = (fault \/ slot = 0)
        BY <2>1, <3>2
      <3> QED BY <1>9, <3>1, <3>2 DEF Rendezvous!Freeze
    <2> QED BY <2>1, <2>2
  <1>10. CASE Rendezvous!ThawBegin
    BY <1>10 DEF Rendezvous!ThawBegin
  <1>11. CASE Rendezvous!Barrier
    BY <1>11, BarrierStep
  <1>12. CASE Rendezvous!Move
    BY <1>12 DEF Rendezvous!Move, Promise!Next, Promise!Take
  <1>13. CASE Rendezvous!GetDone
    BY <1>13 DEF Rendezvous!GetDone
  <1>14. CASE Rendezvous!GetFails
    BY <1>14 DEF Rendezvous!GetFails
  <1>15. CASE Rendezvous!DropGetter
    BY <1>15 DEF Rendezvous!DropGetter
  <1> QED BY <1>1, <1>2, <1>3, <1>4, <1>5, <1>6, <1>7, <1>8, <1>9, <1>10, <1>11, <1>12, <1>13,
             <1>14, <1>15 DEF Rendezvous!Next, Rendezvous!Progress

LEMMA RendezvousSafe ==
    ASSUME RendezvousInv
    PROVE  Rendezvous!NoFault /\ Rendezvous!HeldWhileRead /\ Rendezvous!CertainlyReady
  BY DEF RendezvousInv, BarrierInv, Rendezvous!NoFault, Rendezvous!HeldWhileRead,
         Rendezvous!CertainlyReady, Rendezvous!IsB

LEMMA RendezvousBox ==
    ASSUME RendezvousInv, [Rendezvous!Next]_Rendezvous!portVars
    PROVE  RendezvousInv' /\ [Promise!Next]_<<slot, offered, taken, acked>>
  <1>1. CASE UNCHANGED Rendezvous!portVars
    BY <1>1 DEF Rendezvous!portVars, RendezvousInv, Data, Halves, BarrierInv, StackInv
  <1> QED BY <1>1, RendezvousStep

(***************************************************************************)
(* In graveyard2/reo.rs no half meets a signal it did not expect, reads a  *)
(* datum that is gone, or forgets or returns one twice; the putter cannot  *)
(* return while the getter believes it frozen; and a half marked as        *)
(* certainly ready is.                                                     *)
(***************************************************************************)
THEOREM RendezvousPortIsSafe ==
    Rendezvous!Spec =>
        [](Rendezvous!NoFault /\ Rendezvous!HeldWhileRead /\ Rendezvous!CertainlyReady)
  <1>1. RendezvousInv =>
            Rendezvous!NoFault /\ Rendezvous!HeldWhileRead /\ Rendezvous!CertainlyReady
    BY RendezvousSafe
  <1> QED BY <1>1, RendezvousInit, RendezvousBox, PTL DEF Rendezvous!Spec

(***************************************************************************)
(* Each datum is received at most once, in order, and put returns Ok just  *)
(* when its datum has been received; freezing and thawing change nothing.  *)
(***************************************************************************)
THEOREM RendezvousPortHandsOver == Rendezvous!Spec => Promise!Spec
  <1>1. Rendezvous!Init => Promise!Init
    BY DEF Rendezvous!Init, Promise!Init
  <1> QED BY <1>1, RendezvousInit, RendezvousBox, PTL DEF Rendezvous!Spec, Promise!Spec

-----------------------------------------------------------------------------
(* The port under a mutex, whose putter any number of threads may share *)

Sends(t) == put[t] = "send"

\* one thread, at most, has a datum in the slot that it is yet to meet the
\* getter for
SlotInv ==
    /\ \A t, u \in Thread : Sends(t) /\ Sends(u) => t = u
    /\ \A t \in Thread : Sends(t) => get # "take" /\ slot # 0
    /\ get = "take" => slot # 0
    /\ slot # 0 => slot = offered
    /\ slot # 0 /\ "getter" \notin left => get = "take" \/ \E t \in Thread : Sends(t)

LockedInv ==
    /\ Data /\ Halves /\ ~fault
    /\ put \in [Thread -> {"idle", "lock", "wait", "send"}]
    /\ get \in {"idle", "recv", "take", "select"}
    /\ listening \subseteq {"get", "put"}
    /\ events \in [GetReady : Nat, PutReady : Nat, Notices : Nat]
    /\ "putter" \in left => \A t \in Thread : put[t] = "idle"
    /\ "getter" \in left => get = "idle"
    /\ SlotInv /\ Locked!CertainlyReady

LEMMA LockedInit ==
    ASSUME Locked!Init
    PROVE  LockedInv
  BY DEF Locked!Init, LockedInv, Data, Halves, SlotInv, Sends, Locked!CertainlyReady

LEMMA Told ==
    ASSUME events \in [GetReady : Nat, PutReady : Nat, Notices : Nat],
           NEW l, NEW ev \in {"GetReady", "PutReady", "Notices"}
    PROVE  /\ Locked!Tell(l, ev) \in [GetReady : Nat, PutReady : Nat, Notices : Nat]
           /\ \A e \in {"GetReady", "PutReady", "Notices"} :
                 events[e] > 0 \/ (e = ev /\ l \in listening) => Locked!Tell(l, ev)[e] > 0
  BY DEF Locked!Tell

LEMMA LockedStep ==
    ASSUME LockedInv, Locked!Next
    PROVE  LockedInv' /\ (Promise!StoredNext \/ UNCHANGED <<slot, offered, taken, acked>>)
  <1> USE DEF LockedInv, Data, Halves, SlotInv, Sends, Locked!CertainlyReady, Locked!Calls, Locked!Woken
  <1>1. ASSUME NEW t \in Thread, Locked!PutBegin(t)
        PROVE  LockedInv' /\ UNCHANGED <<slot, offered, taken, acked>>
    BY <1>1 DEF Locked!PutBegin
  <1>2. ASSUME NEW t \in Thread, Locked!Store(t)
        PROVE  LockedInv' /\ (Promise!StoredNext \/ UNCHANGED <<slot, offered, taken, acked>>)
    <2>1. CASE slot # 0
      BY <1>2, <2>1 DEF Locked!Store
    <2>2. CASE slot = 0
      BY <1>2, <2>2, Told DEF Locked!Store, Promise!StoredNext, Promise!Offer
    <2> QED BY <2>1, <2>2
  <1>3. ASSUME NEW t \in Thread, Locked!SendFails(t)
        PROVE  LockedInv' /\ Promise!StoredNext
    BY <1>3 DEF Locked!SendFails, Promise!StoredNext, Promise!Answer
  <1>4. CASE Locked!DropPutter
    BY <1>4 DEF Locked!DropPutter
  <1>5. CASE Locked!GetBegin
    BY <1>5 DEF Locked!GetBegin
  <1>6. ASSUME NEW t \in Thread, Locked!Meet(t)
        PROVE  LockedInv' /\ Promise!StoredNext
    BY <1>6 DEF Locked!Meet, Promise!StoredNext, Promise!Answer
  <1>7. CASE Locked!Take
    BY <1>7, Told DEF Locked!Take, Promise!StoredNext, Promise!Take
  <1>8. CASE Locked!GetFails
    BY <1>8 DEF Locked!GetFails
  <1>9. CASE Locked!DropGetter
    <2>1. /\ get = "idle" /\ left' = left \cup {"getter"} /\ UNCHANGED <<get, slot, offered, taken, listening, acked, fault>>
          /\ put' = [t \in Thread |-> IF put[t] = "wait" THEN "lock" ELSE put[t]]
      BY <1>9 DEF Locked!DropGetter
    <2>2. /\ events' \in [GetReady : Nat, PutReady : Nat, Notices : Nat]
          /\ events.GetReady > 0 => events'.GetReady > 0
          /\ events.PutReady > 0 => events'.PutReady > 0
      BY <1>9, Told DEF Locked!DropGetter
    <2> QED BY <2>1, <2>2
  <1>10. CASE Locked!RegisterGetter
    <2>1. PICK e : e = Locked!Tell("get", "Notices")
      OBVIOUS
    <2>2. /\ e \in [GetReady : Nat, PutReady : Nat, Notices : Nat]
          /\ events.GetReady > 0 => e.GetReady > 0
          /\ events.PutReady > 0 => e.PutReady > 0
      BY <2>1, Told
    <2>3. /\ listening' = listening \cup {"get"}
          /\ events' = [e EXCEPT !.GetReady = IF slot # 0 THEN @ + 1 ELSE @]
          /\ UNCHANGED <<put, get, slot, offered, taken, acked, left, fault>>
      BY <1>10, <2>1 DEF Locked!RegisterGetter
    <2> QED BY <2>2, <2>3
  <1>11. CASE Locked!RegisterPutter
    BY <1>11 DEF Locked!RegisterPutter
  <1>12. CASE Locked!Deregister
    BY <1>12, Told DEF Locked!Deregister
  <1>13. CASE Locked!Select
    BY <1>13 DEF Locked!Select
  <1>14. CASE Locked!Selected
    BY <1>14 DEF Locked!Selected
  <1>15. ASSUME NEW t \in Thread, Locked!SelectedPutter(t)
         PROVE  LockedInv' /\ UNCHANGED <<slot, offered, taken, acked>>
    BY <1>15 DEF Locked!SelectedPutter
  <1> HIDE DEF LockedInv
  <1> QED BY <1>1, <1>2, <1>3, <1>4, <1>5, <1>6, <1>7, <1>8, <1>9, <1>10, <1>11, <1>12, <1>13,
             <1>14, <1>15 DEF Locked!Next, Locked!Progress

LEMMA LockedSafe ==
    ASSUME LockedInv
    PROVE  Locked!NoFault /\ Locked!HeldWhileRead /\ Locked!CertainlyReady
  BY DEF LockedInv, SlotInv, Sends, Locked!NoFault, Locked!HeldWhileRead

LEMMA LockedBox ==
    ASSUME LockedInv, [Locked!Next]_Locked!lockedVars
    PROVE  LockedInv' /\ [Promise!StoredNext]_<<slot, offered, taken, acked>>
  <1>1. CASE UNCHANGED Locked!lockedVars
    BY <1>1 DEF Locked!lockedVars, LockedInv, Data, Halves, SlotInv, Sends, Locked!CertainlyReady
  <1> QED BY <1>1, LockedStep

(***************************************************************************)
(* In graveyard/ports2.rs, however many threads put, a getter that has met *)
(* a putter finds a datum, no datum is stored on top of another, and who   *)
(* listens for an event that is due has one to read.                       *)
(***************************************************************************)
THEOREM LockedPortIsSafe ==
    Locked!Spec => [](Locked!NoFault /\ Locked!HeldWhileRead /\ Locked!CertainlyReady)
  <1>1. LockedInv => Locked!NoFault /\ Locked!HeldWhileRead /\ Locked!CertainlyReady
    BY LockedSafe
  <1> QED BY <1>1, LockedInit, LockedBox, PTL DEF Locked!Spec

(***************************************************************************)
(* Whatever threads put, each datum is received at most once, in order,    *)
(* and put returns Ok while its datum is still stored, to be taken by the  *)
(* getter it has met, or by nobody when there is no getter left.           *)
(***************************************************************************)
THEOREM LockedPortHandsOver == Locked!Spec => Promise!StoredSpec
  <1>1. Locked!Init => Promise!Init
    BY DEF Locked!Init, Promise!Init
  <1> QED BY <1>1, LockedInit, LockedBox, PTL DEF Locked!Spec, Promise!StoredSpec

-----------------------------------------------------------------------------
(* The protocol without a lock *)

Active == {"enter", "drain", "fire", "recv"}

RacyTypes ==
    /\ building \in Seq(Racy!Rule) /\ rules \in Seq(Racy!Rule) /\ built \in BOOLEAN
    /\ id_type \in [Ids -> {"none", "Pu", "Ge", "Mem"}]
    /\ ready \in [Ids -> {"none", "PUTTY", "GETTY"}]
    /\ at \in [Ids -> {"idle", "enter", "drain", "fire", "recv", "collect"}]
    /\ rule \in [Ids -> Nat] /\ todo \in [Ids -> SUBSET Ids]
    /\ msg \in [Ids -> Nat] /\ sent \in [Ids -> Nat]
    /\ sema \in [Ids -> Nat] /\ awaited \in [Ids -> Nat] /\ fault \in BOOLEAN

Origin == /\ \E d \in RacyDefs : d = rules \o building
          /\ built => building = <<>>

Roles ==
    /\ \A n \in DOMAIN rules :
          /\ id_type[rules[n].putter] = IF rules[n].is_mem THEN "Mem" ELSE "Pu"
          /\ \A g \in rules[n].getters : id_type[g] = "Ge"
          /\ \A g \in rules[n].mem_getters : id_type[g] = "Mem"
    /\ \A i \in Ids : id_type[i] # "none" => Racy!InRules(i, rules)

Fresh == \A i \in Ids : ready[i] = "none" /\ at[i] = "idle" /\ sent[i] = 0 /\ sema[i] = 0

Threads ==
    \A i \in Ids :
        /\ at[i] # "idle" => id_type[i] \in {"Pu", "Ge"}
        /\ at[i] = "collect" => id_type[i] = "Pu"
        /\ ready[i] = "PUTTY" => id_type[i] = "Pu"
        /\ ready[i] = "GETTY" => id_type[i] = "Ge"
        /\ at[i] = "enter" => rule[i] >= 1
        /\ at[i] \in {"drain", "fire"} => rule[i] \in DOMAIN rules /\ Racy!Fires(rules[rule[i]])

\* the putters of rules; what concerns the rules of one of them
Sources == {rules[n].putter : n \in DOMAIN rules}
Gets(p) == {g \in Ids : \E n \in DOMAIN rules : rules[n].putter = p /\ g \in rules[n].getters}
Firing(p) == {i \in Ids : at[i] = "fire" /\ rules[rule[i]].putter = p}
Fired(p) == {g \in Ids : \E i \in Firing(p) : g \in rules[rule[i]].getters}
Owed(p) == {g \in Gets(p) : sent[g] > 0 \/ \E i \in Firing(p) : g \in todo[i]}
Due(p) == IF at[p] = "collect" THEN awaited[p]
          ELSE IF sent[p] > 0 THEN msg[p] ELSE Cardinality(Fired(p))

FiringInv(p) ==
    /\ \A i, j \in Firing(p) : i = j
    /\ \A i \in Firing(p) : /\ todo[i] \subseteq rules[rule[i]].getters
                            /\ \A g \in todo[i] : sent[g] = 0
                            /\ ready[p] = "none" /\ sent[p] = 0

PutterInv(p) ==
    /\ Firing(p) # {} \/ ready[p] = "PUTTY" \/ sent[p] > 0 => at[p] \in Active
    /\ ready[p] = "PUTTY" => sent[p] = 0
    /\ sent[p] > 0 => sent[p] = 1

GettersInv(p) == \A g \in Gets(p) : sent[g] > 0 => sent[g] = 1 /\ msg[g] = p

Round(p) == /\ FiringInv(p) /\ PutterInv(p) /\ GettersInv(p)
            /\ sema[p] + Cardinality(Owed(p)) = Due(p)

RacyInv ==
    /\ RacyTypes /\ Origin /\ Roles /\ Threads
    /\ ~built => Fresh
    /\ built /\ Racy!OneSource => \A p \in Sources : Round(p)
    /\ ~built \/ (Racy!OneSource /\ Racy!RoomForAll) => ~fault

LEMMA RacyWellFormed ==
    ASSUME Racy!WellFormed
    PROVE  Ids \subseteq Nat /\ IsFiniteSet(Ids) /\ RacyDefs \subseteq Seq(Racy!Rule)
  BY DEF Racy!WellFormed, Racy!IsFiniteSet, IsFiniteSet

LEMMA SameCard == ASSUME NEW S PROVE Racy!Cardinality(S) = Cardinality(S)
  BY DEF Racy!Cardinality, Cardinality

Less == {ss \in Nat \X Nat : ss[1] < ss[2]}

LEMMA LessWellFounded == IsWellFoundedOn(Less, Nat)
  <1>1. OpToRel(<, Nat) = Less
    BY DEF OpToRel, Less
  <1> QED BY <1>1, NatLessThanWellFounded

LEMMA Least ==
    ASSUME NEW T, T \subseteq Nat, T # {}
    PROVE  \E x \in T : \A y \in T : x <= y
  <1>1. PICK x \in T : \A y \in T : ~ (<<y, x>> \in Less)
    BY LessWellFounded, WFMin
  <1>2. ASSUME NEW y \in T PROVE x <= y
    <2>1. x \in Nat /\ y \in Nat
      OBVIOUS
    <2>2. ~(y < x)
      BY <2>1, <1>1 DEF Less
    <2> QED BY <2>1, <2>2
  <1> QED BY <1>2

LEMMA MinIn ==
    ASSUME NEW T, T \subseteq Nat, T # {}
    PROVE  Racy!Min(T) \in T
  BY Least DEF Racy!Min

\* add_rule
LEMMA AddRuleStep ==
    ASSUME RacyInv, Racy!AddRule, Racy!WellFormed
    PROVE  RacyInv'
  <1> DEFINE r == Head(building)
  <1>1. /\ building # <<>> /\ building' = Tail(building) /\ rules' = Append(rules, r)
        /\ r.getters \cap r.mem_getters = {}
        /\ r.putter \notin r.getters /\ (r.putter \in r.mem_getters => r.is_mem)
        /\ UNCHANGED <<built, ready, at, rule, todo, msg, sent, sema, not_yet_moved, awaited, fault>>
    BY DEF Racy!AddRule
  <1>2. building \in Seq(Racy!Rule) /\ rules \in Seq(Racy!Rule) /\ r \in Racy!Rule /\ ~built
    BY <1>1 DEF RacyInv, RacyTypes, Origin
  <1>3. ASSUME NEW i \in Ids
        PROVE  /\ i \in r.getters => id_type[i] \in {"none", "Ge"} /\ id_type'[i] = "Ge"
               /\ i \in r.mem_getters => id_type[i] \in {"none", "Mem"} /\ id_type'[i] = "Mem"
               /\ i = r.putter /\ r.is_mem => id_type[i] \in {"none", "Mem"} /\ id_type'[i] = "Mem"
               /\ i = r.putter /\ ~r.is_mem => id_type[i] \in {"none", "Pu"} /\ id_type'[i] = "Pu"
               /\ i \notin Racy!Members(r) => id_type'[i] = id_type[i]
    <2> DEFINE type(j) == CASE j \in r.getters     -> "Ge"
                            [] j \in r.mem_getters -> "Mem"
                            [] j = r.putter        -> IF r.is_mem THEN "Mem" ELSE "Pu"
                            [] OTHER               -> "none"
    <2>1. /\ type(i) = "none" \/ id_type[i] \in {"none", type(i)}
          /\ id_type'[i] = IF type(i) = "none" THEN id_type[i] ELSE type(i)
      BY Zenon DEF Racy!AddRule
    <2>2. CASE i \in r.getters
      <3>1. type(i) = "Ge"
        BY <2>2, <1>1
      <3> HIDE DEF type
      <3> QED BY <2>1, <2>2, <3>1, <1>1 DEF Racy!Members
    <2>3. CASE i \in r.mem_getters
      <3>1. type(i) = "Mem"
        BY <2>3, <1>1
      <3> HIDE DEF type
      <3> QED BY <2>1, <2>3, <3>1, <1>1 DEF Racy!Members
    <2>4. CASE i = r.putter /\ i \notin r.mem_getters
      <3>1. type(i) = IF r.is_mem THEN "Mem" ELSE "Pu"
        BY <2>4, <1>1
      <3> HIDE DEF type
      <3> QED BY <2>1, <2>4, <3>1, <1>1 DEF Racy!Members
    <2>5. CASE i \notin r.getters /\ i \notin r.mem_getters /\ i # r.putter
      <3>1. type(i) = "none"
        BY <2>5
      <3> HIDE DEF type
      <3> QED BY <2>1, <2>5, <3>1 DEF Racy!Members
    <2> QED BY <2>2, <2>3, <2>4, <2>5
  <1>4. id_type' \in [Ids -> {"none", "Pu", "Ge", "Mem"}]
    <2> DEFINE type == [j \in Ids |-> CASE j \in r.getters     -> "Ge"
                                     [] j \in r.mem_getters -> "Mem"
                                     [] j = r.putter        -> IF r.is_mem THEN "Mem" ELSE "Pu"
                                     [] OTHER               -> "none"]
               new(i) == IF type[i] = "none" THEN id_type[i] ELSE type[i]
    <2>3. id_type' = [i \in Ids |-> new(i)]
      BY Zenon DEF Racy!AddRule
    <2> HIDE DEF new
    <2>1. id_type' = [i \in Ids |-> id_type'[i]]
      BY <2>3
    <2>2. \A i \in Ids : id_type'[i] \in {"none", "Pu", "Ge", "Mem"}
      BY <1>2, <1>3 DEF Racy!Members, RacyInv, RacyTypes
    <2> QED BY <2>1, <2>2
  <1>5. Len(rules') = Len(rules) + 1 /\ rules' \in Seq(Racy!Rule) /\ building' \in Seq(Racy!Rule)
    BY <1>1, <1>2
  <1>6. /\ rules'[Len(rules) + 1] = r
        /\ \A n \in DOMAIN rules : rules'[n] = rules[n]
        /\ DOMAIN rules' = DOMAIN rules \cup {Len(rules) + 1}
    BY <1>1, <1>2
  <1>7. RacyTypes'
    BY <1>1, <1>4, <1>5 DEF RacyInv, RacyTypes
  <1>8. Origin'
    <2>1. rules' = rules \o <<r>>
      BY <1>1, <1>2, AppendIsConcat
    <2>2. building = <<r>> \o Tail(building) /\ Tail(building) \in Seq(Racy!Rule)
      BY <1>1, <1>2
    <2>3. <<r>> \in Seq(Racy!Rule)
      BY <1>2
    <2>4. rules' \o building' = rules \o building
      BY <1>1, <1>2, <2>1, <2>2, <2>3, ConcatAssociative
    <2> QED BY <1>1, <2>4, <1>2 DEF RacyInv, Origin
  <1>9. Roles'
    <2>1. ASSUME NEW n \in DOMAIN rules'
          PROVE  /\ id_type'[rules'[n].putter] = IF rules'[n].is_mem THEN "Mem" ELSE "Pu"
                 /\ \A g \in rules'[n].getters : id_type'[g] = "Ge"
                 /\ \A g \in rules'[n].mem_getters : id_type'[g] = "Mem"
      <3>1. CASE n \in DOMAIN rules
        <4>1. rules'[n] = rules[n] /\ rules[n] \in Racy!Rule
          BY <3>1, <1>6, <1>2
        <4>2. ASSUME NEW i \in Racy!Members(rules[n])
              PROVE  i \in Ids /\ id_type'[i] = id_type[i]
          <5>1. i \in Ids /\ id_type[i] \in {"Pu", "Ge", "Mem"}
            BY <3>1, <4>1, <4>2 DEF RacyInv, Roles, Racy!Members, Racy!Rule
          <5> QED BY <5>1, <1>3, <1>2 DEF Racy!Members, Racy!Rule
        <4> QED BY <3>1, <4>1, <4>2 DEF RacyInv, Roles, Racy!Members, Racy!Rule
      <3>2. CASE n = Len(rules) + 1
        BY <3>2, <1>6, <1>3, <1>2 DEF Racy!Rule
      <3> QED BY <3>1, <3>2, <1>6
    <2>2. ASSUME NEW i \in Ids, id_type'[i] # "none"
          PROVE  Racy!InRules(i, rules')
      <3>1. CASE i \in Racy!Members(r)
        BY <3>1, <1>6 DEF Racy!InRules
      <3>2. CASE i \notin Racy!Members(r)
        <4>1. PICK n \in DOMAIN rules : i \in Racy!Members(rules[n])
          BY <3>2, <2>2, <1>3 DEF RacyInv, Roles, Racy!InRules
        <4> QED BY <4>1, <1>6 DEF Racy!InRules
      <3> QED BY <3>1, <3>2
    <2> QED BY <2>1, <2>2 DEF Roles
  <1>10. Threads' /\ Fresh'
    BY <1>1, <1>2 DEF RacyInv, Threads, Fresh
  <1> QED BY <1>1, <1>2, <1>7, <1>8, <1>9, <1>10 DEF RacyInv

LEMMA RuleTyped ==
    ASSUME RacyTypes, NEW n \in DOMAIN rules
    PROVE  /\ rules[n].is_mem \in BOOLEAN /\ rules[n].putter \in Ids
           /\ rules[n].getters \subseteq Ids /\ rules[n].mem_getters \subseteq Ids
  <1>1. rules \in Seq(Racy!Rule)
    BY DEF RacyTypes
  <1>2. rules[n] \in Racy!Rule
    BY <1>1
  <1> QED BY <1>2 DEF Racy!Rule

\* a rule in terms of its putter
LEMMA Sourced ==
    ASSUME RacyInv
    PROVE  /\ Sources \subseteq Ids /\ \A p : Gets(p) \subseteq Ids
           /\ \A n \in DOMAIN rules : /\ rules[n].putter \in Sources
                                      /\ rules[n].getters \subseteq Gets(rules[n].putter)
           /\ \A p : \A g \in Gets(p) : id_type[g] = "Ge"
           /\ \A p \in Sources : id_type[p] \in {"Pu", "Mem"}
           /\ \A i \in Ids : at[i] = "fire" => rule[i] \in DOMAIN rules
  BY RuleTyped DEF RacyInv, Sources, Gets, Roles, Threads

LEMMA FreshRound ==
    ASSUME RacyInv, Racy!WellFormed, Fresh, NEW p \in Sources
    PROVE  Round(p)
  <1>1. p \in Ids /\ Gets(p) \subseteq Ids
    BY Sourced
  <1>2. Firing(p) = {}
    BY DEF Firing, Fresh
  <1>3. \A i \in Ids : sent[i] = 0 /\ at[i] = "idle" /\ ready[i] = "none" /\ sema[i] = 0 /\ ~(sent[i] > 0)
    BY DEF Fresh
  <1>4. Owed(p) = {} /\ Fired(p) = {}
    BY <1>1, <1>2, <1>3 DEF Owed, Fired
  <1>5. Cardinality(Owed(p)) = 0 /\ Cardinality(Fired(p)) = 0
    BY <1>4, FS_EmptySet
  <1>6. Due(p) = 0 /\ sema[p] = 0
    BY <1>1, <1>3, <1>5 DEF Due
  <1>7. FiringInv(p) /\ PutterInv(p) /\ GettersInv(p)
    BY <1>1, <1>2, <1>3 DEF FiringInv, PutterInv, GettersInv
  <1> QED BY <1>5, <1>6, <1>7 DEF Round

LEMMA BuildStep ==
    ASSUME RacyInv, Racy!Build, Racy!WellFormed
    PROVE  RacyInv'
  <1>1. /\ building = <<>> /\ ~built /\ built'
        /\ UNCHANGED <<building, rules, id_type, ready, at, rule, todo, msg, sent, sema,
                       not_yet_moved, awaited, fault>>
    BY DEF Racy!Build
  <1>2. \A p \in Sources : Round(p)
    BY <1>1, FreshRound DEF RacyInv
  <1>3. ASSUME NEW p \in Sources PROVE Round(p)'
    <2>1. Gets(p)' = Gets(p) /\ Firing(p)' = Firing(p)
      BY <1>1 DEF Gets, Firing
    <2>2. Owed(p)' = Owed(p) /\ Fired(p)' = Fired(p)
      BY <1>1, <2>1 DEF Owed, Fired
    <2>3. Due(p)' = Due(p)
      BY <1>1, <2>2 DEF Due
    <2>4. (FiringInv(p) /\ PutterInv(p) /\ GettersInv(p))'
      BY <1>1, <1>2, <2>1 DEF Round, FiringInv, PutterInv, GettersInv
    <2> QED BY <1>1, <1>2, <2>2, <2>3, <2>4 DEF Round
  <1>4. (RacyTypes /\ Origin /\ Roles /\ Threads /\ ~fault)'
    BY <1>1 DEF RacyInv, RacyTypes, Origin, Roles, Threads, Fresh, Racy!InRules
  <1>5. Sources' = Sources
    BY <1>1 DEF Sources
  <1> QED BY <1>1, <1>3, <1>4, <1>5 DEF RacyInv

LEMMA RacyFrame ==
    ASSUME RacyInv, built, UNCHANGED <<building, built, rules, id_type>>, RacyTypes', Threads',
           Racy!OneSource => \A p \in Sources : Round(p)',
           Racy!OneSource /\ Racy!RoomForAll => ~fault'
    PROVE  RacyInv'
  <1>1. (Origin /\ Roles)'
    BY DEF RacyInv, Origin, Roles, Racy!InRules
  <1>2. Racy!OneSource' = Racy!OneSource /\ Sources' = Sources
    BY DEF Racy!OneSource, Sources
  <1> QED BY <1>1, <1>2 DEF RacyInv

LEMMA RacyBuilt ==
    ASSUME RacyInv, NEW i \in Ids, at[i] # "idle"
    PROVE  built
  BY DEF RacyInv, Fresh

LEMMA Bound ==
    ASSUME RacyInv, Racy!WellFormed, Racy!RoomForAll, built, NEW i \in Ids, id_type[i] # "none"
    PROVE  ~(i >= Racy!Bytes)
  <1> DEFINE S == {j \in Ids : id_type[j] # "none"}
  <1>1. rules \in RacyDefs
    <2>1. PICK d \in RacyDefs : d = rules \o building
      BY DEF RacyInv, Origin
    <2>2. rules \in Seq(Racy!Rule) /\ building = <<>>
      BY DEF RacyInv, RacyTypes, Origin
    <2> QED BY <2>1, <2>2, ConcatEmptySeq
  <1>2. Racy!InRules(i, rules)
    BY DEF RacyInv, Roles
  <1>3. rules # <<>>
    BY <1>2 DEF Racy!InRules
  <1>4. PICK m \in Ids : Racy!InRules(m, rules) /\ m % 8 # 0 /\ \A j \in Ids : Racy!InRules(j, rules) => j <= m
    BY <1>1, <1>3 DEF Racy!RoomForAll
  <1>5. m \in S
    <2>1. PICK n \in DOMAIN rules : m \in Racy!Members(rules[n])
      BY <1>4 DEF Racy!InRules
    <2> QED BY <2>1 DEF RacyInv, Roles, Racy!Members
  <1>6. \A j \in S : j <= m
    BY <1>4 DEF RacyInv, Roles
  <1>7. S \subseteq Nat /\ m \in Nat /\ i \in Nat
    BY RacyWellFormed
  <1>8. Racy!Max(S) = m
    BY <1>5, <1>6, <1>7 DEF Racy!Max
  <1>9. Racy!Bytes = 8 * ((m + 7) \div 8)
    BY <1>8 DEF Racy!Bytes
  <1>10. i <= m
    BY <1>6
  <1>11. m < 8 * ((m + 7) \div 8)
    BY <1>4, <1>7
  <1> QED BY <1>7, <1>9, <1>10, <1>11

\* whose round an action has nothing to do with
LEMMA RoundKept ==
    ASSUME RacyInv, NEW p \in Sources, Round(p), rules' = rules,
           \A i \in Ids : at'[i] = "fire" /\ rules[rule'[i]].putter = p
                             <=> at[i] = "fire" /\ rules[rule[i]].putter = p,
           \A i \in Ids : at[i] = "fire" /\ rules[rule[i]].putter = p =>
                             todo'[i] = todo[i] /\ rule'[i] = rule[i],
           sent'[p] = sent[p], msg'[p] = msg[p], sema'[p] = sema[p],
           awaited'[p] = awaited[p], ready'[p] = ready[p],
           at'[p] = at[p] \/ (at[p] \in Active /\ at'[p] \in Active),
           \A g \in Gets(p) : sent'[g] = sent[g] /\ msg'[g] = msg[g]
    PROVE  Round(p)'
  <1>1. p \in Ids /\ Gets(p) \subseteq Ids /\ Gets(p)' = Gets(p)
    BY Sourced DEF Gets
  <1>2. Firing(p)' = Firing(p)
    BY DEF Firing
  <1>3. \A i \in Firing(p) : todo'[i] = todo[i] /\ rule'[i] = rule[i]
    BY DEF Firing
  <1>4. Owed(p)' = Owed(p) /\ Fired(p)' = Fired(p)
    BY <1>1, <1>2, <1>3 DEF Owed, Fired
  <1>5. Due(p)' = Due(p)
    BY <1>4 DEF Due, Active
  <1>6. FiringInv(p)'
    <2>1. \A i \in Firing(p) : todo[i] \subseteq Gets(p)
      BY Sourced DEF FiringInv, Round, Firing
    <2> QED BY <1>1, <1>2, <1>3, <2>1 DEF FiringInv, Round
  <1>7. PutterInv(p)'
    BY <1>1, <1>2 DEF PutterInv, Round
  <1>8. GettersInv(p)'
    BY <1>1 DEF GettersInv, Round
  <1> QED BY <1>4, <1>5, <1>6, <1>7, <1>8 DEF Round

\* a putter has a rule, and a getter a putter
LEMMA RuleOfPort ==
    ASSUME RacyInv, NEW i \in Ids, id_type[i] \in {"Pu", "Ge"}
    PROVE  /\ id_type[i] = "Pu" => i \in Sources
           /\ id_type[i] = "Ge" => \E p \in Sources : i \in Gets(p)
  <1>1. PICK n \in DOMAIN rules : i \in Racy!Members(rules[n])
    BY DEF RacyInv, Roles, Racy!InRules
  <1>2. id_type[i] = "Pu" => i = rules[n].putter
    BY <1>1 DEF RacyInv, Roles, Racy!Members
  <1>3. id_type[i] = "Ge" => i \in rules[n].getters
    BY <1>1 DEF RacyInv, Roles, Racy!Members
  <1> QED BY <1>2, <1>3, Sourced DEF Sources

LEMMA Elsewhere ==
    ASSUME RacyInv, Racy!OneSource, NEW p, NEW q \in Sources, p # q, NEW g \in Gets(p)
    PROVE  g # q /\ g \notin Gets(q)
  <1>1. g # q
    BY Sourced
  <1>2. ASSUME NEW m \in DOMAIN rules, NEW n \in DOMAIN rules, g \in rules[m].getters, g \in rules[n].getters
        PROVE  rules[m].putter = rules[n].putter
    BY <1>2 DEF Racy!OneSource
  <1> QED BY <1>1, <1>2 DEF Gets

LEMMA RacyPut ==
    ASSUME RacyInv, Racy!WellFormed, NEW p \in Ids, Racy!Put(p)
    PROVE  RacyInv'
  <1>1. /\ built /\ at[p] = "idle" /\ id_type[p] = "Pu"
        /\ ready' = [ready EXCEPT ![p] = "PUTTY"] /\ at' = [at EXCEPT ![p] = "enter"]
        /\ rule' = [rule EXCEPT ![p] = 1] /\ fault' = (fault \/ p >= Racy!Bytes)
        /\ UNCHANGED <<building, built, rules, id_type, todo, msg, sent, sema, awaited>>
    BY DEF Racy!Put, Racy!Enter
  <1>2. RacyTypes'
    BY <1>1 DEF RacyInv, RacyTypes
  <1>3. Threads'
    BY <1>1 DEF RacyInv, RacyTypes, Threads
  <1>4. Racy!OneSource /\ Racy!RoomForAll => ~fault'
    BY <1>1, Bound DEF RacyInv
  <1>5. p \in Sources
    BY <1>1, RuleOfPort
  <1>t. /\ sent \in [Ids -> Nat] /\ ready \in [Ids -> {"none", "PUTTY", "GETTY"}]
        /\ at \in [Ids -> {"idle", "enter", "drain", "fire", "recv", "collect"}]
        /\ rule \in [Ids -> Nat]
    BY DEF RacyInv, RacyTypes
  <1>6. ASSUME Racy!OneSource, NEW q \in Sources
        PROVE  Round(q)'
    <2>1. Round(q) /\ q \in Ids /\ Gets(q) \subseteq Ids
      BY <1>1, <1>6, Sourced DEF RacyInv
    <2>2. CASE p # q
      BY <1>1, <1>t, <2>1, <2>2, RoundKept DEF Active
    <2>3. CASE p = q
      <3>1. Firing(p)' = Firing(p) /\ Gets(p)' = Gets(p)
        BY <1>1, <1>t DEF Firing, Gets
      <3>2. Firing(p) = {} /\ sent[p] = 0
        <4>1. PutterInv(p) /\ sent[p] \in Nat
          BY <1>t, <2>1, <2>3 DEF Round
        <4> QED BY <1>1, <4>1 DEF PutterInv, Active
      <3>3. Owed(p)' = Owed(p) /\ Fired(p)' = Fired(p)
        BY <1>1, <3>1, <3>2 DEF Owed, Fired
      <3>4. Due(p)' = Due(p)
        BY <1>1, <1>t, <3>2, <3>3 DEF Due
      <3>5. FiringInv(p)'
        BY <3>1, <3>2 DEF FiringInv
      <3>6. PutterInv(p)'
        BY <1>1, <1>t, <3>1, <3>2 DEF PutterInv, Active
      <3> QED BY <1>1, <2>1, <2>3, <3>1, <3>3, <3>4, <3>5, <3>6 DEF Round, GettersInv
    <2> QED BY <2>2, <2>3
  <1> QED BY <1>1, <1>2, <1>3, <1>4, <1>6, RacyFrame

LEMMA RacyGet ==
    ASSUME RacyInv, Racy!WellFormed, NEW g \in Ids, Racy!Get(g)
    PROVE  RacyInv'
  <1>1. /\ built /\ at[g] = "idle" /\ id_type[g] = "Ge"
        /\ ready' = [ready EXCEPT ![g] = "GETTY"] /\ at' = [at EXCEPT ![g] = "enter"]
        /\ rule' = [rule EXCEPT ![g] = 1] /\ fault' = (fault \/ g >= Racy!Bytes)
        /\ UNCHANGED <<building, built, rules, id_type, todo, msg, sent, sema, awaited>>
    BY DEF Racy!Get, Racy!Enter
  <1>2. RacyTypes'
    BY <1>1 DEF RacyInv, RacyTypes
  <1>3. Threads'
    BY <1>1 DEF RacyInv, RacyTypes, Threads
  <1>4. Racy!OneSource /\ Racy!RoomForAll => ~fault'
    BY <1>1, Bound DEF RacyInv
  <1>5. ASSUME Racy!OneSource, NEW q \in Sources
        PROVE  Round(q)'
    <2>1. Round(q) /\ q \in Ids
      BY <1>1, <1>5, Sourced DEF RacyInv
    <2>2. g # q
      BY <1>1, Sourced
    <2>3. /\ ready \in [Ids -> {"none", "PUTTY", "GETTY"}] /\ rule \in [Ids -> Nat]
          /\ at \in [Ids -> {"idle", "enter", "drain", "fire", "recv", "collect"}]
      BY DEF RacyInv, RacyTypes
    <2> QED BY <1>1, <2>1, <2>2, <2>3, RoundKept
  <1> QED BY <1>1, <1>2, <1>3, <1>4, <1>5, RacyFrame

LEMMA RacyTry ==
    ASSUME RacyInv, Racy!WellFormed, NEW i \in Ids, Racy!Try(i)
    PROVE  RacyInv'
  <1>1. /\ at[i] = "enter" /\ built
        /\ UNCHANGED <<building, built, rules, id_type, ready, todo, msg, sent, sema, awaited, fault>>
    BY RacyBuilt DEF Racy!Try
  <1>2. \/ rule[i] > Len(rules) /\ at' = [at EXCEPT ![i] = "recv"] /\ UNCHANGED rule
        \/ /\ ~(rule[i] > Len(rules)) /\ Racy!IsSuperset(rules[rule[i]])
           /\ at' = [at EXCEPT ![i] = "drain"] /\ UNCHANGED rule
        \/ rule' = [rule EXCEPT ![i] = @ + 1] /\ UNCHANGED at
    BY DEF Racy!Try
  <1>3. RacyTypes'
    <2>1. /\ at' \in [Ids -> {"idle", "enter", "drain", "fire", "recv", "collect"}]
          /\ rule' \in [Ids -> Nat]
      <3>1. /\ at \in [Ids -> {"idle", "enter", "drain", "fire", "recv", "collect"}]
            /\ rule \in [Ids -> Nat]
        BY DEF RacyInv, RacyTypes
      <3> QED BY <1>2, <3>1
    <2> QED BY <1>1, <2>1 DEF RacyInv, RacyTypes
  <1>4. /\ \A j \in Ids : j # i => at'[j] = at[j] /\ rule'[j] = rule[j]
        /\ at'[i] \in {"enter", "drain", "recv"}
        /\ at'[i] = "enter" => rule'[i] >= 1
        /\ at'[i] = "drain" => /\ rule'[i] = rule[i] /\ ~(rule[i] > Len(rules))
                               /\ Racy!IsSuperset(rules[rule[i]])
    BY <1>1, <1>2 DEF RacyInv, RacyTypes, Threads
  <1>5. ASSUME at'[i] = "drain"
        PROVE  rule[i] \in DOMAIN rules /\ Racy!Fires(rules[rule[i]])
    <2>1. rule[i] \in DOMAIN rules
      BY <1>1, <1>4, <1>5 DEF RacyInv, RacyTypes, Threads
    <2>2. ready[rules[rule[i]].putter] = "PUTTY"
          /\ \A g \in rules[rule[i]].mem_getters : ready[g] = "GETTY"
      BY <1>4, <1>5 DEF Racy!IsSuperset
    <2>3. rules[rule[i]].mem_getters = {}
      BY <2>1, <2>2, RuleTyped DEF RacyInv, Roles, Threads
    <2>4. ~rules[rule[i]].is_mem
      BY <2>1, <2>2, RuleTyped DEF RacyInv, Roles, Threads
    <2> QED BY <2>1, <2>3, <2>4 DEF Racy!Fires
  <1>6. Threads'
    BY <1>1, <1>4, <1>5 DEF RacyInv, Threads
  <1>7. ASSUME Racy!OneSource, NEW q \in Sources
        PROVE  Round(q)'
    <2>1. Round(q) /\ q \in Ids
      BY <1>1, <1>7, Sourced DEF RacyInv
    <2> QED BY <1>1, <1>4, <2>1, RoundKept DEF Active
  <1> QED BY <1>1, <1>3, <1>6, <1>7, RacyFrame DEF RacyInv

LEMMA RacyDrain ==
    ASSUME RacyInv, Racy!WellFormed, NEW i \in Ids, Racy!Drain(i)
    PROVE  RacyInv'
  <1>1. /\ at[i] = "drain" /\ built
        /\ UNCHANGED <<building, built, rules, id_type, msg, sent, sema, awaited, fault>>
    BY RacyBuilt DEF Racy!Drain
  <1>n. PICK n \in DOMAIN rules : n = rule[i] /\ Racy!Fires(rules[n])
    BY <1>1 DEF RacyInv, Threads
  <1>p. PICK p \in Ids : p = rules[n].putter
    BY RuleTyped DEF RacyInv
  <1>G. PICK G \in SUBSET Ids : G = rules[n].getters
    BY RuleTyped DEF RacyInv
  <1>2. /\ n = rule[i] /\ Racy!Fires(rules[n]) /\ p = rules[n].putter /\ G = rules[n].getters
        /\ G \subseteq Ids
    BY <1>n, <1>p, <1>G
  <1>3. CASE ready[p] # "PUTTY"
    <2>1. /\ at' = [at EXCEPT ![i] = "enter"] /\ rule' = [rule EXCEPT ![i] = @ + 1]
          /\ UNCHANGED <<ready, todo>>
      BY <1>2, <1>3 DEF Racy!Drain
    <2>0. /\ at \in [Ids -> {"idle", "enter", "drain", "fire", "recv", "collect"}]
          /\ rule \in [Ids -> Nat]
      BY DEF RacyInv, RacyTypes
    <2>2. RacyTypes'
      <3>1. /\ at' \in [Ids -> {"idle", "enter", "drain", "fire", "recv", "collect"}]
            /\ rule' \in [Ids -> Nat]
        BY <2>0, <2>1
      <3> QED BY <1>1, <2>1, <3>1 DEF RacyInv, RacyTypes
    <2>3. Threads'
      <3>1. /\ \A j \in Ids : j # i => at'[j] = at[j] /\ rule'[j] = rule[j]
            /\ at'[i] = "enter" /\ rule'[i] >= 1
        BY <2>0, <2>1
      <3> QED BY <1>1, <2>1, <3>1 DEF RacyInv, Threads
    <2>4. ASSUME Racy!OneSource, NEW q \in Sources
          PROVE  Round(q)'
      <3>1. Round(q) /\ q \in Ids
        BY <1>1, <2>4, Sourced DEF RacyInv
      <3> QED BY <1>1, <2>0, <2>1, <3>1, RoundKept DEF Active
    <2> QED BY <1>1, <2>1, <2>2, <2>3, <2>4, RacyFrame DEF RacyInv
  <1>4. CASE ready[p] = "PUTTY"
    <2>1. /\ ready' = [ready EXCEPT ![p] = "none"] /\ at' = [at EXCEPT ![i] = "fire"]
          /\ todo' = [todo EXCEPT ![i] = G] /\ UNCHANGED rule
      BY <1>2, <1>4 DEF Racy!Drain
    <2>2. RacyTypes'
      BY <1>1, <1>2, <2>1 DEF RacyInv, RacyTypes
    <2>3. Threads'
      BY <1>1, <1>2, <2>1 DEF RacyInv, RacyTypes, Threads
    <2>t. /\ sent \in [Ids -> Nat] /\ sema \in [Ids -> Nat] /\ todo \in [Ids -> SUBSET Ids]
          /\ ready \in [Ids -> {"none", "PUTTY", "GETTY"}]
          /\ at \in [Ids -> {"idle", "enter", "drain", "fire", "recv", "collect"}]
      BY DEF RacyInv, RacyTypes
    <2>4. ASSUME Racy!OneSource, NEW q \in Sources
          PROVE  Round(q)'
      <3>1. Round(q) /\ q \in Ids
        BY <1>1, <2>4, Sourced DEF RacyInv
      <3>2. CASE p # q
        <4>1. \A j \in Ids : at'[j] = "fire" /\ rules[rule'[j]].putter = q
                                <=> at[j] = "fire" /\ rules[rule[j]].putter = q
          BY <1>1, <1>2, <2>1, <2>t, <3>2
        <4>2. \A j \in Ids : at[j] = "fire" => todo'[j] = todo[j]
          BY <1>1, <2>1, <2>t
        <4> QED BY <1>1, <2>1, <2>t, <3>1, <3>2, <4>1, <4>2, RoundKept DEF Active
      <3>3. CASE p = q
        <4>1. FiringInv(p) /\ PutterInv(p) /\ GettersInv(p) /\ sema[p] + Cardinality(Owed(p)) = Due(p)
          BY <3>1, <3>3 DEF Round
        <4>2. Firing(p) = {}
          BY <1>4, <4>1 DEF FiringInv
        <4>3. at[p] \in Active /\ sent[p] = 0
          BY <1>4, <4>1 DEF PutterInv
        <4>4. Due(p) = 0
          <5>1. Fired(p) = {}
            BY <4>2 DEF Fired
          <5> QED BY <4>3, <5>1, FS_EmptySet DEF Due, Active
        <4>5. IsFiniteSet(G) /\ Cardinality(G) \in Nat
          BY <1>2, RacyWellFormed, FS_Subset, FS_CardinalityType
        <4>6. Owed(p) \subseteq Ids /\ IsFiniteSet(Owed(p)) /\ Cardinality(Owed(p)) \in Nat
          BY Sourced, RacyWellFormed, FS_Subset, FS_CardinalityType DEF Owed
        <4>7. Owed(p) = {} /\ sema[p] = 0
          BY <1>2, <2>t, <4>1, <4>4, <4>6, FS_EmptySet
        <4>g. G \subseteq Gets(p)
          BY <1>2, Sourced
        <4>8. \A g \in Gets(p) : sent[g] = 0 /\ ~(sent[g] > 0)
          <5>1. ASSUME NEW g \in Gets(p) PROVE ~(sent[g] > 0) /\ sent[g] \in Nat
            BY <2>t, <4>7, Sourced DEF Owed
          <5> QED BY <5>1
        <4>9. Firing(p)' = {i} /\ Gets(p)' = Gets(p)
          BY <1>2, <1>1, <2>1, <2>t, <4>2 DEF Firing, Gets
        <4>10. todo'[i] = G /\ rule'[i] = n
          BY <1>2, <2>1, <2>t
        <4>11. Owed(p)' = G /\ Fired(p)' = G
          BY <1>2, <1>1, <4>8, <4>9, <4>10, <4>g DEF Owed, Fired
        <4>12. at'[p] \in Active /\ ready'[p] = "none" /\ sent'[p] = 0
          BY <1>1, <1>2, <2>1, <2>t, <4>3 DEF Active
        <4>13. Due(p)' = Cardinality(G)
          BY <4>11, <4>12 DEF Due, Active
        <4>14. FiringInv(p)'
          BY <1>2, <1>1, <4>8, <4>9, <4>10, <4>12, <4>g DEF FiringInv
        <4>15. (PutterInv(p) /\ GettersInv(p))'
          BY <1>1, <4>1, <4>9, <4>12 DEF PutterInv, GettersInv
        <4> QED BY <1>1, <3>3, <4>5, <4>7, <4>11, <4>13, <4>14, <4>15 DEF Round
      <3> QED BY <3>2, <3>3
    <2> QED BY <1>1, <2>1, <2>2, <2>3, <2>4, RacyFrame DEF RacyInv
  <1> QED BY <1>3, <1>4

\* fire tells a getter
LEMMA RacyTell ==
    ASSUME RacyInv, Racy!WellFormed, NEW i \in Ids, Racy!Fire(i), todo[i] # {}
    PROVE  RacyInv'
  <1>1. at[i] = "fire" /\ built
    BY RacyBuilt DEF Racy!Fire
  <1>n. PICK n \in DOMAIN rules : n = rule[i] /\ Racy!Fires(rules[n])
    BY <1>1 DEF RacyInv, Threads
  <1>p. PICK p \in Ids : p = rules[n].putter
    BY RuleTyped DEF RacyInv
  <1>G. PICK G \in SUBSET Ids : G = rules[n].getters
    BY RuleTyped DEF RacyInv
  <1>2. /\ n = rule[i] /\ Racy!Fires(rules[n]) /\ p = rules[n].putter /\ G = rules[n].getters
        /\ G \subseteq Ids
    BY <1>n, <1>p, <1>G
  <1>g. PICK g \in todo[i] : g = Racy!Min(todo[i])
    <2>1. todo[i] \subseteq Nat
      BY RacyWellFormed DEF RacyInv, RacyTypes
    <2> QED BY <2>1, MinIn
  <1>3. g \in Ids
    BY DEF RacyInv, RacyTypes
  <1>4. /\ ready' = [ready EXCEPT ![g] = "none"] /\ msg' = [msg EXCEPT ![g] = p]
        /\ sent' = [sent EXCEPT ![g] = @ + 1] /\ fault' = (fault \/ sent[g] > 0)
        /\ todo' = [todo EXCEPT ![i] = @ \ {g}]
        /\ UNCHANGED <<building, built, rules, id_type, at, rule, sema, awaited>>
    BY <1>2, <1>g DEF Racy!Fire, Racy!Send
  <1>5. p \in Nat
    BY RacyWellFormed
  <1>t. /\ sent \in [Ids -> Nat] /\ msg \in [Ids -> Nat] /\ todo \in [Ids -> SUBSET Ids]
        /\ ready \in [Ids -> {"none", "PUTTY", "GETTY"}]
    BY DEF RacyInv, RacyTypes
  <1>6. RacyTypes'
    <2>1. /\ sent' \in [Ids -> Nat] /\ msg' \in [Ids -> Nat] /\ todo' \in [Ids -> SUBSET Ids]
          /\ ready' \in [Ids -> {"none", "PUTTY", "GETTY"}] /\ fault' \in BOOLEAN
      BY <1>3, <1>4, <1>5, <1>t
    <2> QED BY <1>4, <2>1 DEF RacyInv, RacyTypes
  <1>7. Threads'
    BY <1>3, <1>4, <1>t DEF RacyInv, Threads
  <1>8. ASSUME Racy!OneSource
        PROVE  /\ g \in G /\ sent[g] = 0 /\ i \in Firing(p) /\ Round(p) /\ p \in Sources
               /\ \A q \in Sources : p # q => g # q /\ g \notin Gets(q)
    <2>1. Round(p) /\ i \in Firing(p) /\ p \in Sources /\ G \subseteq Gets(p)
      BY <1>1, <1>2, <1>8, Sourced DEF RacyInv, Firing
    <2>2. g \in G /\ sent[g] = 0
      BY <1>2, <2>1 DEF Round, FiringInv
    <2> QED BY <1>8, <2>1, <2>2, Elsewhere
  <1>9. ASSUME Racy!OneSource, NEW q \in Sources
        PROVE  Round(q)'
    <2>1. Round(q) /\ q \in Ids /\ Gets(q) \subseteq Ids
      BY <1>1, <1>9, Sourced DEF RacyInv
    <2>2. CASE p # q
      <3>1. g # q /\ g \notin Gets(q)
        BY <1>8, <1>9, <2>2
      <3>2. \A j \in Ids : at[j] = "fire" /\ rules[rule[j]].putter = q => todo'[j] = todo[j]
        BY <1>2, <1>4, <1>t, <2>2
      <3> QED BY <1>3, <1>4, <1>t, <2>1, <3>1, <3>2, RoundKept
    <2>3. CASE p = q
      <3>1. FiringInv(p) /\ PutterInv(p) /\ GettersInv(p) /\ sema[p] + Cardinality(Owed(p)) = Due(p)
        BY <2>1, <2>3 DEF Round
      <3>2. /\ Firing(p)' = Firing(p) /\ Gets(p)' = Gets(p) /\ g \in G /\ sent[g] = 0
            /\ i \in Firing(p) /\ g # p /\ G \subseteq Gets(p)
        BY <1>2, <1>4, <1>8, <1>9, Sourced DEF Firing, Gets
      <3>3. sent'[g] = 1 /\ msg'[g] = p /\ todo'[i] = todo[i] \ {g} /\ Firing(p) = {i}
            /\ \A h \in Ids : h # g => sent'[h] = sent[h] /\ msg'[h] = msg[h] /\ ready'[h] = ready[h]
        BY <1>3, <1>4, <1>t, <3>1, <3>2 DEF FiringInv
      <3>4. Owed(p)' = Owed(p) /\ Fired(p)' = Fired(p)
        <4>1. ASSUME NEW h \in Gets(p)
              PROVE  (sent'[h] > 0 \/ h \in todo'[i]) <=> (sent[h] > 0 \/ h \in todo[i])
          BY <2>1, <2>3, <3>2, <3>3, <1>g
        <4> QED BY <1>4, <3>2, <3>3, <4>1 DEF Owed, Fired
      <3>5. Due(p)' = Due(p)
        BY <1>4, <2>1, <2>3, <3>2, <3>3, <3>4 DEF Due
      <3>6. FiringInv(p)'
        <4>1. todo[i] \subseteq G /\ todo[i] \subseteq Ids
          BY <1>2, <1>t, <3>1, <3>2 DEF FiringInv
        <4> QED BY <1>2, <1>4, <2>1, <2>3, <3>1, <3>2, <3>3, <4>1 DEF FiringInv
      <3>7. PutterInv(p)'
        BY <1>4, <2>1, <2>3, <3>1, <3>2, <3>3 DEF PutterInv
      <3>8. GettersInv(p)'
        BY <1>4, <2>1, <2>3, <3>1, <3>2, <3>3 DEF GettersInv
      <3> QED BY <1>4, <2>3, <3>1, <3>4, <3>5, <3>6, <3>7, <3>8 DEF Round
    <2> QED BY <2>2, <2>3
  <1>10. Racy!OneSource /\ Racy!RoomForAll => ~fault'
    <2>1. Racy!OneSource => ~(sent[g] > 0)
      BY <1>8
    <2>2. Racy!OneSource /\ Racy!RoomForAll => ~fault
      BY <1>1 DEF RacyInv
    <2> QED BY <1>4, <2>1, <2>2
  <1> QED BY <1>1, <1>4, <1>6, <1>7, <1>9, <1>10, RacyFrame

\* and, when it has told all of them, the putter
LEMMA RacyRelease ==
    ASSUME RacyInv, Racy!WellFormed, NEW i \in Ids, Racy!Fire(i), todo[i] = {}
    PROVE  RacyInv'
  <1>1. at[i] = "fire" /\ built
    BY RacyBuilt DEF Racy!Fire
  <1>n. PICK n \in DOMAIN rules : n = rule[i] /\ Racy!Fires(rules[n])
    BY <1>1 DEF RacyInv, Threads
  <1>p. PICK p \in Ids : p = rules[n].putter
    BY RuleTyped DEF RacyInv
  <1>G. PICK G \in SUBSET Ids : G = rules[n].getters
    BY RuleTyped DEF RacyInv
  <1>2. /\ n = rule[i] /\ Racy!Fires(rules[n]) /\ p = rules[n].putter /\ G = rules[n].getters
        /\ G \subseteq Ids
    BY <1>n, <1>p, <1>G
  <1>3. Cardinality(G) \in Nat
    BY RacyWellFormed, FS_Subset, FS_CardinalityType
  <1>4. /\ msg' = [msg EXCEPT ![p] = Cardinality(G)]
        /\ sent' = [sent EXCEPT ![p] = @ + 1] /\ fault' = (fault \/ sent[p] > 0)
        /\ at' = [at EXCEPT ![i] = "enter"] /\ rule' = [rule EXCEPT ![i] = 1]
        /\ UNCHANGED <<building, built, rules, id_type, ready, todo, sema, awaited>>
    <2>1. rules[n].mem_getters = {}
      BY <1>2 DEF Racy!Fires
    <2>2. Racy!Cardinality(rules[n].getters) = Cardinality(G) /\ Racy!Cardinality({}) = 0
      BY <1>2, SameCard, FS_EmptySet
    <2>3. Racy!Send(p, Racy!Cardinality(rules[n].getters) + Racy!Cardinality(rules[n].mem_getters))
          /\ at' = [at EXCEPT ![i] = "enter"] /\ rule' = [rule EXCEPT ![i] = 1]
          /\ UNCHANGED <<building, built, rules, id_type, ready, todo, sema, awaited>>
      BY <1>2 DEF Racy!Fire
    <2>4. Racy!Cardinality(rules[n].getters) + Racy!Cardinality(rules[n].mem_getters) = Cardinality(G)
      BY <1>3, <2>1, <2>2
    <2> QED BY <2>3, <2>4 DEF Racy!Send
  <1>t. /\ sent \in [Ids -> Nat] /\ msg \in [Ids -> Nat] /\ rule \in [Ids -> Nat]
        /\ at \in [Ids -> {"idle", "enter", "drain", "fire", "recv", "collect"}]
    BY DEF RacyInv, RacyTypes
  <1>5. RacyTypes'
    <2>1. /\ sent' \in [Ids -> Nat] /\ msg' \in [Ids -> Nat] /\ rule' \in [Ids -> Nat]
          /\ at' \in [Ids -> {"idle", "enter", "drain", "fire", "recv", "collect"}]
          /\ fault' \in BOOLEAN
      BY <1>3, <1>4, <1>t
    <2> QED BY <1>4, <2>1 DEF RacyInv, RacyTypes
  <1>6. Threads'
    <2>1. /\ \A j \in Ids : j # i => at'[j] = at[j] /\ rule'[j] = rule[j]
          /\ at'[i] = "enter" /\ rule'[i] >= 1
      BY <1>4, <1>t
    <2> QED BY <1>1, <1>4, <2>1 DEF RacyInv, Threads
  <1>7. ASSUME Racy!OneSource
        PROVE  sent[p] = 0 /\ i \in Firing(p) /\ Round(p)
    <2>1. Round(p) /\ i \in Firing(p)
      BY <1>1, <1>2, <1>7, Sourced DEF RacyInv, Firing
    <2> QED BY <2>1 DEF Round, FiringInv
  <1>8. ASSUME Racy!OneSource, NEW q \in Sources
        PROVE  Round(q)'
    <2>1. Round(q) /\ q \in Ids /\ Gets(q) \subseteq Ids
      BY <1>1, <1>8, Sourced DEF RacyInv
    <2>2. p \notin Gets(q)
      <3>1. p \in Sources
        BY <1>2, Sourced
      <3> QED BY <3>1, Sourced
    <2>3. CASE p # q
      <3>1. \A j \in Ids : at'[j] = "fire" /\ rules[rule'[j]].putter = q
                              <=> at[j] = "fire" /\ rules[rule[j]].putter = q
        BY <1>1, <1>2, <1>4, <1>t, <2>3
      <3>2. \A j \in Ids : at'[j] = "fire" => rule'[j] = rule[j]
        BY <1>4, <1>t
      <3> QED BY <1>1, <1>4, <1>t, <2>1, <2>2, <2>3, <3>1, <3>2, RoundKept DEF Active
    <2>4. CASE p = q
      <3>1. FiringInv(p) /\ PutterInv(p) /\ GettersInv(p) /\ sema[p] + Cardinality(Owed(p)) = Due(p)
        BY <2>1, <2>4 DEF Round
      <3>2. Firing(p) = {i} /\ sent[p] = 0 /\ ready[p] = "none" /\ at[p] \in Active
        BY <1>7, <1>8, <3>1 DEF FiringInv, PutterInv
      <3>3. Firing(p)' = {} /\ Gets(p)' = Gets(p)
        BY <1>4, <1>t, <3>2 DEF Firing, Gets
      <3>4. sent'[p] = 1 /\ msg'[p] = Cardinality(G) /\ at'[p] \in Active
            /\ \A h \in Ids : h # p => sent'[h] = sent[h] /\ msg'[h] = msg[h]
        BY <1>4, <1>t, <3>2 DEF Active
      <3>5. Owed(p)' = Owed(p) /\ Fired(p) = G
        <4>1. Owed(p) = {h \in Gets(p) : sent[h] > 0}
          BY <3>2 DEF Owed
        <4>2. Owed(p)' = {h \in Gets(p) : sent'[h] > 0}
          BY <1>4, <3>3 DEF Owed
        <4>3. Fired(p) = G
          BY <1>2, <3>2 DEF Fired
        <4> QED BY <2>1, <2>2, <2>4, <3>4, <4>1, <4>2, <4>3
      <3>6. Due(p)' = Due(p)
        BY <1>4, <3>2, <3>4, <3>5 DEF Due, Active
      <3>7. FiringInv(p)'
        BY <3>3 DEF FiringInv
      <3>8. PutterInv(p)'
        BY <1>4, <3>1, <3>2, <3>3, <3>4 DEF PutterInv
      <3>9. GettersInv(p)'
        BY <2>1, <2>2, <2>4, <3>1, <3>3, <3>4 DEF GettersInv
      <3> QED BY <1>4, <2>4, <3>1, <3>5, <3>6, <3>7, <3>8, <3>9 DEF Round
    <2> QED BY <2>3, <2>4
  <1>9. Racy!OneSource /\ Racy!RoomForAll => ~fault'
    <2>1. Racy!OneSource => ~(sent[p] > 0)
      BY <1>7
    <2>2. Racy!OneSource /\ Racy!RoomForAll => ~fault
      BY <1>1 DEF RacyInv
    <2> QED BY <1>4, <2>1, <2>2
  <1> QED BY <1>1, <1>4, <1>5, <1>6, <1>8, <1>9, RacyFrame

LEMMA RacyReceive ==
    ASSUME RacyInv, Racy!WellFormed, Racy!OneSource, NEW g \in Ids, Racy!Receive(g)
    PROVE  RacyInv' /\ at[msg[g]] # "idle"
  <1>1. /\ at[g] = "recv" /\ id_type[g] = "Ge" /\ sent[g] > 0 /\ built
        /\ sent' = [sent EXCEPT ![g] = @ - 1] /\ sema' = [sema EXCEPT ![msg[g]] = @ + 1]
        /\ fault' = (fault \/ at[msg[g]] = "idle") /\ at' = [at EXCEPT ![g] = "idle"]
        /\ UNCHANGED <<building, built, rules, id_type, ready, rule, todo, msg, awaited>>
    BY RacyBuilt DEF Racy!Receive
  <1>p. PICK p \in Sources : g \in Gets(p)
    BY <1>1, RuleOfPort
  <1>2. g # p /\ p \in Ids /\ Gets(p) \subseteq Ids
    BY <1>1, <1>p, Sourced
  <1>t. /\ sent \in [Ids -> Nat] /\ sema \in [Ids -> Nat] /\ todo \in [Ids -> SUBSET Ids]
        /\ at \in [Ids -> {"idle", "enter", "drain", "fire", "recv", "collect"}]
        /\ awaited \in [Ids -> Nat]
    BY DEF RacyInv, RacyTypes
  <1>3. FiringInv(p) /\ PutterInv(p) /\ GettersInv(p) /\ sema[p] + Cardinality(Owed(p)) = Due(p)
    BY <1>1, <1>p DEF Round, RacyInv
  <1>4. sent[g] = 1 /\ msg[g] = p
    BY <1>1, <1>p, <1>3 DEF GettersInv
  <1>5. /\ g \in Owed(p) /\ IsFiniteSet(Owed(p)) /\ Cardinality(Owed(p)) \in Nat
        /\ Cardinality(Owed(p) \ {g}) = Cardinality(Owed(p)) - 1
        /\ Cardinality(Owed(p) \ {g}) \in Nat
    <2>1. g \in Owed(p) /\ Owed(p) \subseteq Ids
      BY <1>1, <1>2, <1>p DEF Owed
    <2>2. IsFiniteSet(Owed(p))
      BY <2>1, RacyWellFormed, FS_Subset
    <2> QED BY <2>1, <2>2, FS_RemoveElement, FS_CardinalityType
  <1>6. at[p] # "idle"
    <2>1. Due(p) # 0
      BY <1>2, <1>3, <1>5, <1>t
    <2>2. Firing(p) # {} \/ sent[p] > 0 \/ at[p] = "collect"
      <3>1. ASSUME Firing(p) = {} PROVE Cardinality(Fired(p)) = 0
        <4>1. Fired(p) = {}
          BY <3>1 DEF Fired
        <4> QED BY <4>1, FS_EmptySet
      <3> QED BY <2>1, <3>1 DEF Due
    <2> QED BY <1>3, <2>2 DEF PutterInv, Active
  <1>7. RacyTypes'
    <2>1. /\ sent' \in [Ids -> Nat] /\ sema' \in [Ids -> Nat] /\ fault' \in BOOLEAN
          /\ at' \in [Ids -> {"idle", "enter", "drain", "fire", "recv", "collect"}]
      BY <1>1, <1>2, <1>4, <1>t DEF RacyInv, RacyTypes
    <2> QED BY <1>1, <2>1 DEF RacyInv, RacyTypes
  <1>8. Threads'
    BY <1>1, <1>t DEF RacyInv, Threads
  <1>9. ASSUME NEW q \in Sources
        PROVE  Round(q)'
    <2>1. Round(q) /\ q \in Ids /\ Gets(q) \subseteq Ids
      BY <1>1, Sourced DEF RacyInv
    <2>2. CASE p # q
      <3>1. g # q /\ g \notin Gets(q)
        BY <1>p, <2>2, Elsewhere
      <3> QED BY <1>1, <1>4, <1>t, <2>1, <2>2, <3>1, RoundKept
    <2>3. CASE p = q
      <3>1. /\ sent'[g] = 0 /\ sema'[p] = sema[p] + 1 /\ at'[p] = at[p]
            /\ \A h \in Ids : h # g => sent'[h] = sent[h]
        BY <1>1, <1>2, <1>4, <1>t
      <3>2. Firing(p)' = Firing(p) /\ Gets(p)' = Gets(p) /\ Fired(p)' = Fired(p)
            /\ \A i \in Firing(p) : g \notin todo[i]
        BY <1>1, <1>3, <1>4, <1>t DEF Firing, FiringInv, Gets, Fired
      <3>3. Owed(p)' = Owed(p) \ {g}
        <4>1. ASSUME NEW h \in Gets(p), h # g
              PROVE  (sent'[h] > 0 \/ \E i \in Firing(p) : h \in todo[i])
                       <=> (sent[h] > 0 \/ \E i \in Firing(p) : h \in todo[i])
          BY <1>2, <3>1, <4>1
        <4>2. Owed(p)' = {h \in Gets(p) : sent'[h] > 0 \/ \E i \in Firing(p) : h \in todo[i]}
          BY <1>1, <1>2, <3>2 DEF Owed
        <4>3. Owed(p) = {h \in Gets(p) : sent[h] > 0 \/ \E i \in Firing(p) : h \in todo[i]}
          BY <1>2 DEF Owed
        <4>4. ~(sent'[g] > 0)
          BY <3>1
        <4> QED BY <3>2, <4>1, <4>2, <4>3, <4>4
      <3>4. Due(p)' = Due(p)
        BY <1>1, <1>2, <3>1, <3>2 DEF Due
      <3>5. FiringInv(p)'
        BY <1>1, <1>2, <1>3, <3>1, <3>2 DEF FiringInv
      <3>6. PutterInv(p)'
        BY <1>1, <1>2, <1>3, <3>1, <3>2 DEF PutterInv
      <3>7. GettersInv(p)'
        BY <1>1, <1>2, <1>3, <3>1, <3>2 DEF GettersInv
      <3>8. sema'[p] + Cardinality(Owed(p)') = Due(p)'
        BY <1>2, <1>3, <1>5, <1>t, <3>1, <3>3, <3>4
      <3> QED BY <1>1, <1>2, <2>3, <3>5, <3>6, <3>7, <3>8 DEF Round
    <2> QED BY <2>2, <2>3
  <1>10. Racy!RoomForAll => ~fault'
    BY <1>1, <1>4, <1>6 DEF RacyInv
  <1> QED BY <1>1, <1>4, <1>6, <1>7, <1>8, <1>9, <1>10, RacyFrame

\* where a getter has two putters, only the types are at stake
LEMMA RacyReceiveShared ==
    ASSUME RacyInv, Racy!WellFormed, ~Racy!OneSource, NEW g \in Ids, Racy!Receive(g)
    PROVE  RacyInv'
  <1>1. /\ at[g] = "recv" /\ id_type[g] = "Ge" /\ sent[g] > 0 /\ built
        /\ sent' = [sent EXCEPT ![g] = @ - 1] /\ sema' = [sema EXCEPT ![msg[g]] = @ + 1]
        /\ fault' = (fault \/ at[msg[g]] = "idle") /\ at' = [at EXCEPT ![g] = "idle"]
        /\ UNCHANGED <<building, built, rules, id_type, ready, rule, todo, msg, awaited>>
    BY RacyBuilt DEF Racy!Receive
  <1>t. /\ sent \in [Ids -> Nat] /\ sema \in [Ids -> Nat]
        /\ at \in [Ids -> {"idle", "enter", "drain", "fire", "recv", "collect"}]
    BY DEF RacyInv, RacyTypes
  <1>2. sent[g] - 1 \in Nat
    BY <1>1, <1>t
  <1>3. sema' \in [Ids -> Nat]
    <2>1. CASE msg[g] \in Ids
      <3>1. PICK m \in Ids : m = msg[g]
        BY <2>1
      <3>2. sema' = [sema EXCEPT ![m] = @ + 1]
        BY <1>1, <3>1
      <3> QED BY <1>t, <3>2
    <2>2. CASE msg[g] \notin Ids
      BY <1>1, <1>t, <2>2
    <2> QED BY <2>1, <2>2
  <1>4. RacyTypes'
    <2>1. /\ sent' \in [Ids -> Nat] /\ fault' \in BOOLEAN
          /\ at' \in [Ids -> {"idle", "enter", "drain", "fire", "recv", "collect"}]
      BY <1>1, <1>2, <1>t
    <2> QED BY <1>1, <1>3, <2>1 DEF RacyInv, RacyTypes
  <1>5. Threads'
    BY <1>1, <1>t DEF RacyInv, Threads
  <1> QED BY <1>1, <1>4, <1>5, RacyFrame

LEMMA RacyAwait ==
    ASSUME RacyInv, Racy!WellFormed, NEW p \in Ids, Racy!Await(p)
    PROVE  RacyInv'
  <1>1. /\ at[p] = "recv" /\ id_type[p] = "Pu" /\ sent[p] > 0 /\ built
        /\ sent' = [sent EXCEPT ![p] = @ - 1] /\ awaited' = [awaited EXCEPT ![p] = msg[p]]
        /\ at' = [at EXCEPT ![p] = "collect"]
        /\ UNCHANGED <<building, built, rules, id_type, ready, rule, todo, msg, sema, fault>>
    BY RacyBuilt DEF Racy!Await
  <1>2. p \in Sources /\ \A q : p \notin Gets(q)
    BY <1>1, RuleOfPort, Sourced
  <1>t. /\ sent \in [Ids -> Nat] /\ awaited \in [Ids -> Nat] /\ msg \in [Ids -> Nat]
        /\ at \in [Ids -> {"idle", "enter", "drain", "fire", "recv", "collect"}]
    BY DEF RacyInv, RacyTypes
  <1>3. sent[p] - 1 \in Nat
    BY <1>1, <1>t
  <1>4. RacyTypes'
    <2>1. /\ sent' \in [Ids -> Nat] /\ awaited' \in [Ids -> Nat]
          /\ at' \in [Ids -> {"idle", "enter", "drain", "fire", "recv", "collect"}]
      BY <1>1, <1>3, <1>t
    <2> QED BY <1>1, <2>1 DEF RacyInv, RacyTypes
  <1>5. Threads'
    BY <1>1, <1>t DEF RacyInv, Threads
  <1>6. ASSUME Racy!OneSource, NEW q \in Sources
        PROVE  Round(q)'
    <2>1. Round(q) /\ q \in Ids /\ Gets(q) \subseteq Ids
      BY <1>1, <1>6, Sourced DEF RacyInv
    <2>2. CASE p # q
      BY <1>1, <1>2, <1>t, <2>1, <2>2, RoundKept
    <2>3. CASE p = q
      <3>1. FiringInv(p) /\ PutterInv(p) /\ GettersInv(p) /\ sema[p] + Cardinality(Owed(p)) = Due(p)
        BY <2>1, <2>3 DEF Round
      <3>2. sent[p] = 1 /\ ready[p] # "PUTTY" /\ Firing(p) = {}
        BY <1>1, <3>1 DEF PutterInv, FiringInv
      <3>3. /\ sent'[p] = 0 /\ awaited'[p] = msg[p] /\ at'[p] = "collect"
            /\ \A h \in Ids : h # p => sent'[h] = sent[h]
        BY <1>1, <1>t, <3>2
      <3>4. Firing(p)' = {} /\ Gets(p)' = Gets(p)
        BY <1>1, <1>t, <3>2 DEF Firing, Gets
      <3>5. Owed(p)' = Owed(p)
        <4>1. Owed(p) = {h \in Gets(p) : sent[h] > 0}
          BY <3>2 DEF Owed
        <4>2. Owed(p)' = {h \in Gets(p) : sent'[h] > 0}
          BY <1>1, <3>4 DEF Owed
        <4> QED BY <1>2, <2>1, <2>3, <3>3, <4>1, <4>2
      <3>6. Due(p)' = msg[p] /\ Due(p) = msg[p]
        BY <1>1, <3>2, <3>3 DEF Due
      <3>7. FiringInv(p)'
        BY <3>4 DEF FiringInv
      <3>8. PutterInv(p)'
        BY <1>1, <3>2, <3>3, <3>4 DEF PutterInv
      <3>9. GettersInv(p)'
        BY <1>1, <1>2, <2>1, <2>3, <3>1, <3>3, <3>4 DEF GettersInv
      <3> QED BY <1>1, <2>3, <3>1, <3>5, <3>6, <3>7, <3>8, <3>9 DEF Round
    <2> QED BY <2>2, <2>3
  <1> QED BY <1>1, <1>4, <1>5, <1>6, RacyFrame DEF RacyInv

LEMMA RacyCollect ==
    ASSUME RacyInv, Racy!WellFormed, NEW p \in Ids, Racy!Collect(p)
    PROVE  RacyInv'
  <1>1. /\ at[p] = "collect" /\ id_type[p] = "Pu" /\ built
        /\ UNCHANGED <<building, built, rules, id_type, ready, rule, todo, msg, sent, fault>>
    BY RacyBuilt DEF Racy!Collect, RacyInv, Threads
  <1>2. \/ awaited[p] = 0 /\ at' = [at EXCEPT ![p] = "idle"] /\ UNCHANGED <<sema, awaited>>
        \/ /\ awaited[p] # 0 /\ sema[p] > 0 /\ sema' = [sema EXCEPT ![p] = @ - 1]
           /\ awaited' = [awaited EXCEPT ![p] = @ - 1] /\ UNCHANGED at
    BY DEF Racy!Collect
  <1>t. /\ sema \in [Ids -> Nat] /\ awaited \in [Ids -> Nat] /\ sent \in [Ids -> Nat]
        /\ at \in [Ids -> {"idle", "enter", "drain", "fire", "recv", "collect"}]
    BY DEF RacyInv, RacyTypes
  <1>3. /\ \A j \in Ids : j # p => sema'[j] = sema[j] /\ awaited'[j] = awaited[j] /\ at'[j] = at[j]
        /\ at'[p] \in {"idle", "collect"}
        /\ sema' \in [Ids -> Nat] /\ awaited' \in [Ids -> Nat]
        /\ at' \in [Ids -> {"idle", "enter", "drain", "fire", "recv", "collect"}]
    <2>1. CASE awaited[p] = 0
      BY <1>1, <1>2, <1>t, <2>1
    <2>2. CASE awaited[p] # 0
      <3>1. sema[p] - 1 \in Nat /\ awaited[p] - 1 \in Nat
        BY <1>2, <1>t, <2>2
      <3> QED BY <1>1, <1>2, <1>t, <2>2, <3>1
    <2> QED BY <2>1, <2>2
  <1>4. RacyTypes'
    BY <1>1, <1>3 DEF RacyInv, RacyTypes
  <1>5. Threads'
    BY <1>1, <1>3 DEF RacyInv, Threads
  <1>n. p \in Sources
    BY <1>1, RuleOfPort
  <1>6. ASSUME Racy!OneSource, NEW q \in Sources
        PROVE  Round(q)'
    <2>1. Round(q) /\ q \in Ids /\ Gets(q) \subseteq Ids
      BY <1>1, <1>6, Sourced DEF RacyInv
    <2>2. CASE p # q
      <3>1. \A j \in Ids : at'[j] = "fire" <=> at[j] = "fire"
        BY <1>1, <1>3
      <3> QED BY <1>1, <1>3, <2>1, <2>2, <3>1, RoundKept
    <2>3. CASE p = q
      <3>1. FiringInv(p) /\ PutterInv(p) /\ GettersInv(p) /\ sema[p] + Cardinality(Owed(p)) = Due(p)
        BY <2>1, <2>3 DEF Round
      <3>2. Firing(p) = {} /\ ready[p] # "PUTTY" /\ sent[p] = 0
        <4>1. ~(sent[p] > 0) /\ Firing(p) = {} /\ ready[p] # "PUTTY"
          BY <1>1, <3>1 DEF PutterInv, Active
        <4> QED BY <1>t, <4>1
      <3>3. Firing(p)' = {} /\ Gets(p)' = Gets(p)
        BY <1>1, <1>3, <3>2 DEF Firing, Gets
      <3>4. Owed(p)' = Owed(p)
        BY <1>1, <3>2, <3>3 DEF Owed
      <3>5. Due(p) = awaited[p]
        BY <1>1 DEF Due
      <3>6. sema'[p] + Cardinality(Owed(p)) = Due(p)'
        <4>1. Cardinality(Owed(p)) \in Nat
          <5>1. Owed(p) \subseteq Ids
            BY <2>1, <2>3 DEF Owed
          <5> QED BY <5>1, RacyWellFormed, FS_Subset, FS_CardinalityType
        <4>2. CASE awaited[p] = 0
          <5>1. Fired(p)' = {}
            BY <3>3 DEF Fired
          <5>2. Cardinality(Fired(p)') = 0
            BY <5>1, FS_EmptySet
          <5>3. at'[p] = "idle" /\ sema'[p] = sema[p] /\ Due(p)' = 0
            BY <1>1, <1>2, <1>t, <3>2, <4>2, <5>2 DEF Due
          <5> QED BY <3>1, <3>5, <4>2, <5>3
        <4>3. CASE awaited[p] # 0
          <5>1. sema'[p] = sema[p] - 1 /\ Due(p)' = awaited[p] - 1
            BY <1>1, <1>2, <1>t, <4>3 DEF Due
          <5> QED BY <1>t, <3>1, <3>5, <4>1, <5>1
        <4> QED BY <4>2, <4>3
      <3>7. FiringInv(p)'
        BY <3>3 DEF FiringInv
      <3>8. PutterInv(p)'
        BY <1>1, <3>2, <3>3 DEF PutterInv
      <3>9. GettersInv(p)'
        BY <1>1, <3>1, <3>3 DEF GettersInv
      <3> QED BY <1>1, <2>3, <3>4, <3>6, <3>7, <3>8, <3>9, <3>1 DEF Round
    <2> QED BY <2>2, <2>3
  <1> QED BY <1>1, <1>4, <1>5, <1>6, RacyFrame DEF RacyInv

LEMMA RacyInit ==
    ASSUME Racy!Init, Racy!WellFormed
    PROVE  RacyInv
  <1>1. /\ building \in RacyDefs /\ built = FALSE /\ rules = <<>> /\ fault = FALSE
        /\ id_type = [i \in Ids |-> "none"] /\ ready = [i \in Ids |-> "none"]
        /\ at = [i \in Ids |-> "idle"] /\ rule = [i \in Ids |-> 0] /\ todo = [i \in Ids |-> {}]
        /\ msg = [i \in Ids |-> 0] /\ sent = [i \in Ids |-> 0] /\ sema = [i \in Ids |-> 0]
        /\ awaited = [i \in Ids |-> 0]
    BY DEF Racy!Init, Racy!Each
  <1>2. building \in Seq(Racy!Rule) /\ rules \in Seq(Racy!Rule)
    BY <1>1, RacyWellFormed
  <1>3. RacyTypes
    BY <1>1, <1>2 DEF RacyTypes
  <1>4. Origin
    <2>1. rules \o building = building
      BY <1>1, <1>2, ConcatEmptySeq
    <2> QED BY <1>1, <2>1 DEF Origin
  <1>5. Roles /\ Threads /\ Fresh
    BY <1>1 DEF Roles, Threads, Fresh
  <1> QED BY <1>1, <1>3, <1>4, <1>5 DEF RacyInv

LEMMA RacyStep ==
    ASSUME RacyInv, Racy!WellFormed, Racy!Next
    PROVE  RacyInv'
  <1>1. CASE \E i \in Ids : Racy!Step(i)
    <2> PICK i \in Ids : Racy!Step(i)
      BY <1>1
    <2>1. CASE Racy!Fire(i)
      BY <2>1, RacyTell, RacyRelease
    <2>2. CASE Racy!Receive(i)
      BY <2>2, RacyReceive, RacyReceiveShared
    <2> QED BY <2>1, <2>2, RacyTry, RacyDrain, RacyAwait, RacyCollect DEF Racy!Step
  <1>2. CASE Racy!AddRule
    BY <1>2, AddRuleStep
  <1>3. CASE Racy!Build
    BY <1>3, BuildStep
  <1>4. CASE \E i \in Ids : Racy!Put(i) \/ Racy!Get(i)
    BY <1>4, RacyPut, RacyGet
  <1> QED BY <1>1, <1>2, <1>3, <1>4 DEF Racy!Next, Racy!Progress

LEMMA RacyStutter ==
    ASSUME RacyInv, UNCHANGED Racy!racyVars
    PROVE  RacyInv'
  <1>1. /\ UNCHANGED <<building, built, rules, id_type, ready, at, rule, todo, msg, sent, sema>>
        /\ UNCHANGED <<awaited, fault>>
    BY DEF Racy!racyVars
  <1>2. (RacyTypes /\ Origin /\ Roles /\ Threads)'
    BY <1>1 DEF RacyInv, RacyTypes, Origin, Roles, Threads, Racy!InRules
  <1>3. Fresh' = Fresh /\ Racy!OneSource' = Racy!OneSource /\ Sources' = Sources
    BY <1>1 DEF Fresh, Racy!OneSource, Sources
  <1>4. ASSUME NEW p \in Sources, Round(p) PROVE Round(p)'
    BY <1>1, <1>4, RoundKept
  <1> QED BY <1>1, <1>2, <1>3, <1>4 DEF RacyInv

LEMMA RacyHeld ==
    ASSUME RacyInv, Racy!WellFormed
    PROVE  Racy!HeldWhileRead /\ (Racy!RoomForAll => Racy!NoFault)
  <1>1. ASSUME Racy!OneSource, NEW g \in Ids, id_type[g] = "Ge", sent[g] > 0
        PROVE  at[msg[g]] # "idle"
    <2>1. built
      BY <1>1 DEF RacyInv, Fresh
    <2>2. PICK p \in Sources : g \in Gets(p)
      BY <1>1, RuleOfPort
    <2>3. p \in Ids /\ Gets(p) \subseteq Ids /\ Round(p)
      BY <1>1, <2>1, Sourced DEF RacyInv
    <2>4. g \in Owed(p) /\ Owed(p) \subseteq Ids
      BY <1>1, <2>2, <2>3 DEF Owed
    <2>5. IsFiniteSet(Owed(p))
      BY <2>4, RacyWellFormed, FS_Subset
    <2>6. Cardinality(Owed(p)) \in Nat /\ Cardinality(Owed(p)) # 0
      BY <2>4, <2>5, FS_EmptySet, FS_CardinalityType
    <2>7. sema[p] \in Nat
      BY <2>3 DEF RacyInv, RacyTypes
    <2>8. Due(p) # 0
      BY <2>3, <2>6, <2>7 DEF Round
    <2>9. msg[g] = p /\ PutterInv(p)
      BY <1>1, <2>2, <2>3 DEF Round, GettersInv
    <2>10. Firing(p) # {} \/ sent[p] > 0 \/ at[p] = "collect"
      <3>1. ASSUME Firing(p) = {} PROVE Cardinality(Fired(p)) = 0
        <4>1. Fired(p) = {}
          BY <3>1 DEF Fired
        <4> QED BY <4>1, FS_EmptySet
      <3> QED BY <2>8, <3>1 DEF Due
    <2> QED BY <2>9, <2>10 DEF PutterInv, Active
  <1>2. ASSUME Racy!OneSource, NEW i \in Ids, at[i] = "fire"
        PROVE  at[rules[rule[i]].putter] # "idle"
    <2>1. built
      BY <1>2, RacyBuilt
    <2>2. rules[rule[i]].putter \in Sources /\ i \in Firing(rules[rule[i]].putter)
      BY <1>2, Sourced DEF Firing
    <2>3. PutterInv(rules[rule[i]].putter)
      BY <1>2, <2>1, <2>2 DEF RacyInv, Round
    <2> QED BY <2>2, <2>3 DEF PutterInv, Active
  <1>3. Racy!RoomForAll => Racy!NoFault
    BY DEF RacyInv, Racy!NoFault
  <1> QED BY <1>1, <1>2, <1>3 DEF Racy!HeldWhileRead

-----------------------------------------------------------------------------
\* one rule

Owes(g) == sent[g] > 0 \/ \E j \in Ids : at[j] = "fire" /\ g \in todo[j]

OneRule ==
    /\ \A g \in rules[1].getters : ready[g] # "none" => at[g] \in Active /\ sent[g] = 0
    /\ \A g \in rules[1].getters : Owes(g) => at[g] \in Active
    /\ \A i \in Ids : at[i] = "fire" => \A g \in todo[i] : ready[g] = "GETTY"
    /\ \A i \in Ids : at[i] = "drain" =>
          \/ /\ ready[rules[1].putter] = "PUTTY"
             /\ \A g \in rules[1].getters : ready[g] = "GETTY"
          \/ i \in rules[1].getters /\ Owes(i)
          \/ i = rules[1].putter /\ ready[i] = "none"

RacySingle == built /\ Len(rules) = 1 => OneRule

LEMMA NothingOwed ==
    ASSUME RacyInv, Racy!WellFormed, NEW p \in Sources, Round(p), ready[p] = "PUTTY"
    PROVE  Firing(p) = {} /\ \A g \in Gets(p) : sent[g] = 0
  <1>t. p \in Ids /\ Gets(p) \subseteq Ids /\ sent \in [Ids -> Nat] /\ sema \in [Ids -> Nat]
    BY Sourced DEF RacyInv, RacyTypes
  <1>1. FiringInv(p) /\ PutterInv(p) /\ sema[p] + Cardinality(Owed(p)) = Due(p)
    BY DEF Round
  <1>2. Firing(p) = {} /\ sent[p] = 0 /\ at[p] \in Active
    BY <1>1, <1>t DEF FiringInv, PutterInv
  <1>3. Due(p) = 0
    <2>1. Fired(p) = {}
      BY <1>2 DEF Fired
    <2> QED BY <1>2, <2>1, FS_EmptySet DEF Due, Active
  <1>4. Owed(p) \subseteq Ids
    BY <1>t DEF Owed
  <1>5. IsFiniteSet(Owed(p)) /\ Cardinality(Owed(p)) \in Nat
    BY <1>4, RacyWellFormed, FS_Subset, FS_CardinalityType
  <1>6. Owed(p) = {}
    <2>1. Cardinality(Owed(p)) = 0
      BY <1>1, <1>3, <1>5, <1>t
    <2> QED BY <1>5, <2>1, FS_EmptySet
  <1>7. ASSUME NEW g \in Gets(p) PROVE ~(sent[g] > 0) /\ sent[g] \in Nat
    BY <1>6, <1>t DEF Owed
  <1> QED BY <1>2, <1>7

LEMMA OneRuleStep ==
    ASSUME RacyInv, Racy!WellFormed, RacySingle, Racy!Next
    PROVE  RacySingle'
  <1>1. CASE ~built
    <2>1. CASE Racy!AddRule
      BY <1>1, <2>1 DEF Racy!AddRule, RacySingle
    <2>2. CASE Racy!Build
      <3>1. SUFFICES ASSUME Len(rules) = 1 PROVE OneRule'
        BY <2>2 DEF Racy!Build, RacySingle
      <3>2. 1 \in DOMAIN rules
        BY <3>1 DEF RacyInv, RacyTypes
      <3>3. rules[1].getters \subseteq Ids
        BY <3>2, RuleTyped DEF RacyInv
      <3>4. \A i \in Ids : ready'[i] = "none" /\ at'[i] = "idle" /\ sent'[i] = 0 /\ ~(sent'[i] > 0)
        BY <1>1, <2>2 DEF Racy!Build, RacyInv, Fresh
      <3> QED BY <2>2, <3>3, <3>4 DEF OneRule, Owes, Racy!Build
    <2>3. ~ \E i \in Ids : Racy!Step(i)
      BY <1>1, RacyBuilt DEF Racy!Step, Racy!Try, Racy!Drain, Racy!Fire, Racy!Receive, Racy!Await, Racy!Collect
    <2>4. ~ \E i \in Ids : Racy!Put(i) \/ Racy!Get(i)
      BY <1>1 DEF Racy!Put, Racy!Get, Racy!Enter
    <2> QED BY <2>1, <2>2, <2>3, <2>4 DEF Racy!Next, Racy!Progress
  <1>2. CASE built
    <2>1. rules' = rules /\ built'
      BY <1>2 DEF Racy!Next, Racy!Progress, Racy!Step, Racy!Try, Racy!Drain, Racy!Fire, Racy!Receive, Racy!Await, Racy!Collect, Racy!Put, Racy!Get, Racy!Enter, Racy!AddRule, Racy!Build, RacyInv, Origin
    <2> SUFFICES ASSUME Len(rules) = 1 PROVE OneRule'
      BY <2>1 DEF RacySingle
    <2>2. OneRule
      BY <1>2 DEF RacySingle
    <2>3. DOMAIN rules = {1}
      BY DEF RacyInv, RacyTypes
    <2>p. PICK p \in Ids : p = rules[1].putter
      BY <2>3, RuleTyped DEF RacyInv
    <2>G. PICK G \in SUBSET Ids : G = rules[1].getters
      BY <2>3, RuleTyped DEF RacyInv
    <2>4. /\ Round(p) /\ p \in Sources /\ Gets(p) = G
          /\ Threads /\ id_type[p] # "Ge" /\ \A g \in G : id_type[g] = "Ge"
          /\ \A i \in Ids : /\ id_type[i] = "Pu" => i = p
                            /\ id_type[i] = "Ge" => i \in G
      <3>1. Racy!OneSource
        BY <2>3 DEF Racy!OneSource
      <3>2. Sources = {p}
        BY <2>3, <2>p DEF Sources
      <3>3. Gets(p) = G /\ \A q : Gets(q) \subseteq G
        BY <2>3, <2>p, <2>G DEF Gets
      <3> QED BY <1>2, <2>3, <2>p, <2>G, <3>1, <3>2, <3>3, RuleOfPort DEF RacyInv, Roles
    <2>t. /\ sent \in [Ids -> Nat] /\ msg \in [Ids -> Nat] /\ todo \in [Ids -> SUBSET Ids]
          /\ ready \in [Ids -> {"none", "PUTTY", "GETTY"}]
          /\ at \in [Ids -> {"idle", "enter", "drain", "fire", "recv", "collect"}]
      BY DEF RacyInv, RacyTypes
    <2>f. \A j \in Ids : at[j] = "fire" => rule[j] = 1 /\ j \in Firing(p)
      BY <2>3, <2>4, <2>p DEF Threads, Firing
    <2>5. /\ \A g \in G : ready[g] # "none" => at[g] \in Active /\ sent[g] = 0
          /\ \A g \in G : Owes(g) => at[g] \in Active
          /\ \A i \in Ids : at[i] = "fire" => \A g \in todo[i] : ready[g] = "GETTY"
          /\ \A i \in Ids : at[i] = "drain" =>
                \/ ready[p] = "PUTTY" /\ \A g \in G : ready[g] = "GETTY"
                \/ i \in G /\ Owes(i)
                \/ i = p /\ ready[i] = "none"
      BY <2>2, <2>p, <2>G DEF OneRule
    <2>6. ASSUME /\ \A g \in G : ready'[g] # "none" => at'[g] \in Active /\ sent'[g] = 0
                 /\ \A g \in G : Owes(g)' => at'[g] \in Active
                 /\ \A i \in Ids : at'[i] = "fire" => \A g \in todo'[i] : ready'[g] = "GETTY"
                 /\ \A i \in Ids : at'[i] = "drain" =>
                       \/ ready'[p] = "PUTTY" /\ \A g \in G : ready'[g] = "GETTY"
                       \/ i \in G /\ Owes(i)'
                       \/ i = p /\ ready'[i] = "none"
          PROVE  OneRule'
      BY <2>1, <2>p, <2>G, <2>6 DEF OneRule
    <2>7. CASE \E i \in Ids : Racy!Put(i)
      <3> PICK i \in Ids : Racy!Put(i)
        BY <2>7
      <3>1. /\ at[i] = "idle" /\ ready' = [ready EXCEPT ![i] = "PUTTY"] /\ i = p
            /\ at' = [at EXCEPT ![i] = "enter"] /\ UNCHANGED <<todo, sent>>
        BY <2>4 DEF Racy!Put, Racy!Enter
      <3>2. ready[p] # "PUTTY"
        BY <2>3, <2>4, <2>p, <3>1 DEF Round, PutterInv, Active
      <3>3. \A g \in Ids : Owes(g)' <=> Owes(g)
        BY <2>t, <3>1 DEF Owes
      <3>4. ASSUME NEW g \in G
            PROVE  g # p /\ ready'[g] = ready[g] /\ at'[g] = at[g] /\ sent'[g] = sent[g]
        BY <2>4, <2>t, <3>1
      <3>5. \A j \in Ids : at'[j] \in {"fire", "drain"} => j # p /\ at'[j] = at[j]
        BY <2>t, <3>1
      <3>6. ASSUME NEW j \in Ids, at'[j] = "fire", NEW g \in todo'[j] PROVE ready'[g] = "GETTY"
        <4>1. ready[g] = "GETTY" /\ g \in Ids
          BY <2>5, <2>t, <3>1, <3>5, <3>6
        <4>2. g # p
          BY <2>4, <4>1 DEF Threads
        <4> QED BY <2>t, <3>1, <4>1, <4>2
      <3>7. ASSUME NEW j \in Ids, at'[j] = "drain"
            PROVE  j \in G /\ Owes(j)'
        BY <2>5, <3>2, <3>3, <3>5, <3>7
      <3> QED BY <2>5, <2>6, <3>3, <3>4, <3>6, <3>7
    <2>8. CASE \E i \in Ids : Racy!Get(i)
      <3> PICK i \in Ids : Racy!Get(i)
        BY <2>8
      <3>1. /\ at[i] = "idle" /\ ready' = [ready EXCEPT ![i] = "GETTY"] /\ i \in G
            /\ at' = [at EXCEPT ![i] = "enter"] /\ UNCHANGED <<todo, sent>>
        BY <2>4 DEF Racy!Get, Racy!Enter
      <3>2. ~Owes(i)
        BY <2>5, <3>1 DEF Active
      <3>3. sent[i] = 0
        BY <2>t, <3>2 DEF Owes
      <3>4. \A g \in Ids : Owes(g)' <=> Owes(g)
        BY <2>t, <3>1 DEF Owes
      <3>5. ASSUME NEW g \in G, ready'[g] # "none" PROVE at'[g] \in Active /\ sent'[g] = 0
        BY <2>5, <2>t, <3>1, <3>3, <3>5 DEF Active
      <3>6. ASSUME NEW g \in G, Owes(g)' PROVE at'[g] \in Active
        BY <2>5, <2>t, <3>1, <3>4, <3>6 DEF Active
      <3>7. ASSUME NEW j \in Ids, at'[j] = "fire", NEW g \in todo'[j] PROVE ready'[g] = "GETTY"
        BY <2>5, <2>t, <3>1, <3>7
      <3>8. ASSUME NEW j \in Ids, at'[j] = "drain"
            PROVE  \/ ready'[p] = "PUTTY" /\ \A g \in G : ready'[g] = "GETTY"
                   \/ j \in G /\ Owes(j)'
                   \/ j = p /\ ready'[j] = "none"
        BY <2>4, <2>5, <2>t, <3>1, <3>4, <3>8
      <3> QED BY <2>6, <3>5, <3>6, <3>7, <3>8
    <2>9. CASE \E i \in Ids : Racy!Try(i)
      <3> PICK i \in Ids : Racy!Try(i)
        BY <2>9
      <3>1. /\ at[i] = "enter" /\ UNCHANGED <<ready, todo, sent>>
            /\ \/ at' = [at EXCEPT ![i] = "recv"] \/ UNCHANGED at
               \/ at' = [at EXCEPT ![i] = "drain"] /\ Racy!IsSuperset(rules[rule[i]])
                  /\ ~(rule[i] > Len(rules))
        BY DEF Racy!Try
      <3>2. /\ \A j \in Ids : j # i => at'[j] = at[j]
            /\ at'[i] \in {"enter", "drain", "recv"}
        BY <2>t, <3>1
      <3>3. ASSUME at'[i] = "drain"
            PROVE  ready[p] = "PUTTY" /\ \A g \in G : ready[g] = "GETTY"
        <4>1. Racy!IsSuperset(rules[rule[i]]) /\ ~(rule[i] > Len(rules))
          BY <2>t, <3>1, <3>3
        <4>2. rule[i] = 1
          BY <2>4, <3>1, <4>1 DEF Threads, RacyInv, RacyTypes
        <4> QED BY <2>p, <2>G, <4>1, <4>2 DEF Racy!IsSuperset
      <3>4. \A g \in Ids : Owes(g)' <=> Owes(g)
        BY <2>t, <3>1, <3>2 DEF Owes
      <3> QED BY <2>5, <2>6, <2>t, <3>1, <3>2, <3>3, <3>4 DEF Active
    <2>10. CASE \E i \in Ids : Racy!Drain(i)
      <3> PICK i \in Ids : Racy!Drain(i)
        BY <2>10
      <3>1. at[i] = "drain" /\ rule[i] = 1 /\ UNCHANGED sent /\ id_type[i] \in {"Pu", "Ge"}
        BY <2>3, <2>4 DEF Racy!Drain, Threads
      <3>2. CASE ready[p] # "PUTTY"
        <4>1. at' = [at EXCEPT ![i] = "enter"] /\ UNCHANGED <<ready, todo>>
          BY <2>p, <3>1, <3>2 DEF Racy!Drain
        <4>2. \A g \in Ids : Owes(g)' <=> Owes(g)
          BY <2>t, <3>1, <4>1 DEF Owes
        <4> QED BY <2>5, <2>6, <2>t, <3>1, <4>1, <4>2 DEF Active
      <3>3. CASE ready[p] = "PUTTY"
        <4>1. /\ ready' = [ready EXCEPT ![p] = "none"] /\ at' = [at EXCEPT ![i] = "fire"]
              /\ todo' = [todo EXCEPT ![i] = G]
          BY <2>p, <2>G, <3>1, <3>3 DEF Racy!Drain
        <4>2. Firing(p) = {} /\ \A g \in G : sent[g] = 0 /\ ~(sent[g] > 0)
          BY <2>4, <2>t, <3>3, NothingOwed
        <4>3. \A j \in Ids : at[j] # "fire"
          BY <2>f, <4>2
        <4>4. \A g \in G : ready[g] = "GETTY" /\ at[g] \in Active
          BY <2>5, <3>1, <3>3, <4>2, <4>3 DEF Owes
        <4>5. \A g \in Ids : Owes(g)' <=> sent[g] > 0 \/ g \in G
          BY <2>t, <3>1, <4>1, <4>3 DEF Owes
        <4>6. \A j \in Ids : at[j] = "drain" => j = p \/ j \in G
          BY <2>4 DEF Threads
        <4>7. p \notin G
          BY <2>4
        <4>8. /\ \A j \in Ids : j # i => at'[j] = at[j] /\ todo'[j] = todo[j]
              /\ at'[i] = "fire" /\ todo'[i] = G /\ ready'[p] = "none"
              /\ \A j \in Ids : j # p => ready'[j] = ready[j]
          BY <2>t, <4>1
        <4> QED BY <2>6, <3>1, <4>2, <4>3, <4>4, <4>5, <4>6, <4>7, <4>8 DEF Active
      <3> QED BY <3>2, <3>3
    <2>11. CASE \E i \in Ids : Racy!Fire(i)
      <3> PICK i \in Ids : Racy!Fire(i)
        BY <2>11
      <3>1. at[i] = "fire" /\ rule[i] = 1 /\ i \in Firing(p)
        BY <2>f DEF Racy!Fire
      <3>2. Firing(p) = {i} /\ todo[i] \subseteq G /\ ready[p] = "none" /\ \A g \in todo[i] : sent[g] = 0
        BY <2>4, <2>p, <2>G, <3>1 DEF Round, FiringInv
      <3>3. \A j \in Ids : at[j] = "fire" => j = i
        BY <2>f, <3>2
      <3>4. CASE todo[i] # {}
        <4>g. PICK g \in todo[i] : g = Racy!Min(todo[i])
          <5>1. todo[i] \subseteq Nat
            BY RacyWellFormed, <3>2
          <5> QED BY <3>4, <5>1, MinIn
        <4>1. /\ ready' = [ready EXCEPT ![g] = "none"] /\ sent' = [sent EXCEPT ![g] = @ + 1]
              /\ todo' = [todo EXCEPT ![i] = @ \ {g}] /\ at' = at
          BY <3>1, <3>4, <4>g DEF Racy!Fire, Racy!Send
        <4>2. g \in G /\ g # p /\ g \in Ids /\ sent[g] = 0 /\ at[g] \in Active
          BY <2>4, <2>5, <3>1, <3>2, <4>g DEF Owes
        <4>3. /\ \A h \in Ids : h # g => sent'[h] = sent[h] /\ ready'[h] = ready[h]
              /\ sent'[g] = 1 /\ ready'[g] = "none" /\ todo'[i] = todo[i] \ {g}
              /\ ready'[p] = "none"
          BY <2>t, <3>2, <4>1, <4>2
        <4>4. \A h \in Ids : Owes(h)' <=> Owes(h)
          <5>1. ASSUME NEW h \in Ids PROVE Owes(h) <=> sent[h] > 0 \/ h \in todo[i]
            BY <3>1, <3>3 DEF Owes
          <5>2. ASSUME NEW h \in Ids PROVE Owes(h)' <=> sent'[h] > 0 \/ h \in todo'[i]
            BY <3>1, <3>3, <4>1 DEF Owes
          <5>3. ASSUME NEW h \in Ids, h # g PROVE Owes(h)' <=> Owes(h)
            BY <4>3, <5>1, <5>2, <5>3
          <5>4. Owes(g)
            BY <3>1 DEF Owes
          <5>5. sent'[g] > 0
            BY <4>3
          <5>6. Owes(g)'
            BY <4>2, <5>2, <5>5
          <5> QED BY <5>3, <5>4, <5>6
        <4>5. \A h \in todo'[i] : ready'[h] = "GETTY"
          BY <2>5, <3>1, <3>2, <4>3
        <4> QED BY <2>5, <2>6, <3>1, <3>2, <3>3, <4>1, <4>2, <4>3, <4>4, <4>5
      <3>5. CASE todo[i] = {}
        <4>1. /\ sent' = [sent EXCEPT ![p] = @ + 1] /\ at' = [at EXCEPT ![i] = "enter"]
              /\ UNCHANGED <<ready, todo>>
          BY <2>p, <3>1, <3>5 DEF Racy!Fire, Racy!Send
        <4>2. /\ \A h \in Ids : h # p => sent'[h] = sent[h]
              /\ \A h \in Ids : h # i => at'[h] = at[h]
              /\ at'[i] = "enter" /\ p \notin G
          BY <2>4, <2>t, <4>1
        <4>3. \A h \in G : Owes(h)' <=> Owes(h)
          BY <3>1, <3>3, <3>5, <4>1, <4>2 DEF Owes
        <4> QED BY <2>5, <2>6, <3>1, <3>3, <4>1, <4>2, <4>3 DEF Active
      <3> QED BY <3>4, <3>5
    <2>12. CASE \E i \in Ids : Racy!Receive(i)
      <3> PICK i \in Ids : Racy!Receive(i)
        BY <2>12
      <3>1. /\ at[i] = "recv" /\ sent[i] > 0 /\ i \in G /\ at' = [at EXCEPT ![i] = "idle"]
            /\ sent' = [sent EXCEPT ![i] = @ - 1] /\ UNCHANGED <<ready, todo>>
        BY <2>4 DEF Racy!Receive
      <3>2. sent[i] = 1 /\ \A j \in Firing(p) : i \notin todo[j]
        BY <2>4, <2>G, <3>1 DEF Round, GettersInv, FiringInv
      <3>3. /\ \A h \in Ids : h # i => sent'[h] = sent[h] /\ at'[h] = at[h]
            /\ sent'[i] = 0 /\ ~(sent'[i] > 0) /\ at'[i] = "idle" /\ ready[i] = "none"
        BY <2>5, <2>t, <3>1, <3>2
      <3>4. \A j \in Ids : at'[j] = "fire" => at[j] = "fire" /\ j \in Firing(p)
        BY <2>f, <3>3
      <3>5. ~Owes(i)'
        BY <3>1, <3>2, <3>3, <3>4 DEF Owes
      <3>6. \A h \in Ids : h # i => (Owes(h)' <=> Owes(h))
        BY <3>1, <3>3 DEF Owes
      <3> QED BY <2>5, <2>6, <3>1, <3>3, <3>5, <3>6
    <2>13. CASE \E i \in Ids : Racy!Await(i) \/ Racy!Collect(i)
      <3> PICK i \in Ids : Racy!Await(i) \/ Racy!Collect(i)
        BY <2>13
      <3>1. /\ at[i] \in {"recv", "collect"} /\ i = p /\ UNCHANGED <<ready, todo>>
            /\ at' = [at EXCEPT ![i] = "idle"] \/ at' = [at EXCEPT ![i] = "collect"] \/ at' = at
            /\ sent' = [sent EXCEPT ![i] = @ - 1] \/ sent' = sent
        BY <2>4 DEF Racy!Await, Racy!Collect, Threads
      <3>2. /\ \A h \in Ids : h # p => sent'[h] = sent[h] /\ at'[h] = at[h]
            /\ at'[p] \in {"recv", "idle", "collect"} /\ p \notin G
        BY <2>4, <2>t, <3>1
      <3>3. \A h \in G : Owes(h)' <=> Owes(h)
        BY <3>1, <3>2 DEF Owes
      <3> QED BY <2>5, <2>6, <3>1, <3>2, <3>3
    <2>14. ~Racy!AddRule /\ ~Racy!Build
      BY <1>2 DEF Racy!AddRule, Racy!Build, RacyInv, Origin
    <2> QED BY <2>7, <2>8, <2>9, <2>10, <2>11, <2>12, <2>13, <2>14
            DEF Racy!Next, Racy!Progress, Racy!Step
  <1> QED BY <1>1, <1>2

LEMMA RacyCertain ==
    ASSUME RacyInv, Racy!WellFormed, RacySingle
    PROVE  Racy!CertainlyReady
  <1>1. SUFFICES ASSUME Racy!OneSource, NEW i \in Ids, ready[i] # "none", id_type[i] = "Pu" \/ Len(rules) = 1
                 PROVE  at[i] \notin {"idle", "collect"} /\ sent[i] = 0
    BY DEF Racy!CertainlyReady
  <1>2. built /\ id_type[i] \in {"Pu", "Ge"}
    BY <1>1 DEF RacyInv, Fresh, RacyTypes, Threads
  <1>4. CASE id_type[i] = "Pu"
    <2>1. i \in Sources
      BY <1>4, RuleOfPort
    <2>2. PutterInv(i) /\ ready[i] = "PUTTY"
      BY <1>1, <1>2, <1>4, <2>1 DEF RacyInv, RacyTypes, Round, Threads
    <2> QED BY <2>2 DEF PutterInv, Active
  <1>5. CASE id_type[i] = "Ge"
    <2>1. Len(rules) = 1 /\ DOMAIN rules = {1}
      BY <1>1, <1>5 DEF RacyInv, RacyTypes
    <2>2. i \in rules[1].getters
      <3>1. PICK p \in Sources : i \in Gets(p)
        BY <1>5, RuleOfPort
      <3> QED BY <2>1, <3>1 DEF Gets
    <2> QED BY <1>1, <1>2, <1>5, <2>1, <2>2 DEF RacySingle, OneRule, Active
  <1> QED BY <1>2, <1>4, <1>5

LEMMA SingleInit ==
    ASSUME Racy!Init
    PROVE  RacySingle
  BY DEF Racy!Init, RacySingle

LEMMA SingleStutter ==
    ASSUME RacySingle, UNCHANGED Racy!racyVars
    PROVE  RacySingle'
  <1>1. UNCHANGED <<built, rules, ready, at, todo, sent>>
    BY DEF Racy!racyVars
  <1> QED BY <1>1 DEF RacySingle, OneRule, Owes

-----------------------------------------------------------------------------
(* All versions *)

GroupP == INSTANCE GroupProofs WITH Defs <- GroupedDefs

LEMMA SameGrouped ==
    /\ Grouped!WellFormed => GroupP!WellFormed
    /\ Grouped!AllGroupable => GroupP!AllGroupable
    /\ Grouped!AllCopied => GroupP!AllCopied
    /\ Grouped!Init => GroupP!Init
    /\ GroupP!NoFault => Grouped!NoFault
    /\ GroupP!HeldWhileRead => Grouped!HeldWhileRead
    /\ GroupP!CertainlyReady => Grouped!CertainlyReady
  <1>1. Grouped!WellFormed => GroupP!WellFormed
    BY DEF Grouped!WellFormed, GroupP!WellFormed, Grouped!Port, GroupP!Port, Grouped!Rule, GroupP!Rule,
           Grouped!IsFiniteSet, GroupP!IsFiniteSet
  <1>2. Grouped!AllGroupable => GroupP!AllGroupable
    BY DEF Grouped!AllGroupable, GroupP!AllGroupable, Grouped!Groupable, GroupP!Groupable,
           Grouped!Members, GroupP!Members
  <1>3. Grouped!Init => GroupP!Init
    BY DEF Grouped!Init, GroupP!Init, Grouped!Port, GroupP!Port, Grouped!Members, GroupP!Members
  <1>4. GroupP!NoFault => Grouped!NoFault
    BY DEF Grouped!NoFault, GroupP!NoFault
  <1>5. GroupP!HeldWhileRead => Grouped!HeldWhileRead
    BY DEF Grouped!HeldWhileRead, GroupP!HeldWhileRead, Grouped!InTransit, GroupP!InTransit
  <1>6. GroupP!CertainlyReady => Grouped!CertainlyReady
    BY DEF Grouped!CertainlyReady, GroupP!CertainlyReady, Grouped!InTransit, GroupP!InTransit
  <1>7. Grouped!AllCopied => GroupP!AllCopied
    BY DEF Grouped!AllCopied, GroupP!AllCopied
  <1> QED BY <1>1, <1>2, <1>3, <1>4, <1>5, <1>6, <1>7

LEMMA SameGroupedStep ==
    ASSUME [Grouped!Next]_Grouped!groupedVars
    PROVE  [GroupP!Next]_GroupP!groupedVars
  BY DEF Grouped!groupedVars, GroupP!groupedVars,
         Grouped!Next, Grouped!Progress, Grouped!Commit, Grouped!Fire, Grouped!Send, Grouped!Leave,
         Grouped!Await, Grouped!Collect, Grouped!PutReturn, Grouped!Get, Grouped!Formed,
         Grouped!Determined, Grouped!CallTold, Grouped!Call, Grouped!CallMember,
         Grouped!PortGroupNew, Grouped!Ask, Grouped!PortGroupDrop, Grouped!Enter, Grouped!Resting,
         Grouped!Advancing, Grouped!Tentative, Grouped!Distribute, Grouped!Receives,
         Grouped!Grouped, Grouped!Members, Grouped!Port, Grouped!Cardinality, Grouped!IsFiniteSet,
         GroupP!Next, GroupP!Progress, GroupP!Commit, GroupP!Fire, GroupP!Send, GroupP!Leave,
         GroupP!Await, GroupP!Collect, GroupP!PutReturn, GroupP!Get, GroupP!Formed,
         GroupP!Determined, GroupP!CallTold, GroupP!Call, GroupP!CallMember,
         GroupP!PortGroupNew, GroupP!Ask, GroupP!PortGroupDrop, GroupP!Enter, GroupP!Resting,
         GroupP!Advancing, GroupP!Tentative, GroupP!Distribute, GroupP!Receives,
         GroupP!Grouped, GroupP!Members, GroupP!Port, GroupP!Cardinality, GroupP!IsFiniteSet

\* each version keeps its own invariant
PortsInv == /\ version = "rendezvous" => RendezvousInv
            /\ version = "memory"     => MemoryInv
            /\ version = "cached"     => CachedInv
            /\ version = "locked"     => LockedInv
ProtocolsInv == /\ version = "grouped" => GroupP!GroupedInv
                /\ version = "grouped" /\ Grouped!AllCopied => GroupP!PermitInv
                /\ version = "racy"    => RacyInv /\ RacySingle

LEMMA PortsInit ==
    ASSUME Init
    PROVE  PortsInv /\ Promise!Init
  <1>1. CASE version = "rendezvous" /\ Rendezvous!Init
    BY <1>1, RendezvousInit DEF PortsInv, Rendezvous!Init, Promise!Init
  <1>2. CASE version = "memory" /\ Memory!Init
    BY <1>2, MemoryInit DEF PortsInv, Memory!Init, Promise!Init
  <1>3. CASE version = "cached" /\ Cached!Init
    BY <1>3, CachedInit DEF PortsInv, Cached!Init, Promise!Init
  <1>4. CASE version = "locked" /\ Locked!Init
    BY <1>4, LockedInit DEF PortsInv, Locked!Init, Promise!Init
  <1>5. CASE version \in {"grouped", "racy"} /\ NoPort
    BY <1>5 DEF PortsInv, NoPort, Promise!Init
  <1> QED BY <1>1, <1>2, <1>3, <1>4, <1>5 DEF Init

LEMMA PortsStep ==
    ASSUME PortsInv, [Next]_vars
    PROVE  PortsInv' /\ [Promised]_dataVars
  <1>1. CASE version = "rendezvous" /\ version' = "rendezvous" /\ [Rendezvous!Next]_Rendezvous!portVars
    BY <1>1, RendezvousBox DEF PortsInv, Promised, dataVars
  <1>2. CASE version = "memory" /\ version' = "memory" /\ [Memory!Next]_Memory!cellVars
    BY <1>2, MemoryBox DEF PortsInv, Promised, dataVars
  <1>3. CASE version = "cached" /\ version' = "cached" /\ [Cached!Next]_Cached!cachedVars
    BY <1>3, CachedBox DEF PortsInv, Promised, dataVars
  <1>4. CASE version = "locked" /\ version' = "locked" /\ [Locked!Next]_Locked!lockedVars
    BY <1>4, LockedBox DEF PortsInv, Promised, dataVars
  <1>5. CASE version' = version /\ version \notin {"rendezvous", "memory", "cached", "locked"}
             /\ UNCHANGED dataVars
    BY <1>5 DEF PortsInv, dataVars
  <1>6. CASE Next
    BY <1>1, <1>2, <1>3, <1>4, <1>5, <1>6 DEF Next, With, Step
  <1>7. CASE UNCHANGED vars
    <2>1. /\ version' = version /\ UNCHANGED dataVars
          /\ UNCHANGED Rendezvous!portVars /\ UNCHANGED Memory!cellVars
          /\ UNCHANGED Cached!cachedVars /\ UNCHANGED Locked!lockedVars
      BY <1>7 DEF vars, portsVars, dataVars, Rendezvous!portVars, Memory!cellVars,
                  Cached!cachedVars, Locked!lockedVars
    <2> QED BY <1>1, <1>2, <1>3, <1>4, <1>5, <2>1
  <1> QED BY <1>6, <1>7

LEMMA ProtocolsInit ==
    ASSUME Init
    PROVE  ProtocolsInv
  <1>1. CASE version = "grouped" /\ Grouped!Init
    BY <1>1, EarlierAssumption, SameGrouped, GroupP!GroupedStart, GroupP!PermitStart DEF ProtocolsInv
  <1>2. CASE version = "racy" /\ Racy!Init
    BY <1>2, EarlierAssumption, RacyInit, SingleInit DEF ProtocolsInv
  <1>3. CASE version \notin {"grouped", "racy"}
    BY <1>3 DEF ProtocolsInv
  <1> QED BY <1>1, <1>2, <1>3 DEF Init

LEMMA RacyBox ==
    ASSUME Racy!WellFormed, RacyInv, RacySingle, [Racy!Next]_Racy!racyVars
    PROVE  RacyInv' /\ RacySingle'
  <1>1. CASE Racy!Next
    BY <1>1, RacyStep, OneRuleStep
  <1>2. CASE UNCHANGED Racy!racyVars
    BY <1>2, RacyStutter, SingleStutter
  <1> QED BY <1>1, <1>2

LEMMA ProtocolsStep ==
    ASSUME Grouped!AllGroupable, ProtocolsInv, [Next]_vars
    PROVE  ProtocolsInv'
  <1>1. CASE version = "grouped" /\ version' = "grouped" /\ [Grouped!Next]_Grouped!groupedVars
    <2>1. GroupP!GroupedInv'
      BY <1>1, EarlierAssumption, SameGrouped, SameGroupedStep, GroupP!GroupedBox DEF ProtocolsInv
    <2>2. Grouped!AllCopied => GroupP!PermitInv'
      BY <1>1, EarlierAssumption, SameGrouped, SameGroupedStep, GroupP!PermitStep DEF ProtocolsInv
    <2> QED BY <1>1, <2>1, <2>2 DEF ProtocolsInv
  <1>2. CASE version = "racy" /\ version' = "racy" /\ [Racy!Next]_Racy!racyVars
    BY <1>2, EarlierAssumption, RacyBox DEF ProtocolsInv
  <1>3. CASE version' = version /\ version \notin {"grouped", "racy"}
    BY <1>3 DEF ProtocolsInv
  <1>4. CASE Next
    BY <1>1, <1>2, <1>3, <1>4 DEF Next, With, Step
  <1>5. CASE UNCHANGED vars
    <2>1. version' = version /\ UNCHANGED Grouped!groupedVars /\ UNCHANGED Racy!racyVars
      BY <1>5 DEF vars, protoVars, onlyGrouped, onlyRacy, Grouped!groupedVars, Racy!racyVars
    <2> QED BY <1>1, <1>2, <1>3, <2>1
  <1> QED BY <1>4, <1>5

(***************************************************************************)
(* Every earlier version of ports implements Handover, for any number of   *)
(* puts and threads: a datum is received at most once, in order.  The      *)
(* ports that meet return Ok only when the datum has been received; the    *)
(* memory cell and the ports of graveyard/ports2.rs when it is stored.     *)
(***************************************************************************)
THEOREM EarlierPortsHandOver == FairSpec => HandsOver
  <1>1. Init => PortsInv /\ Promise!Init
    BY PortsInit
  <1>2. PortsInv /\ [Next]_vars => PortsInv' /\ [Promised]_dataVars
    BY PortsStep
  <1> QED BY <1>1, <1>2, PTL DEF FairSpec, HandsOver, Promised

LEMMA EarlierInv ==
    ASSUME Grouped!AllGroupable
    PROVE  FairSpec => [](PortsInv /\ ProtocolsInv)
  <1>1. Init => PortsInv /\ ProtocolsInv
    BY PortsInit, ProtocolsInit
  <1>2. PortsInv /\ ProtocolsInv /\ [Next]_vars => PortsInv' /\ ProtocolsInv'
    BY PortsStep, ProtocolsStep
  <1> QED BY <1>1, <1>2, PTL DEF FairSpec

LEMMA EarlierSafe ==
    ASSUME PortsInv, ProtocolsInv
    PROVE  /\ HeldWhileRead /\ CertainlyReady
           /\ Racy!RoomForAll /\ Grouped!AllCopied => NoFault
  <1>1. version = "rendezvous" =>
            Rendezvous!NoFault /\ Rendezvous!HeldWhileRead /\ Rendezvous!CertainlyReady
    BY RendezvousSafe DEF PortsInv
  <1>2. version = "memory" => Memory!CertainlyReady
    BY DEF PortsInv, MemoryInv
  <1>3. version = "cached" => Cached!HeldWhileRead /\ Cached!CertainlyReady
    BY CachedSafe DEF PortsInv
  <1>4. version = "locked" => Locked!NoFault /\ Locked!HeldWhileRead /\ Locked!CertainlyReady
    BY LockedSafe DEF PortsInv
  <1>5. version = "grouped" => /\ Grouped!HeldWhileRead /\ Grouped!CertainlyReady
                               /\ Grouped!AllCopied => Grouped!NoFault
    BY EarlierAssumption, SameGrouped, GroupP!GroupedSafe DEF ProtocolsInv
  <1>6. version = "racy" => Racy!HeldWhileRead /\ Racy!CertainlyReady /\ (Racy!RoomForAll => Racy!NoFault)
    BY EarlierAssumption, RacyHeld, RacyCertain DEF ProtocolsInv
  <1> QED BY <1>1, <1>2, <1>3, <1>4, <1>5, <1>6 DEF NoFault, HeldWhileRead, CertainlyReady

(***************************************************************************)
(* In every earlier version a putter stays in its call while a getter may  *)
(* read its datum: for any puts, threads, ports, locations and rules, any  *)
(* group that can be used with its protocol and, in RacyProt, where no     *)
(* location gets from two putters.                                         *)
(***************************************************************************)
THEOREM EarlierReadersAreSafe ==
    ASSUME Grouped!AllGroupable
    PROVE  FairSpec => []HeldWhileRead
  <1>1. PortsInv /\ ProtocolsInv => HeldWhileRead
    BY EarlierSafe
  <1> QED BY <1>1, EarlierInv, PTL

(***************************************************************************)
(* What is marked as ready is ready in every earlier version; that is, the *)
(* call it was marked in goes on.                                          *)
(***************************************************************************)
THEOREM EarlierReadinessIsCertain ==
    ASSUME Grouped!AllGroupable
    PROVE  FairSpec => []CertainlyReady
  <1>1. PortsInv /\ ProtocolsInv => CertainlyReady
    BY EarlierSafe
  <1> QED BY <1>1, EarlierInv, PTL

(***************************************************************************)
(* No earlier version panics, reads a datum that is gone or takes one      *)
(* message for another, and no getter of graveyard5/proto.rs takes a datum *)
(* that it may neither move nor copy: where a group can be used with its   *)
(* protocol, what goes to several getters there is Copy, all locations of  *)
(* graveyard5/primitives.rs have a byte, and (in NoFault of RacyProt) none *)
(* of them gets from two putters.                                          *)
(***************************************************************************)
THEOREM EarlierVersionsDoNotFault ==
    ASSUME Grouped!AllGroupable, Grouped!AllCopied, Racy!RoomForAll
    PROVE  FairSpec => []NoFault
  <1>1. PortsInv /\ ProtocolsInv => NoFault
    BY EarlierSafe
  <1> QED BY <1>1, EarlierInv, PTL

=============================================================================
