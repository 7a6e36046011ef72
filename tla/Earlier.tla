------------------------------ MODULE Earlier ------------------------------
(***************************************************************************)
(* The earlier versions of ports and protocols the repository keeps: each  *)
(* behaviour is one of one version.                                        *)
(***************************************************************************)
EXTENDS Naturals, Sequences

CONSTANTS None,
          Thread, MaxPuts, MaxEvents,                    \* of the ports
          Putter, CopyPutters, Getter, Group, Leader,    \* of GroupedProto
          GroupedDefs,
          Ids, RacyDefs                                  \* of RacyProt

VARIABLES version,
          put, how, get, putter_state, cache, listening, events, left,
          slot, offered, taken, acked,
          ready, fault,
          rules, at, awaited,
          min_ready, wanted, calls, state, tentatively_ready, committed, state_waiters, lock,
          outbox, box, group, told, data_moved, duplicated,
          building, built, id_type, rule, todo, msg, sent, sema, not_yet_moved

dataVars == <<slot, offered, taken, acked>>
onlyGrouped == <<min_ready, wanted, calls, state, tentatively_ready, committed, state_waiters, lock,
                 outbox, box, group, told, data_moved, duplicated>>
onlyRacy == <<building, built, id_type, rule, todo, msg, sent, sema, not_yet_moved>>
protoVars == <<rules, at, awaited, onlyGrouped, onlyRacy>>
portsVars == <<put, how, get, putter_state, cache, listening, events, left>>
vars == <<version, portsVars, dataVars, ready, fault, protoVars>>

-----------------------------------------------------------------------------
Rendezvous == INSTANCE RendezvousPort
Memory     == INSTANCE MemoryCell
Cached     == INSTANCE CachedPort
Locked     == INSTANCE LockedPort
Grouped    == INSTANCE GroupedProto WITH Defs <- GroupedDefs
Racy       == INSTANCE RacyProt WITH Defs <- RacyDefs

ASSUME EarlierAssumption == Grouped!WellFormed /\ Racy!WellFormed

-----------------------------------------------------------------------------
NoGrouped ==
    /\ min_ready = None /\ wanted = None /\ calls = None /\ state = None
    /\ tentatively_ready = None /\ committed = None /\ state_waiters = None /\ lock = None
    /\ outbox = None /\ box = None /\ group = None /\ told = None /\ data_moved = None
    /\ duplicated = None
NoRacy ==
    /\ building = None /\ built = None /\ id_type = None /\ rule = None /\ todo = None
    /\ msg = None /\ sent = None /\ sema = None /\ not_yet_moved = None
NoProtocol == NoGrouped /\ NoRacy /\ rules = None /\ at = None /\ awaited = None
NoPort ==
    /\ put = None /\ how = None /\ get = None /\ putter_state = None /\ cache = None
    /\ listening = None /\ events = None /\ left = None
    /\ slot = 0 /\ offered = 0 /\ taken = 0 /\ acked = 0

Init ==
    \/ /\ version = "rendezvous" /\ Rendezvous!Init /\ NoProtocol
       /\ cache = None /\ listening = None /\ events = None
    \/ /\ version = "memory" /\ Memory!Init /\ NoProtocol /\ fault = FALSE
       /\ put = None /\ how = None /\ get = None /\ putter_state = None
       /\ cache = None /\ listening = None /\ events = None
    \/ /\ version = "cached" /\ Cached!Init /\ NoProtocol /\ fault = FALSE
       /\ putter_state = None /\ listening = None /\ events = None
    \/ /\ version = "locked" /\ Locked!Init /\ NoProtocol
       /\ how = None /\ putter_state = None /\ cache = None /\ ready = None
    \/ version = "grouped" /\ Grouped!Init /\ NoPort /\ NoRacy
    \/ version = "racy" /\ Racy!Init /\ NoPort /\ NoGrouped

\* a step of one version, and what the others keep
Step(v, step, kept) == version = v /\ step /\ UNCHANGED <<version, kept>>

With(rendezvous, memory, cached, locked, grouped, racy) ==
    \/ Step("rendezvous", rendezvous, <<cache, listening, events, protoVars>>)
    \/ Step("memory", memory,
            <<put, how, get, putter_state, cache, listening, events, fault, protoVars>>)
    \/ Step("cached", cached, <<putter_state, listening, events, fault, protoVars>>)
    \/ Step("locked", locked, <<how, putter_state, cache, ready, protoVars>>)
    \/ Step("grouped", grouped, <<portsVars, dataVars, onlyRacy>>)
    \/ Step("racy", racy, <<portsVars, dataVars, onlyGrouped>>)

Next == With(Rendezvous!Next, Memory!Next, Cached!Next, Locked!Next, Grouped!Next, Racy!Next)

\* threads in a call go on
Progress == With(Rendezvous!Progress, FALSE, Cached!Progress, Locked!Progress,
                 Grouped!Progress, Racy!Progress)

FairSpec == Init /\ [][Next]_vars /\ WF_vars(Progress)

-----------------------------------------------------------------------------
(***************************************************************************)
(* No version panics, reads a datum that is gone, takes one message for    *)
(* another or takes a datum that it may neither move nor copy: NoFault of  *)
(* each module.                                                            *)
(***************************************************************************)
NoFault == /\ version = "rendezvous" => Rendezvous!NoFault
           /\ version = "locked"     => Locked!NoFault
           /\ version = "grouped"    => Grouped!NoFault
           /\ version = "racy"       => Racy!NoFault

(***************************************************************************)
(* A putter stays in its call while a getter may read its datum.           *)
(***************************************************************************)
HeldWhileRead == /\ version = "rendezvous" => Rendezvous!HeldWhileRead
                 /\ version = "cached"     => Cached!HeldWhileRead
                 /\ version = "locked"     => Locked!HeldWhileRead
                 /\ version = "grouped"    => Grouped!HeldWhileRead
                 /\ version = "racy"       => Racy!HeldWhileRead

(***************************************************************************)
(* What is marked as ready is ready.                                       *)
(***************************************************************************)
CertainlyReady == /\ version = "rendezvous" => Rendezvous!CertainlyReady
                  /\ version = "memory"     => Memory!CertainlyReady
                  /\ version = "cached"     => Cached!CertainlyReady
                  /\ version = "locked"     => Locked!CertainlyReady
                  /\ version = "grouped"    => Grouped!CertainlyReady
                  /\ version = "racy"       => Racy!CertainlyReady

(***************************************************************************)
(* Ports that could serve each other do not wait for each other forever.   *)
(***************************************************************************)
NobodyStuck == /\ []<>(version = "rendezvous" => Rendezvous!Served)
               /\ []<>(version = "cached" => Cached!Served)
               /\ []<>(version = "locked" => Locked!Served)
               /\ []<>(version = "grouped" => lock = "free")
               /\ \A i \in UNION {DOMAIN d.rules : d \in GroupedDefs} :
                     []<>(version = "grouped" => Grouped!Served(i))
               /\ []<>(version = "racy" => Racy!Served)

Promise == INSTANCE Handover
Promised == IF version \in {"rendezvous", "cached"} THEN Promise!Next ELSE Promise!StoredNext

(***************************************************************************)
(* Ports and the memory cell implement Handover: a datum is received at    *)
(* most once, in order.  put of the rendezvous and the cached port returns *)
(* Ok only when its datum has been received; put of the memory cell and of *)
(* graveyard/ports2.rs returns Ok for a datum that is stored.              *)
(***************************************************************************)
HandsOver == Promise!Init /\ [][Promised]_dataVars
=============================================================================
