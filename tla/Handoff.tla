------------------------------ MODULE Handoff ------------------------------
(***************************************************************************)
(* How the getters of one firing share out the value of its putter:        *)
(* DataSource::acquire_data, the PutterSpace it works on and the dropboxes *)
(* that start and end it.  Every step below is one access to a shared      *)
(* atomic, semaphore or channel, so the getters of a firing interleave     *)
(* here without any lock.                                                  *)
(*                                                                         *)
(* Proto.tla extends this module with the coordinator that sets up a       *)
(* firing and with the part of finalize() that needs the protocol lock.    *)
(***************************************************************************)
EXTENDS ProtoDef

CONSTANTS
    Data,      \* the values that can be put
    StorePtr,  \* addresses Storage can hand out
    None,      \* null pointer, empty dropbox, dead memory, free lock
    IsCopy,    \* whether the connector's data type is Copy (TypeInfo.is_copy)
    PutTimeoutPorts   \* putters whose calls are put_timeout()

(***************************************************************************)
(* A put-datum lives on the stack of its putter: the address of p's datum  *)
(* is p itself.                                                            *)
(***************************************************************************)
Addr == PoPu \cup StorePtr

ASSUME ValueAssumption ==
    /\ None \notin Data \cup StorePtr \cup Loc \cup {0, 1}
    /\ StorePtr \cap PoPu = {} /\ IsFiniteSet(StorePtr)
    /\ Cardinality(StorePtr) >= Cardinality(Memo)
    /\ IsCopy \in BOOLEAN
    /\ PutTimeoutPorts \subseteq PoPu

VARIABLES
    ptr,        \* PutterSpace.ptr
    countdown,  \* PutterSpace.cloner_countdown
    flags,      \* PutterSpace.move_flags, the set of raised bits
    sema,       \* PutterSpace.mover_sema, permits available
    box,        \* the bounded(1) dropbox of each port
    at,         \* where each port's thread is in its call
    mode,       \* what each getter called: get() or get_signal()
    src,        \* the space a getter was told to acquire from
    moved,      \* the argument a getter passes to finalize()
    heap,       \* what each address holds; None once dropped or moved away
    out,        \* what a getter's call has written to its destination
    fault       \* ghost: what went wrong so far

handoffVars == <<ptr, countdown, flags, sema, box, at, mode, src, moved, heap, out, fault>>

MOVED    == "MOVED"      \* MOVE_FLAG_MOVED
DISABLED == "DISABLED"   \* MOVE_FLAG_DISABLED

\* "panic": an assert or expect of the code fails.  "ub": dead memory is read
\* or dropped.  "leak": a live value is forgotten.  "redrop": put_timeout()
\* drops a datum that was moved away and has another owner.
Blame(cond, what) == IF cond THEN {what} ELSE {}

Deref(s) == IF ptr[s] = None THEN None ELSE heap[ptr[s]]

Goto(t, from, to) == at[t] = from /\ at' = [at EXCEPT ![t] = to]

-----------------------------------------------------------------------------
(* The getter's dropbox delivers the id of the putter to acquire from. *)

\* Mutant: a getter that wants data skips to the count.
FirstStepNoData(g) == "count"

FirstStep(g) == IF mode[g] = "signal" THEN "count"
                ELSE IF IsCopy THEN "stamp" ELSE "ask"

RecvGet(g) ==
    /\ at[g] \in {"recv", "recv2"}
    /\ box[g] # None
    /\ src' = [src EXCEPT ![g] = box[g]]
    /\ box' = [box EXCEPT ![g] = None]
    /\ at'  = [at EXCEPT ![g] = FirstStep(g)]
    /\ UNCHANGED <<ptr, countdown, flags, sema, mode, moved, heap, out, fault>>

(* Copy types: everyone copies, the last one to count down finalizes. *)

Stamp(g) ==
    /\ Goto(g, "stamp", "copy")
    /\ flags' = [flags EXCEPT ![src[g]] = {MOVED}]
    /\ UNCHANGED <<ptr, countdown, sema, box, mode, src, moved, heap, out, fault>>

\* execute_copy: a bitwise copy, a move for types that are not Copy.  A port
\* space gives up its pointer, a memory space keeps it.
ExecuteCopy(g) ==
    LET s == src[g] IN
    /\ Goto(g, "copy", IF IsCopy THEN "count" ELSE "final")
    /\ out' = [out EXCEPT ![g] = Deref(s)]
    /\ ptr' = IF s \in PoPu THEN [ptr EXCEPT ![s] = None] ELSE ptr
    /\ heap' = IF IsCopy \/ ptr[s] = None THEN heap ELSE [heap EXCEPT ![ptr[s]] = None]
    /\ fault' = fault \cup Blame(Deref(s) = None, "ub")
    /\ UNCHANGED <<countdown, flags, sema, box, mode, src, moved>>

\* fetch_sub by a Copy getter or by a getter that wants no data
Count(g) ==
    LET s == src[g] IN
    /\ Goto(g, "count", IF countdown[s] # 1 THEN "idle"
                        ELSE IF IsCopy THEN "check" ELSE "sigask")
    /\ countdown' = [countdown EXCEPT ![s] = @ - 1]
    /\ UNCHANGED <<ptr, flags, sema, box, mode, src, moved, heap, out, fault>>

did_someone_move(s) == MOVED \in flags[s] /\ DISABLED \notin flags[s]

CheckMoved(g) ==
    /\ Goto(g, "check", "final")
    /\ moved' = [moved EXCEPT ![g] = did_someone_move(src[g])]
    /\ UNCHANGED <<ptr, countdown, flags, sema, box, mode, src, heap, out, fault>>

(* Other types: ask_for_move_permission, a fetch_or, tells movers from cloners. *)

asked(s) == [flags EXCEPT ![s] = @ \cup {MOVED}]
permission(s) == flags[s] = {}

Ask(g) ==
    /\ Goto(g, "ask", IF ~permission(src[g]) THEN "woncount" ELSE "clone")
    /\ flags' = asked(src[g])
    /\ UNCHANGED <<ptr, countdown, sema, box, mode, src, moved, heap, out, fault>>

WonCount(g) ==
    LET s == src[g] IN
    /\ Goto(g, "woncount", IF countdown[s] = 1 THEN "copy" ELSE "await")
    /\ countdown' = [countdown EXCEPT ![s] = @ - 1]
    /\ moved' = [moved EXCEPT ![g] = TRUE]
    /\ UNCHANGED <<ptr, flags, sema, box, mode, src, heap, out, fault>>

Await(g) ==
    LET s == src[g] IN
    /\ Goto(g, "await", "final")
    /\ sema[s] > 0
    /\ sema' = [sema EXCEPT ![s] = @ - 1]
    /\ UNCHANGED <<ptr, countdown, flags, box, mode, src, moved, heap, out, fault>>

ExecuteClone(g) ==
    LET s == src[g] IN
    /\ Goto(g, "clone", "losecount")
    /\ out' = [out EXCEPT ![g] = Deref(s)]
    /\ fault' = fault \cup Blame(Deref(s) = None, "ub")
    /\ UNCHANGED <<ptr, countdown, flags, sema, box, mode, src, moved, heap>>

LoseCount(g) ==
    LET s == src[g] IN
    /\ Goto(g, "losecount", IF countdown[s] = 1 THEN "release" ELSE "idle")
    /\ countdown' = [countdown EXCEPT ![s] = @ - 1]
    /\ UNCHANGED <<ptr, flags, sema, box, mode, src, moved, heap, out, fault>>

Release(g) ==
    /\ Goto(g, "release", "idle")
    /\ sema' = [sema EXCEPT ![src[g]] = @ + 1]
    /\ UNCHANGED <<ptr, countdown, flags, box, mode, src, moved, heap, out, fault>>

\* The last to count down wanted no data: finalize here unless a mover waits.
SignalAsk(g) ==
    LET nobody_else_won == ~permission(src[g]) IN
    /\ Goto(g, "sigask", IF nobody_else_won THEN "final" ELSE "release")
    /\ flags' = asked(src[g])
    /\ moved' = [moved EXCEPT ![g] = FALSE]
    /\ UNCHANGED <<ptr, countdown, sema, box, mode, src, heap, out, fault>>

\* PoPuSpace::finalize: tell the putter whether its datum was moved.
FinalizePort(g) ==
    LET p == src[g] IN
    /\ p \in PoPu
    /\ Goto(g, "final", "idle")
    /\ box' = [box EXCEPT ![p] = IF moved[g] THEN 1 ELSE 0]
    /\ fault' = fault \cup Blame(box[p] # None, "panic")
    /\ UNCHANGED <<ptr, countdown, flags, sema, mode, src, moved, heap, out>>

AcquireData(g) ==
    \/ Stamp(g)    \/ ExecuteCopy(g) \/ Count(g)        \/ CheckMoved(g)
    \/ Ask(g)      \/ WonCount(g)    \/ Await(g)        \/ ExecuteClone(g)
    \/ LoseCount(g) \/ Release(g)    \/ SignalAsk(g)    \/ FinalizePort(g)

-----------------------------------------------------------------------------
(* The putter's dropbox delivers how the firing ended. *)

\* A putter hands its datum back, or drops it, when told 0.  When told 1, put(),
\* put_lossy() and put_timeout_lossy() forget it; put_timeout() does not, and
\* drops it as it returns.
RecvPut(p) ==
    LET told == box[p] IN
    /\ at[p] \in {"recv", "recv2"}
    /\ told # None
    /\ box' = [box EXCEPT ![p] = None]
    /\ at'  = [at EXCEPT ![p] = "idle"]
    /\ heap' = [heap EXCEPT ![p] = None]
    /\ fault' = fault
          \cup Blame(~IsCopy /\ told = 1 /\ p \notin PutTimeoutPorts /\ heap[p] # None, "leak")
          \cup Blame(~IsCopy /\ told = 1 /\ p \in PutTimeoutPorts /\ heap[p] = None, "redrop")
          \cup Blame(told = 0 /\ heap[p] = None, "ub")
    /\ UNCHANGED <<ptr, countdown, flags, sema, mode, src, moved, out>>
=============================================================================
