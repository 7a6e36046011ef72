------------------------------ MODULE ProtoInv ------------------------------
(***************************************************************************)
(* The connectors that the handoff serves, and the inductive invariant     *)
(* that shows it: wherever a location is - ready, in the firing that is    *)
(* being performed, in the hands of getters, or out of any call - it is    *)
(* nowhere else, and its value is where whoever reads it next looks.       *)
(***************************************************************************)
EXTENDS ProtoProps

\* the locations that take part in an action
Part(a) == {a.putter} \cup a.getters

(***************************************************************************)
(* A datum that is not Copy goes to one place at a time: it is handed to   *)
(* one port at most and never shared between cells.  One that is Copy may  *)
(* be shared, and a cell may hand it to any number of ports.  Guards read  *)
(* the values of putters of their rule only.                               *)
(***************************************************************************)
ServedAction(a) ==
    /\ ~SelfPut(a)
    /\ a.putter \in PoPu \/ ~IsCopy => \A g, h \in pg(a) : g = h
    /\ ~IsCopy => \A m, n \in mg(a) : m = n
    /\ ~IsCopy /\ a.putter \in Memo => mg(a) = {} \/ pg(a) = {}

Served ==
    \A r \in RuleId :
        /\ \A a \in Actions(r) : ServedAction(a)
        /\ \A x \in Rules[r].guard.atoms :
              x.op = "ValueEq" => {x.a, x.b} \subseteq {a.putter : a \in Actions(r)}

-----------------------------------------------------------------------------
\* the stages of acquire_data before and after a getter counts down
Before == IF IsCopy THEN {"stamp", "copy", "count"} ELSE {"ask", "woncount", "count"}
After  == IF IsCopy THEN {"check", "final"} ELSE {"copy", "sigask", "final"}

ToCount(g, s) == SentTo(g, s) \/ (src[g] = s /\ at[g] \in Before)
Closes(g, s) == src[g] = s /\ at[g] \in After
Touches(g, s) == ToCount(g, s) \/ Closes(g, s)

Counters(s) == {g \in PoGe : ToCount(g, s)}

InCall(t) == at[t] \in Waiting \cup {"coord"}
Held(s) == \E g \in PoGe : Touches(g, s)

\* a getter has moved the value of s away and has yet to say so
TakenOut(s) == ~IsCopy /\ \E g \in PoGe : src[g] = s /\ at[g] = "final" /\ moved[g]

\* what remains of a firing: actions that are served, without a common location
TodoInv ==
    /\ \A i \in DOMAIN todo : ServedAction(todo[i])
    /\ \A i, j \in DOMAIN todo : i # j => Part(todo[i]) \cap Part(todo[j]) = {}

\* the only fault there can be is put_timeout()'s
FaultInv ==
    /\ fault \subseteq {"redrop"}
    /\ fault # {} => ~IsCopy /\ PutTimeoutPorts # {}

LockInv == lock # None => at[lock] \in {"coord", "sweep"}

\* a port is ready, in todo, told or to be told something, read from or out of
\* any call
PortInv ==
    \A t \in Port :
        /\ \/ t \in ready \/ InTodo(t) \/ box[t] # None
           \/ t \in PoGe /\ tell[t] # None
           \/ t \in PoPu /\ Held(t)
           <=> InCall(t)
        /\ t \in ready => at[t] # "recv2" /\ ~InTodo(t) /\ box[t] = None
        /\ InTodo(t) => box[t] = None
        /\ t \in PoGe /\ tell[t] # None => t \notin ready /\ ~InTodo(t) /\ box[t] = None
        /\ t \in PoPu /\ Held(t) => t \notin ready /\ ~InTodo(t) /\ box[t] = None

\* a cell is ready, in todo, or in the hands of getters
CellInv ==
    \A m \in Memo :
        /\ m \in ready \/ InTodo(m) \/ Held(m)
        /\ InTodo(m) => m \notin ready
        /\ Held(m) => m \notin ready /\ ~InTodo(m)

\* a getter takes the steps for its type of data
StageInv == \A g \in PoGe : at[g] \in InHandoff => at[g] \in Before \cup After

\* nobody has heard of a space whose countdown and flags are not yet stored
ArmInv ==
    arming # None => \A g \in PoGe : Touches(g, arming) => tell[g] = arming

\* cloner_countdown is what is still to be counted, whoever comes last is alone
CountInv ==
    \A s \in Space :
        /\ Counters(s) # {} /\ s # arming => countdown[s] = Cardinality(Counters(s))
        /\ \A g, h \in PoGe : Closes(g, s) /\ Touches(h, s) => g = h
        /\ s \in PoPu \/ ~IsCopy =>
              \A g, h \in PoGe : Touches(g, s) /\ Touches(h, s) => g = h

\* without Copy the one getter is given permission to move, and uses it
MoveInv ==
    ~IsCopy => \A g \in PoGe :
        /\ tell[g] \notin {None, arming} => flags[tell[g]] = {DISABLED}
        /\ box[g] # None => flags[box[g]] = {DISABLED}
        /\ at[g] \in {"ask", "count", "sigask"} => flags[src[g]] = {DISABLED}
        /\ at[g] = "copy" => moved[g]
        /\ at[g] \in {"count", "sigask"} => mode[g] = "signal"

\* the datum of a put is on the stack until the putter is told that it has moved
DatumInv ==
    \A p \in PoPu :
        /\ box[p] \in {0, 1, None}
        /\ at[p] = "enter" \/ p \in ready \/ InTodo(p) => ptr[p] = p /\ heap[p] # None
        /\ box[p] = 0 => heap[p] # None
        /\ box[p] = 1 /\ ~IsCopy => heap[p] = None
        /\ Held(p) => (heap[p] = None <=> TakenOut(p))
        /\ \A g \in PoGe :
              SentTo(g, p) \/ (src[g] = p /\ at[g] \in {"stamp", "copy", "ask", "woncount"})
              => ptr[p] = p

\* the contents of cells, against their memory bits
ContentInv ==
    /\ \A m \in Memo :
        /\ m \in full => (ptr[m] # None <=> m \in ready)
        /\ m \notin full => (ptr[m] = None <=> m \in ready)
        /\ \A i \in DOMAIN todo :
              /\ m \in todo[i].getters => m \in full
              /\ m = todo[i].putter => m \notin full
        /\ Held(m) => m \notin full
        /\ ptr[m] # None => (heap[ptr[m]] = None <=> TakenOut(m))
        /\ ~IsCopy => \A n \in Memo : ptr[m] # None /\ ptr[n] = ptr[m] => n = m

\* destinations that have been written
OutInv ==
    \A g \in PoGe : mode[g] = "data" /\ at[g] \in {"idle", "sweep", "count", "check", "final"}
                    => out[g] # None

SafetyInv ==
    /\ FaultInv /\ RefCount
    /\ TodoInv /\ LockInv /\ PortInv /\ CellInv
    /\ StageInv /\ ArmInv /\ CountInv /\ MoveInv
    /\ DatumInv /\ ContentInv /\ OutInv
=============================================================================
