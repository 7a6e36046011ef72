------------------------------ MODULE Silence ------------------------------
(***************************************************************************)
(* Rules and what they do together, in the three versions the repository   *)
(* has: each behaviour normalizes one automaton with Rbpa or               *)
(* AbstractRules, or explores the states of one (Exploration).             *)
(***************************************************************************)
EXTENDS StepSets

CONSTANTS Cell, PortId, Defs, PortSets,   \* of Rbpa
          Var, Automata, AtomicPorts,     \* of AbstractRules
          Programs                        \* of Exploration, as is Var

VARIABLES version,
          given, acyclic, rules, silent, next, buf, phase, exact,
          original, linear, rba, relevant, stage, changed, faithful,
          program, start, search, states, todo, opts

rbpaVars == <<given, acyclic, rules, silent, next, buf, phase, exact>>
abstractVars == <<original, linear, rba, relevant, stage, changed, faithful>>
exploreVars == <<program, start, search, states, todo, opts>>

R == INSTANCE Rbpa
A == INSTANCE AbstractRules
E == INSTANCE Exploration

ASSUME SilenceAssumption == R!WellFormed /\ A!WellFormed /\ E!WellFormed

NotRbpa == /\ given = None /\ acyclic = None /\ rules = None /\ silent = None /\ next = None
           /\ buf = None /\ phase = None /\ exact = None
NotAbstract == /\ original = None /\ linear = None /\ rba = None /\ relevant = None
               /\ stage = None /\ changed = None /\ faithful = None
NotExplored == /\ program = None /\ start = None /\ search = None
               /\ states = None /\ todo = None /\ opts = None

Init ==
    \/ version = "rbpa" /\ R!Init /\ NotAbstract /\ NotExplored
    \/ version = "abstract" /\ A!Init /\ NotRbpa /\ NotExplored
    \/ version = "explored" /\ E!Init /\ NotRbpa /\ NotAbstract

Next ==
    \/ version = "rbpa"     /\ R!Next /\ UNCHANGED <<version, abstractVars, exploreVars>>
    \/ version = "abstract" /\ A!Next /\ UNCHANGED <<version, rbpaVars, exploreVars>>
    \/ version = "explored" /\ E!Next /\ UNCHANGED <<version, rbpaVars, abstractVars>>

vars == <<version, rbpaVars, abstractVars, exploreVars>>

\* Next is enabled, and its steps change vars, until the end; so this is weak
\* fairness of Next, in a form TLC need not evaluate ENABLED for
Finished == phase = "done" \/ stage = "done" \/ todo = {}
FairSpec == Init /\ [][Next]_vars /\ ([]<>Finished \/ []<><<Next>>_vars)

(***************************************************************************)
(* Normalization keeps the port steps of the automaton, in both versions,  *)
(* and exploration finds them all.                                         *)
(***************************************************************************)
PortStepsKept == /\ version = "rbpa" => R!PortStepsKept
                 /\ version = "abstract" => A!SimulatesOriginal
                 /\ version = "explored" => E!FoundAll

(***************************************************************************)
(* compose, constrain_guard and is_mutex_with mean what they should on     *)
(* every rule normalization comes upon.                                    *)
(***************************************************************************)
CombinationsExact == version = "rbpa" => R!CombinationsExact

(***************************************************************************)
(* Normalization ends, in both versions, unless silent steps go in         *)
(* circles; exploration always ends.                                       *)
(***************************************************************************)
Normalizes == /\ version = "rbpa" => R!Normalizes
              /\ version = "abstract" => A!Projects
              /\ version = "explored" => E!Terminates
=============================================================================
