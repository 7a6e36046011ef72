# Formal model of reo_rs

`src/` is a Rust library that runs *connectors*: shared objects through which
threads exchange data by calling `put` and `get` on ports.  A connector is a
list of rules; a rule names putters (ports or memory cells) and the getters
that receive what each of them offers, and fires when all its participants are
ready.  There is no coordinator thread.  Whoever calls `put` or `get` takes the
lock of the protocol, raises the readiness of its port, and fires rules until
none can fire.  The lock is released before any data reaches a port getter: the
getters of a firing settle among themselves, with atomics and a semaphore, who
moves the value, who clones it, and who tells the putter or empties the memory
cell.

This directory holds TLA+ modules of that machinery, the TLC configurations
that check them on small connectors, and proofs for arbitrary connectors.

## 1. The system

| Component | Source (under `src/src/`) | State | Operations |
|---|---|---|---|
| Protocol definition | `proto/definition.rs` | none after `finish` | `build_rules` derives the bitsets of each rule, `finish` sets up spaces, readiness, memory bits, unclaimed ports |
| Coordinator | `proto/mod.rs` (`ProtoW`, `Firer`) | `memory_bits`, `ready`, `mem_refs`, `storage`, behind one `Mutex` | `ready_set_coordinate`, `exhaust_rules`, `is_ready`, `eval_formula`, `assign_memory_bits`, `subtract_readiness`, `perform_action`, `make_empty` |
| Handoff | `proto/traits.rs` (`DataSource`), `PutterSpace`, `MoveFlags` | `ptr`, `cloner_countdown`, `move_flags`, `mover_sema` per space, without the lock | `acquire_data`, `execute_copy`, `execute_clone`, `finalize` |
| Dropboxes | `MsgDropbox` | a `bounded(1)` channel per port | `send` (panics when full), `recv`, `recv_timeout` |
| Port calls | `Putter`, `Getter` | the call stack of each thread | `put*`, `get*`, `await_msg_timeout` |
| Storage | `proto/memory.rs` | `owned`, `free` | `alloc`, `move_in`, `clone_in`, `drop_inside`, `forget_inside` |
| Port claiming | `claim`, `Drop` of ports | `unclaimed_ports` | claim, unclaim |
| Port groups | `proto/groups.rs` | members, `ready_tentative`, `commitment` | `add_putter`, `add_getter`, `deliberate` |
| Bitsets | `bitset.rs` | chunks of machine words | `set_to`, iterators, set algebra |
| Rule composition | `rbpa.rs` | none | guards and assignments composed and normalized |
| Token API | `tokens.rs` | none at run time | type-level bookkeeping around `put` and `get` |

The repository also keeps earlier versions of these parts in `graveyard*`
directories.  They are not built, but complete enough to be modelled by
themselves, and each is another answer to the same questions:

| Earlier version | Source (under `src/`) | State | Operations |
|---|---|---|---|
| Ports with a cache | `graveyard/reo_simplest_working.rs` | two rendezvous channels, the getter's `cache`, readiness of two registrations | `put`, `try_put`, `get`, `peek`, `try_peek` |
| Ports with a condition variable | `graveyard/ports2.rs` | a slot under a mutex, a condvar, a rendezvous, two selectors | `put` from several threads, `get`, registration and waiting for a selector |
| Ports that freeze, and a memory cell | `graveyard2/reo.rs` | a pointer to the putter's stack, one rendezvous channel used twice, `putter_state` | `put`, `try_put`, `get`, `peek`, `freeze`, `thaw`; `Memory` and its handles |
| State exploration | `graveyard4/rba_builder.rs` | the states found | `rba_build`, `internal_close` |
| Protocol with groups | `graveyard5/proto.rs` | `ready`, `tentatively_ready`, `commitment`, state waiters, a channel per port | `put`, `get`, `advance_state`, making, asking and dropping a group |
| Protocol without a lock | `graveyard5/primitives.rs` | a byte per location, a dropbox per port | the builder, `put`, `get`, `enter`, `fire` |
| Rule composition before `rbpa.rs` | `graveyard6/rbpa.rs` | predicates with an unknown value | `project`, `normalize`, merging and masking |

How they interact.  A call stores its pointer (`set_ptr`), locks, and runs the
coordinator.  The coordinator commits the memory bits of the rule it selected,
takes away the readiness of its participants, and performs its actions.  For an
action with port getters it stores `cloner_countdown`, then `move_flags` in the
putter's space and sends the putter's id to one getter's dropbox after the other;
a getter works on that space without the lock as soon as it has its message,
while the coordinator still sends to the others.  The getter that ends the
handoff either answers the putter's dropbox (1: moved, 0: not moved) or, for a
memory cell, takes the lock again, empties the cell, makes it ready and
coordinates once more.

What is hard here:

* **Interleaving without a lock.**  Which getter moves is settled by one
  `fetch_or`, who finishes by one `fetch_sub`; the order of the two differs
  between getters.
* **Split firings.**  Memory bits change when a rule is selected, pointers when
  an action is performed, contents when the last getter is done.
* **Timeouts.**  A call may try to take its readiness back while a firing that
  includes it is under way, and then has to wait for an answer after all.
* **Lost wakeups.**  A cell becomes free in the middle of a getter's call; the
  calls that wait for it sleep, so the getter has to coordinate for them.
* **Counting by hand.**  Cells share values by address; `mem_refs` decides who
  drops them.
* **Commitment.**  In the protocol with groups a rule is chosen in one critical
  section and fires in another one; in the one without a lock it is chosen by
  what one thread has seen and fired on what may have changed since.
* **Silent rules.**  Composition takes a rule away and must leave what it did in
  the rules that could follow it, in whatever order.

What makes each part correct, as properties: section 4.  Everything that could
go wrong is listed with its line under `hazards` in `PROJECT.json`.

## 2. Modules

| Module | Models |
|---|---|
| `ProtoDef` | Locations, rules, and the sets `build_rules` derives for a rule.  Constants and their assumptions. |
| `Handoff` | `PutterSpace`, dropboxes and `acquire_data`: one action for each access to a shared atomic, semaphore or channel.  What each kind of `put` does with its datum in the end. |
| `Proto` | Extends `Handoff`: calls, timeouts, the lock, rule selection, all four kinds of action of `perform_action`, `make_empty`, `MemoSpace::finalize`.  The complete system. |
| `Connector` | The abstract specification: offers and wants wait at ports, a firing is one step. |
| `ProtoProps` | Type invariant, safety, liveness, and the refinement mapping from `Proto` to `Connector`. |
| `ProtoProofs` | Theorems about `Proto` that hold for every connector, with their proofs. |
| `ProtoInv` | `Served`, the connectors the handoff serves, and `SafetyInv`, the inductive invariant of `Proto` for them. |
| `ProtoSafety` | `SafetyInv` and the safety properties of `Proto` that follow from it, proved. |
| `ConnectorProofs` | `NoMissedFiring` for guards on values, and `Proto` implements `Connector`, proved. |
| `MCProto` | The connectors TLC is given for `Proto`. |
| `Readiness` | The state by which rules are selected, as sets: `ready`, `full`, and what arriving, leaving and firing do to them. |
| `BitSets` | `BitSet`: chunks of `W` bits, `set_to`, `test`, `get_chunk`, `from_iter`, padding. |
| `BitReadiness` | The same state as bitsets of different lengths, with `is_ready`, `assign_memory_bits` and `subtract_readiness` as loops over chunks. |
| `BitOps` | The other operations of `BitSet`, on two bitsets of any history: iterators, tests, `or_with`, `difference_with`, stripping and padding. |
| `Storage` | `memory.rs`: owned addresses, free lists by layout, known types, `shrink_to_fit`, the drop of a storage. |
| `StructureProofs` | `BitReadiness` implements `Readiness`, for every chunk width; `Storage` loses no address and uses none twice, for any types and layouts. |
| `Formulas` | The guard of a rule: what `define_all_funcs_in` does with it, and what `eval_formula`, `eval_term_with_info` and the `partial_eq` of a type answer while pointers change. |
| `MCBits`, `MCStructures` | Layouts with two bits to a chunk; `BitReadiness`, `BitOps`, `Storage`, `Formulas` and `Claims` side by side, one in each behaviour. |
| `ProtoBuilder` | `try_instantiate`, `finish`, `build_rules`: a state machine that reads a definition action by action and getter by getter, with every early return. |
| `Claims` | Extends `ProtoBuilder`: instances, `claim`, the drop of ports, port groups. |
| `BuilderProofs` | What is built and what is refused, proved for every definition; who owns a port, for any instances, clients and groups. |
| `MCClaims` | Definitions for `ProtoBuilder` and `Claims`. |
| `Rbpa` | `rbpa.rs`: `new_rbpa`, `compose`, `fuse`, `constrain_guard`, `normalize` turn by turn, and rules as relations on states. |
| `AbstractRules` | The same for `graveyard6/rbpa.rs`, with merging and masking. |
| `Exploration` | `graveyard4/rba_builder.rs`. |
| `StepSets` | The port steps of a set of steps, which say what rules do together in `Rbpa` and `AbstractRules`. |
| `Silence` | Instances of these three; a behaviour is of one version. |
| `SilenceProofs` | Normalization keeps port steps and exploration finds every step, for any definitions, cells, ports and variables. |
| `MCSilence` | Automata for the run of `Silence`. |
| `Handover` | The abstract specification of a port: a datum is received at most once, in order.  What success tells a putter differs: in `Spec` that its datum has been received, in `StoredSpec` that it has been stored. |
| `CachedPort`, `RendezvousPort` | Earlier ports that implement `Handover!Spec`. |
| `LockedPort`, `MemoryCell` | An earlier port and the memory cell, which implement `Handover!StoredSpec`. |
| `GroupedProto` | `graveyard5/proto.rs`: commitment, one group, messages sent one by one, and which getters take a datum out. |
| `RacyProt` | `graveyard5/primitives.rs`: every access to a shared byte is a step. |
| `Earlier` | Instances of the ports, the cell and these two; a behaviour is of one version. |
| `GroupProofs` | The safety of `GroupedProto` for any ports, rules and any group that can be used with them. |
| `EarlierProofs` | The safety of all versions in `Earlier`, for any number of puts, threads, ports, locations and rules, and which promise of `Handover` each port keeps. |
| `MCEarlier` | Protocols for the run of `Earlier`. |

The modules meet in `ProtoDef`: `ProtoBuilder` is shown to produce what
`ProtoDef` says of each rule and to accept only what `ProtoDef` assumes; `Proto`
and `Readiness` start from there.  `Readiness` is the part of `Proto`'s state
that the code keeps in bitsets.  `Claims` gives `Proto` its threads: a port has
one owner, so one call at a time.  `Storage` refines what `Proto` says of
addresses, that one which is not owned may be given out: `StorageSound` is the
justification.  `Formulas` has every form of guard, of which `Proto` evaluates
sets of atoms on its own state.  The modules of earlier versions stand by
themselves; `Earlier` and `Silence` only put them under one specification, where
each leaves the variables of the others alone.

### State and actions against the code

A thread is named by the port it owns, since a `Putter` or `Getter` is used by
one thread at a time (its methods take `&mut self`).  `at[t]` is its program
counter.  Memory is explicit: `ptr[s]` is the pointer of a space, `heap[a]` what
is at address `a`; the address of a putter's stack datum is the putter's own
name, other addresses come from `Storage`.  `heap[a] = None` says that nothing
live is there: it was never written, or has been moved away or dropped.

| Code | Model |
|---|---|
| `put_in_place`, up to the lock | `PutBegin` |
| `get*`, up to the lock | `GetBegin`; `mode` says whether data is wanted |
| `ready_set_coordinate` | `Enter` |
| one iteration of `exhaust_rules` that fires | `SelectRule`, then one `PerformAction` for each action |
| `exhaust_rules` returning, lock dropped | `Unlock` |
| `perform_action` by kinds of putter and getters | `PortToCells`, `PortToPorts`, `CellToCells`, `CellToPorts`; for port getters they end with the list of them (`StartHandoff`) |
| then, in `instruct_getter` and around it, the stores and each `send` | `Arm` for `cloner_countdown` and `move_flags`, `Tell` for one dropbox; only after the last one does the coordinator go on (`AllTold`) |
| `put`, `put_lossy`, `put_timeout_lossy`, `put_timeout` of a datum that was moved | `RecvPut`: forgotten, except by the calls of `PutTimeoutPorts`, which drop it once more (fault `redrop`) |
| `recv`, `recv_timeout` returning a message | `RecvPut`, `RecvGet` |
| `recv_timeout` expiring | `TimeOut` |
| `ready.set_to(my_id, false)` after it, under the lock | `Revoke` |
| the loops of `build_rules` | `ReadPutter`, `ReadGetter`, `PushAction`, `PushRule` |
| `claim` that succeeds, `Drop` of a port | `Claim`, `Drop` |
| `add_putter`, `add_getter` | `GroupClaim`, then `GroupAdd` or `GroupReject`, which takes the lock again |
| `acquire_data`, each atomic access | `Stamp`, `ExecuteCopy`, `Count`, `CheckMoved` (Copy types); `Ask`, `WonCount`, `Await`, `ExecuteClone`, `LoseCount`, `Release`, `SignalAsk` |
| `PoPuSpace::finalize`, `MemoSpace::finalize` | `FinalizePort`, `FinalizeCell` |

In the earlier versions:

| Code | Model |
|---|---|
| a critical section of `ports2.rs` | one action of `LockedPort` (`Store`, `Take`, the registrations) |
| a send that meets a `recv` on a channel without capacity | one action of both threads (`Barrier`, `Pass`, `DoneSig`, `Meet`) |
| `advance_state` | `Commit`, `Fire`, then `Send` for each message, `Leave` |
| `ready_wait_determine` | `Ask`, `Determined`, and the call that follows, `CallTold` |
| one turn of `enter`, the drain, one getter in `fire` | `Try`, `Drain`, `Fire` of `RacyProt` |
| one turn of the loops of `normalize` | `RemoveSilent`, `Compose`, `AppendComposed`, `RemoveDuplicates`; in `AbstractRules` `RemoveSilentRule`, `MergePair`, `Merged`, `mask_irrelevant_vars` |
| one state taken from the stack or the set | `Explore` |

The steps of the coordinator are separate actions although it holds the lock,
because getters of earlier firings run beside it.  An assert, `expect` or
`unwrap` that would fail, a read or drop of dead memory, and a live value that
is forgotten are recorded in the ghost variable `fault`; the system stops at the
first one, and `NoFault` says that there is none.

Every definition that stands for code has its lines under `map` in
`PROJECT.json`.  Operators introduced by "Mutant" are faulty variants of the
definition after them; they are used to see that the properties notice the
fault, and are not part of the model.

### The abstract connector and the mapping

`Connector` has no lock, no readiness, no pointers: `offer`, `want`, `mem` and
`given`, and `Fire(r)` moves all values of a rule at once.  Under the mapping in
`ProtoProps` an offer is the datum of a putter that is *ready*, a firing happens
at `SelectRule`, and the values a firing moves are followed to where they are
from then on: still at the supplier of an action not yet performed, at the
address the getter has been told, or at the getter's destination.  Every other
step of `Proto` is a stutter, an `Offer` or `Want` (entering the lock), a
`Withdraw` or `Unwant` (a timeout that wins) or a `Collect`.  So
`ImplementsConnector` says that the split firings, the sharing of addresses, the
handoff and the timeouts cannot be told from atomic firings.  `FiresWhenItCan`
is the same with the connector's fairness: while some rule can fire, one does.

## 3. Runs

Names: `p0`, `p1` putters, `g2`, `g3` getters, `m4`, `m5` cells, as the ids in
the tests.  Nothing bounds time or the number of calls: every run explores all
reachable states of its connector.

| Run | Connector | Shows |
|---|---|---|
| `Alternator` | `p0=>g2, p1=>m4; m4=>g2` (`AlternatorProto` of `proto/tests.rs`), a timeout on every call (puts as `put_timeout_lossy`), two data values, not Copy | the type invariant, all safety properties for one putter of each kind, refinement, and under fairness that picked calls and timed calls return |
| `Chain` | `p0=>{m4,m5}; m4=>{g2,g3}; m5=>m4`, Copy data, no timeouts | two cells with one address, two getters at one cell with all mixes of `get` and `get_signal` in the Copy path, a memory-only rule run by whoever has the lock; the inductive invariant `SafetyInv` with its reference counts, and liveness: a rule that can fire does |
| `Guarded` | `None(MemIsNull)`, `ValueEq` guards; `p0=>{g2,m4}`; a lossy action `p1=>{}` | guards on stored and offered data, a datum that is given out and cloned into a cell, a putter with a timeout whose datum a guard reads |
| `Shared` | `p0=>{m4,m5}; m4=>{g2,g3}; m5=>g3`, data not Copy | reference counts hold although the handoff does not (below); exercises the cloner's path |
| `BroadcastStuck` | `p0=>{g2,g3}`, not Copy | a counterexample to `AnswerArrives` |
| `SharedStuck` | `p0=>{m4,m5}; m4=>g2; m5=>g3`, not Copy | a counterexample to `Caretaker` |
| `PutTwice` | that of `Alternator`, puts as `put_timeout` | a counterexample to `NoFault` |
| `UninitGet` | that of `Shared` | a counterexample to `InitOnReturn` |
| `Structures` | ids 0 to 5 in three chunks, participants in each, a self-putting cell; two bitsets of up to three chunks; three addresses for three types of two layouts; 589 guards over three putters and a cell; every definition with one rule of one or two actions from a set of 35, ill-formed ones too, and one definition for each other refusal, with two instances, a client and a group | bitsets behave as sets, with refinement of `Readiness`; the operations of `BitSet` are right on any lengths as far as `BitOps` says; addresses are accounted for; guards answer what they mean; what is built, what is refused, who owns a port |
| `BitsEdge` | a getter with the first id of a chunk | a counterexample to `GuardExact` |
| `Silence` | all definitions of three rules over ports and two cells, in `Rbpa`; automata of two or three rules over two variables, in `AbstractRules`; pairs of commands with unknown values, in `Exploration` | the port steps of an automaton survive normalization, combinations of rules mean what they should, silent rules are gone in the end; exploration finds every step |
| `Earlier` | ports with up to three data and, in `LockedPort`, two putting threads; four protocols with a group of two and six ports; seven definitions over four locations without a lock, one of a single rule and the rules of `prot_test` among them | no panic, no dead datum read and none taken out twice, a datum stays while it is read, what is marked ready is ready, nobody waits forever, ports keep the promise of `Handover` |

Bounds and why they are enough.  The handoff distinguishes the mover, the
cloners and the signal getters, and the last of them; two getters give every
pair of roles and both orders.  One firing involves at most two actions here,
which is what makes "selected but not yet performed" visible; actions are
performed independently, so a third adds nothing new.  Two cells are the least
that share an address.  Two data values tell a value from another one, which is
what `ValueEq` and the refinement need; the runs with one value check properties
that do not look at values.  `StorePtr` has an address for each cell, the most
that can be in use at once.

`Structures` and `BitsEdge` have two bits to a chunk, the least with both a first
and a last bit; three chunks give a first, an inner and a last one, and bitsets
that differ in length by more than one.  Three addresses let one layout have two
while the other has one; two types of one layout are what an address changes
hands between, and one of them cannot be cloned.  Guards have up to three levels
and one or two operands to a formula, the least in which an operand decides
whether the next one is evaluated; they read three types, one without an
equality, and a cell that may be empty.  Two actions
are the least that can collide, and the definitions for `Claims` hold every pair
of actions over the kinds of locations in every order.  A client and a group
compete for a port as two clients would, and either gives ports back, the group
those it rejects; a second instance is what a group may refuse.

In `Silence` two cells (or variables) tell a step that changes the one from a
step that reads the other, which is what composition can get wrong; three rules
are a silent rule that is composed with a silent one and a port rule.
`Exploration` needs two commands to reach a state in two steps.  In `Earlier`
`MaxPuts` is three: the datum before, the one at stake and the one after it;
two threads compete for a slot and a third waits no differently; `MaxEvents`
bounds the registrations with which a getter alone could fill its selector.
`GroupedProto`'s `calls` bound the calls of each port; its four definitions are
a group that is told between two rules, rules of two getters one of which they
share (their data is Copy), a group that must wait for a state, and constraints.
`RacyProt` has no bound but its locations: all reachable states are explored.  Its
definitions have rules next to each other, a chain through a location that is
also a memory, one rule alone, for which `CertainlyReady` says more, and rules of
one putter that share nothing else (`prot_test`) or a getter.

The deadlock check is on wherever the connector can always go on; it is off in
`Shared` and in the runs that exhibit a deviation, in `Silence`, where
normalization ends, in `Earlier`, where calls run out and halves are dropped, and
in `Structures`, where a refused definition leads nowhere and an instantiation
may panic over its guards.

Fairness (`FairSpec`).  A thread inside a call, and the thread that holds the
lock, keeps running: weak fairness on each thread's next step and on the
coordinator.  Lock acquisition (`Enter`, `Revoke`, `FinalizeCell`) is strongly
fair: `parking_lot::Mutex`, which the code uses, hands the lock over to a waiter
after a bounded time, so a thread that finds the lock free again and again gets
it.  A timeout expires eventually (`TimeOut` weakly fair).  Nothing makes a
thread begin another call: `PutBegin` and `GetBegin` have no fairness, so the
liveness properties speak only of calls that have been made.

`Silence` is about sequential code, so one of its steps is taken as long as there
is one; the formula `[]<>Finished \/ []<><<Next>>_vars` says so without asking
TLC for `ENABLED` of operators on sequences.  `Earlier` has weak fairness of
`Progress`, the steps of threads that are in a call, whichever thread's: a
scheduler that runs something while something can run.  That is less than
fairness of each thread, so `NobodyStuck` shows only that the system as a whole
goes on, and holds because calls and data are finite there or because it asks
for one of the ports of the rules.  Beginning a call, running out of time,
freezing, thawing and dropping a half are left to the environment.

## 4. Properties

* `NoFault`: no assert of the code fails, no dead memory is touched, nothing
  live is forgotten, so every datum put has one owner at any time.  Calls of
  `put_timeout` violate it (`PutTwice`), and nothing else does in the connectors of
  section 6; the other runs put by the other three calls.
* `InitOnReturn`: a `get` that returned has written its destination.
* `NoMissedFiring`: when the lock is free no rule can fire.  It needs the entry
  of a call, the loop of `exhaust_rules`, and the second coordination in
  `MemoSpace::finalize` together.
* `RefCount`: `mem_refs` is the number of cells at each address, `Storage.owned`
  the addresses in use.
* `CellContents`: a ready cell agrees with its memory bit.
* `ReadyIsWaiting`: what `is_ready` relies on: a port that is ready is waiting,
  its dropbox is empty, its datum is in place, and no getter still works on it.
* `OwedAnswer`, `Caretaker`: a call whose readiness is gone, and a cell that is
  not ready, has somebody who will deal with it.
* `SafetyInv`: where each location and each value is, in a form that every step
  preserves by itself; section 6 says what it is made of and what follows from it.
* `NoDanglingReader`: a putter's stack frame stays until its readers are done.
* `AnswerArrives`, `TimedCallReturns`, `FiresWhenItCan`: liveness.
* `ImplementsConnector`: atomic firings.
* `GuardExact`, `ImplementsSets`: the bitsets stand for sets, in spite of their
  different lengths.
* `BuiltAsDefined`: what `build_rules` accepts has the bitsets `ProtoDef` derives,
  in whatever order its actions and getters come.  `RefusedForCause`: it refuses
  nothing else than it must.
* `OneOwner`: a port is unclaimed as its definition says or has one owner.
  `GroupedFit`: a group's ports belong to one instance and have the role they were
  added with.
* `OperationsExact`: what `BitSet` computes is what it would on sets of ids,
  whatever lengths two bitsets have come to have; it names the exceptions.
* `StorageSound`: an address is in use for one value, or on the free list of the
  layout it was allocated with, or not allocated.
* `GuardsAnswer`: a well-formed guard answers what it means whenever its rule is
  considered, although cells it reads may be empty by then: an operand that asks
  first must keep the others from being evaluated.  Well-formed are guards without
  `And` and `Func`, whose Boolean terms are compared with each other only; section 5
  says why.
* `PortStepsKept`: normalizing leaves the steps of an automaton at its ports as
  they were, in both directions; exploring finds them all.  `CombinationsExact`:
  two rules are in conflict, constrain each other and compose as their meanings
  do.  `Normalizes`: no silent rule is left in the end.
* For the earlier versions `NoFault`, `HeldWhileRead` (a putter stays in its call
  while its datum may be read), `CertainlyReady` (what a readiness flag or an
  event promises is so), `NobodyStuck` and the refinement `HandsOver`.  `NoFault` of
  `GroupedProto` includes that no datum that is not Copy is taken out twice.
  `HandsOver` is `Handover!Spec` for the rendezvous and the cached port, where `Ok` means
  received, and `Handover!StoredSpec` for `LockedPort` and `MemoryCell`, where it means
  stored.

Some of these are conditional, and the condition is always something the code
does wrong otherwise or does not promise: `exact` and `faithful` (combinations
have been right so far), `acyclic` and `linear` (silent steps do not go in
circles), `shrunk` and `broken` in `Storage`, `OneSource` in `RacyProt` (no location gets
from two putters).  Section 5
says what happens outside them.  Each condition holds in a good part of the
states of its run, and faults of the code planted inside it are found.

## 5. Where the code departs from its documentation

Found by the five runs that expect a violation:

1. **Two data getters at a port putter, data not Copy** (`BroadcastStuck`).
   `MoveFlags::reset(move_enabled)` stores `DISABLED` when its argument is *true*
   (`mod.rs:73`), and `ask_for_move_permission` returns true to the one who saw
   no bit, while `acquire_data` calls a getter that got *false* the winner
   (`traits.rs:256`).  The two inversions cancel out for a single getter; with
   two data getters both win, and the first of them to count down waits for a
   semaphore that nobody releases.
2. **A shared cell with one getter** (`SharedStuck`).  For a cell whose address
   is shared, no bit is set; its only getter then loses, clones, counts down to
   zero and releases the semaphore instead of finalizing the cell, which is never
   ready again.
3. **Bitsets one chunk short** (`BitsEdge`).  Padding to the capacity `max_loc_id`
   leaves no room for that id itself when it is a multiple of the chunk width
   (`bitset.rs:197`), and `is_ready` stops with its shortest bitset: a rule fires
   without the getter that has this id.  Readiness bits are not padded at all
   (`definition.rs:148`), which does the same to ports with ids of 64 and more
   when all cells and the ports that have arrived have smaller ones.
   `GoodLayout` names the layouts that are safe.
4. **`put_timeout` drops what was moved** (`PutTwice`).  It answers `Moved` without
   `mem::forget` (`mod.rs:951`), where `put`, `put_lossy` and `put_timeout_lossy` forget
   the datum (`mod.rs:1013`, `1025`, `933`); at the end of the call it is dropped
   although a getter or the storage owns it.
5. **A `get` that returns nothing** (`UninitGet`).  At a cell whose non-Copy value
   is shared, the second of two getters to ask wins; if it has to wait for the
   first, it then finalizes without having copied or cloned (`traits.rs:264`).

Seen while modelling, with no run of their own:

* The ports of a dropped group are lost: `member_info` is never filled, so
  `PortGroup::drop` unclaims nothing (`groups.rs:140`), and a `Grouped` port does not
  unclaim itself.  `DropGroup` in `Claims` has it, `OneOwner` says nothing of groups
  that are gone.
* Two data getters at a port putter of Copy type: `execute_copy` takes the
  pointer away (`traits.rs:320`), the second getter reads through null.
* A value that is still shared can be moved out by a getter that wins at a cell
  with two getters and counts down last (`traits.rs:264`).
* A cell that puts to itself counts itself as a new reference (`mod.rs:1082`), so
  its value is counted once too often; `definition.rs:334` intends to allow it.
* `eval_formula` negates `And` (`mod.rs:513`), so that a conjunction is answered
  with its negation.  `WellFormed` in `Formulas` therefore excludes `And`; the atoms of
  `Proto` and `Connector` are evaluated one by one, with the same negation in both,
  so `ImplementsConnector` says nothing about it.  One call of `eval_formula` in a unit
  test would.
* `BOOL_TYPE_INFO.partial_eq` compares pointers (`reflection.rs:117`).  It is used
  when the first term of a `ValueEq` is a formula: equal to the value of a location,
  which lies elsewhere, it never is.  The other way round values are compared.
* `MemInitialized` cells cannot be instantiated: `try_instantiate` and `finish`
  both fill them, and `mem_refs` is built from ids instead of counts
  (`definition.rs:191`, `definition.rs:213`).
* `AndIter` reads chunk 0 of its second operand for every chunk and yields
  positions one too high (`bitset.rs:50`).
* `or_with` on a shorter bitset appends all of the other's chunks, the first ones
  once more (`bitset.rs:233`); `is_superset` is false for a shorter bitset even if
  the rest of the other one is zero; "INVARIANT: NO TRAILING ZERO CHUNKS"
  (`bitset.rs:85`) is not kept when `set_to` clears a bit.  Nothing calls the first
  two.
* `shrink_to_fit` forgets the layouts that have free lists, after which freeing an
  address of such a layout panics (`memory.rs:93`); only `Drop` calls it.  A clone
  that panics leaves an address that is owned and holds no value, which `Drop`
  would drop.
* `fuse` compares what two rules lead to, then keeps the first one's assignments;
  where `normalize` had trimmed one that equals the guard which fusing removes, it
  is lost (`src/src/rbpa.rs:190`).  `compose` loses the first rule's assignment to
  a cell the second one only reads (`src/src/rbpa.rs:229`).  `exact` is false then.
* `normalize` goes on forever if silent rules lead back to where they began, in
  both versions.  The earlier one merges rules of different ports, as `try_merge`
  does not look at them (`faithful`).
* A port group never records its members (`groups.rs:49`), so `deliberate`
  selects over nothing and panics.
* What `define_all_funcs_in` returns is thrown away (`definition.rs:351`): a guard
  with a function is accepted and panics in `eval_formula` with the lock held.  A
  function that guards name twice fails the assert of `define_func`
  (`definition.rs:129`), and one below the arguments of another is never defined.
* `PromiseFulfilled` has no values and is made by `transmute`
  (`traits.rs:149`): `Formulas` lets the `Option` around one be seen as either.
* No guard is checked when it is accepted: terms of different types, of a type
  without an equality, or of a getter panic when the guard is first evaluated
  (`mod.rs:524`), and a cell that may be empty is read through whatever its
  pointer is.  `WellFormed` in `Formulas` names the guards that are safe.

In the earlier versions:

* `ports2.rs`: `put` returns `Ok` although nobody received its datum, when the
  getter has been dropped (`SendFails`), which is why `Handover!StoredSpec` is all it
  implements; a `put` that then finds the slot full waits forever;
  `Dropped` is sent to the selector of the half that is dropped.
* `graveyard2/reo.rs`: `Memory::put` on a full cell stores the new datum and returns
  the old one as the error; after `shutdown` a later update withdraws the readiness
  it had raised; a `try_put` that runs out of time leaves the getter's registration
  readable.
* `graveyard5/proto.rs`: the members of a dropped group are removed inside a
  `debug_assert!`, so not in release builds; a rule is committed before its
  constraint is looked at, and when that is false no other rule is tried
  (`NobodyStuck` speaks of protocols without constraints); a leader is told of a
  rule even if its group has no part in it (the definitions of the run have none
  such); a group that is made while a member is in a call forgets that member's
  readiness.  Every `get` calls `consume_moving`, whether it may move or not (`TODO
  handle if !move_allowed`, `proto.rs:445`), so with several getters in a rule a datum
  that is not Copy is owned by each of them (`AllCopied` excludes this, and
  without it `NoFault` is violated); a `get_signal` that may move reports that it did
  and the datum is forgotten by all.
* `graveyard5/primitives.rs`: a location that gets from two putters lets two
  threads tell it at once, and a message is overwritten (`OneSource` excludes this; a
  putter of several rules, as in `prot_test`, is safe); a stale scan
  can leave a getter's byte set; `with_len` is given the greatest location rather
  than their number, one chunk short when that is a multiple of eight; rules with
  memory getters never fire.

The passing runs use connectors outside these cases, and say in this way which
connectors the library does serve: one data getter for each port putter, cells
shared only while their data is Copy or passed between cells.

## 6. Proofs

Everything here is proved for any finite sets of ports and cells, any data and
any rules that `build_rules` accepts, and for any number of calls, timeouts and
firings.

### Every connector (`ProtoProofs`)

* **TypeCorrect**, `Spec => []TypeOK`.  `TypeOK` is inductive as stated: it says
  which addresses a space may point to and that a getter inside the handoff has
  been told a space, which is what the typing of `Deref` and of the arrays needs.
  One lemma for each group of actions, `TypeMakeEmpty`, `TypeFillCells`,
  `TypeShare` and `TypeStartHandoff` for the operators they share.
* **WakeupsAreNotLost**, `Spec => []NoMissedFiring`, if guards look at memory bits
  only and no rule is without actions (a rule without actions can always fire,
  and `exhaust_rules` would never return).  `NoMissedFiring` is inductive: while
  the lock is free nobody raises readiness or changes a memory bit
  (`FreeLockSteps`), readiness that goes away enables nothing
  (`CanFireShrinks`), and the lock is only given back when no rule can fire.
* **CountsAreExact**, `Spec => [](NoFault => RefCount)`, if no cell puts to itself.
  The inductive invariant `RefInv` adds that no action still to be performed is
  such a one.  The three lemmas `FillCounted`, `ShareCounted` and `EmptyCounted`
  say what each operation on addresses does to the set of cells at an address,
  with the cardinality facts of the library; that the coordinator's asserts have
  not failed gives that a getter cell is empty and an emptied one is not.

### The connectors the handoff serves (`ProtoSafety`)

Section 5 lists connectors for which the handoff is wrong, so its correctness
needs a hypothesis on the rules.  `Served` in `ProtoInv` is that hypothesis; each
part is there because the code fails without it:

| `Served` asks | or else |
|---|---|
| no cell puts to itself | its value is counted twice and `make_empty` never drops it |
| a port putter has one port getter in an action | both getters win and one waits for ever (`BroadcastStuck`); with Copy data the second reads a null pointer |
| a cell has one port getter in an action, unless data is Copy | `get` may return uninitialized memory |
| an action fills one cell, unless data is Copy; and a cell does not give its value to a cell and a port at once | a shared cell with one getter is never ready again (`SharedStuck`) |
| `ValueEq` reads putters of its own rule | the datum of another port may be gone, or its cell empty, when the guard is evaluated |

What is left is large: any number of actions in a rule, cells filled, copied,
moved and chained in any way, any number of getters at a cell of Copy data, port
data stored and handed out in one action.  The connectors of the runs
`Alternator`, `Chain` and `Guarded` are of this kind.

**HandoffIsSafe**, `Served => (Spec => []SafetyInv)`.  None of the properties of
section 4 is inductive alone: that a dropbox is empty when the coordinator sends
depends on where the getters of earlier firings are, and that depends on what
the putters were told.  `SafetyInv` says all of it at once: *a location is in
exactly one place*.  A port is ready, in an action that is still to be
performed, told something, being read from, or out of any call (`PortInv`), a
cell likewise (`CellInv`); a space the coordinator has
yet to arm is touched by nobody but the getters it is about to tell (`ArmInv`); the actions still to be performed have no location
in common (`TodoInv`); `cloner_countdown` is the number of getters that have yet
to count down and whoever comes last is alone (`CountInv`); `move_flags` lets the
only getter move (`MoveInv`); and the value of a location is where whoever reads
it next will look (`DatumInv`, `ContentInv`, `OutInv`).  `NoFault` and `RefCount` are
parts of it because the others rest on them and they on the others.  TLC checks
`SafetyInv` in the run `Chain`, which has the most demanding connector.  The proof
has a lemma for each action, and one for each operator the actions share, that
says what happens to the place of a location before what happens to its value.

From `SafetyInv` follow, each for the same connectors: **OnlyPutTimeoutFaults**
(the second drop of a datum by `put_timeout` is the only thing that goes wrong),
**NothingFaults** (`NoFault`, if the data is Copy or nobody calls `put_timeout`, as
`PutTwice` shows it must), **CountsStayExact** (`RefCount`, now without assuming that no assert
has failed), **CellsMatchBits** (`CellContents`), **ReadyPortsWait**
(`ReadyIsWaiting`), **AnswersAreOwed** (`OwedAnswer`), **CellsAreTakenCareOf**
(`Caretaker`), **ReadersAreSafe** (`NoDanglingReader`) and **GettersReturnData**
(`InitOnReturn`).

### Firings are atomic (`ConnectorProofs`)

**ProtocolIsConnector**, `Served => (Spec => ImplementsConnector)`: every run of
`Proto`, seen through the mapping of section 2, is a run of `Connector`.  The core
is that a *live* value stays what it is: one a rule may select, one of an action
still to be performed, one a getter has yet to take.  `Live` and `Reads` say which
these are, `LiveWhere` where they may be by `SafetyInv`, and `ValuesKept` that no
step changes them; so a value that is followed from the selection of a rule
through shared addresses and the handoff to its destination is the one that was
offered.  Then step by step: entering the lock is an `Offer` or a `Want`
(`EnterOffers`, `EnterWants`), a timeout that wins a `Withdraw` or `Unwant`
(`RevokeWithdraws`, `RevokeUnwants`), a new `get` a `Collect` of the last one's value
(`GetBeginCollects`), the selection of a rule a `Fire` (`SelectFires`, with
`SameGuards`: the guard of the code and that of `Connector` see the same values),
and everything else, performing actions and the whole of the handoff included,
a stutter (`PerformStutters`, `GetterStutters`, `FinalizeStutters`, `OthersStutter`).

**NoFiringIsMissed** has the conclusion of `WakeupsAreNotLost` with guards that
compare values: a rule that could not fire when the lock was given back does
not come to fire by itself, since the values its guard reads are live
(`GuardReads`, `CanFireKept`).  It needs `Served`, the other one does not.

### From the definition to the ports (`BuilderProofs`)

**RulesAreBuiltAsDefined**, `BSpec => []BuiltAsDefined`, for every definition:
`build_rules` sets and clears the bits of a rule as it reads actions and getters,
and what it has in the end is what `ProtoDef` derives from the sets of them.  The
inductive invariant `BuilderInv` says this of the actions read *so far*, the last
of them in part (`Pieces`, `Reflects`).  That no location takes part twice is what
makes the bits independent of the order: a putter and a getter that have been
read are not touched again (`PutterRead`, `GetterRead`), except when a cell puts to
itself.  **OnlyFaultyIsRefused** is `RefusedForCause`, from the same invariant.

**PortsHaveOneOwner**, `Spec => []OneOwner`, for any number of instances, clients
and groups.  `OwnerInv` adds to `OneOwner` that an object is in one place, with its
client, in its group or in the hands of an `add_*` call, and that this last one is
the group's own.  **GroupsFit** is `GroupedFit`.
**ClaimsImplementBuilder**, `Spec => BSpec`, carries the theorems about the builder
over to `Claims`, as the run `Structures` checks them.

### Bitsets and storage (`StructureProofs`)

Bitsets: proved, for layouts that satisfy `GoodLayout` and for any chunk
width, are **GuardsAreExact**, `Spec => []GuardExact`, and **ChunksImplementSets**,
`Spec => ImplementsSets`.  The inductive invariant is `FullLength`: all bitsets
have `N` chunks, `N` being one more than the chunk of the largest id, so that no
loop over chunks ends early.  `DivMod` and `DivUnique` tie an id to its chunk and
bit, `InElems` and `ChunkContents` a bitset to its set; `SetTo` and `FireStep` say
what each step does to both.  `BitsEdge` shows that the hypothesis is needed.

Storage: proved for any addresses, types and layouts is **StorageIsSound**,
`StorageSpec => []StorageSound`, from nothing but that each type has a layout.  What
makes it inductive is `WellFiled`, an address on a free list is on that of the
layout it was allocated with: it gives that an address is on one list at most, so
that taking it from there makes it free nowhere (`AllocFresh`, `AllocAccounts`).

### Earlier versions (`GroupProofs`, `EarlierProofs`)

`Earlier` has one specification for all of them, and the properties of its run are
theorems of it: **EarlierVersionsDoNotFault** (`NoFault`), **EarlierReadersAreSafe**
(`HeldWhileRead`), **EarlierReadinessIsCertain** (`CertainlyReady`) and
**EarlierPortsHandOver** (`HandsOver`).  What is proved for each version by itself is
put together in `PortsInv` and `ProtocolsInv`: a step is one of one version, by
which the invariants of the others lose nothing.

*Ports.*  For any number of puts and, in `LockedPort`, any set of threads:
**RendezvousPortIsSafe**, **CachedPortIsSafe**, **LockedPortIsSafe** and
**MemoryIsCertainlyReady**, and **RendezvousPortHandsOver**, **CachedPortHandsOver**,
**LockedPortHandsOver** and **MemoryHandsOver**, with the identity as mapping.  The
first two are `Spec => Handover!Spec`, the other two `Spec => Handover!StoredSpec`, since
`ports2.rs` answers `Ok` for a datum that lies in the slot of a getter that is gone
and the memory cell as soon as it has stored one; **EarlierPortsHandOver** says which
version keeps which.  Each port has one inductive invariant for safety and
refinement.  It says which places
of the two threads go together (`BarrierInv`: the putter is at its second barrier
just when the getter believes it frozen) and where the datum is then (`StackInv`,
`SlotInv`, `CachedInv`): that is what the getter's `taken = offered` at the putter's
return, and with it the acknowledgement of `Handover`, rests on.

*The protocol without a lock.*  For any finite set of locations and any rules in
which no location gets from two putters (`OneSource`; a putter may have several
rules, and share getters among them).  Nothing but the putter's byte keeps two
threads from firing its rules at once, and what a thread has seen of the other
bytes may be out of date.  `RacyInv` counts: `Round` says of each putter that the
answers it has got, together with the getters still to answer (`Owed`: told and not
back, or still to be told by the one thread that fires), are as many as it awaits
or will be told to await (`Due`).  So a getter that has been told finds
its putter in the call (`HeldWhileRead`), every dropbox holds one message at most
(`NoFault`), and the putter is back only after everybody.  A lemma for each
action says what it does to the round of its putter, `RoundKept` that it leaves those
of other putters alone.  That a getter's byte is not left over where there is one
rule needs more (`OneRule`): a thread that is about to drain either sees bytes that
are still set, or is one the rule has served meanwhile.  `NoFault` needs
`RoomForAll`, without which `with_len` leaves no byte for the greatest location: the
smallest counterexample is a getter at location 8.

*Port groups and commitment.*  **GroupsAreSafe**, for any finite sets of ports, any
rules and calls, and any group that can be used with them (`AllGroupable`).  The
core of `GroupedInv` is that a message is in one place (`Carries`, in the channel of
its port or among those decided on) and what it is told by where its port is:
`GetterMail` and `PutterMail` say what may be on its way to a port that is idle, that
waits with its bit raised, whose bit is gone, or that collects answers; `Pending` is
the set of getters whose pointer leads into the call of a putter, and the putter
awaits exactly as many answers as there are such getters and answers on their way
(`AwaitSent`, `AwaitCame`).  `MovedOnce` says that one of these moves the datum,
`GroupInv` and `LeaderMail` that the group has been told what is committed, since a
commitment stays until the group is no longer tentatively ready.  Neither says who
takes a datum out, as `get` does whatever it has been told: **GroupsDoNotFault** adds
`AllCopied`, that what goes to several getters is Copy, and with it that no getter
takes what it may neither move nor copy (`PermitInv`).

`AllGroupable` excludes what section 5 names, and each part of it is needed.  TLC
finds, for a group of two: two members in one rule violate `NoFault`; a rule
without a member, next to one with, violates `CertainlyReady` (the leader is told
of the former); a constraint on a rule of the group violates `HeldWhileRead` (the
group is told of a rule that is then given up, and the pointer of another one goes
to the member that is not in a call).  The run's definitions satisfy it, as
`MCEarlier` has TLC evaluate, and so do all protocols that make no group, whatever
their constraints.

### Rules and what they do together (`SilenceProofs`)

Both are theorems of `Silence`, for any definitions, automata and commands over any
cells, ports and variables.

**CombinationsAreExact**, `FairSpec => []CombinationsExact`, needs no more than the
types of rules (`RbpaType`): what `is_mutex_with`, `constrain_guard` and `compose`
promise they keep for any two rules (`MutexExact`, `ConstrainExact`,
`ComposeExact`), and whatever `normalize` makes of rules are rules (`ComposeType`,
`FuseType`).

**PortStepsAreKept**, `FairSpec => []PortStepsKept`, is about each version by itself.
The states silent steps lead to are those in every set that has the first one and
that no silent step leaves (`SilentlyFrom`), so that induction along them is a
choice of such a set (`FromInduction`).  The port steps of some steps are among
those of others if each of them follows from these (`Sound`); and silent steps
that do nothing more when repeated are not missed once the other steps have
absorbed them (`Removal`): whatever could happen after one of them is there as a
step of its own.

*`Rbpa`.*  `PortStepsKept` speaks of the moments at which no silent rule is being
removed, and `RbpaKept` of those between: the steps of the rules, of the composed
ones that wait in `buf` and of the rule that has been taken out are all sound and
complete together, and what has been composed so far is there.  So when `next` has
passed the last rule, the others have absorbed the one that is taken out
(`AppendKept`).  A rule that a composed one has been fused into keeps both its
steps and theirs, and it may have been composed already: that is right only since
composing a rule twice with what is idempotent adds nothing (`BeforeTwice`).

*`AbstractRules`.*  `SimulatesOriginal` is inductive with the types of rules and
stages: every variable is relevant until the last silent rule is gone, so that
rules are masked only when port steps are simply steps (`MaskedSteps`,
`PortStepsLoud`).  `ComposedExact` says that `composed` does what two rules do one
after the other, without the exception `compose` needs.

*`Exploration`.*  `ExploreInv` says that every state that has been looked at has
its branches, and their ends are found.  At the end nothing is left to look at,
so the values that are covered by what is found include where they start and
no step leaves them (`Simulates`): these are all the values that can be reached.
Without commands that forget values a state is one of them (`Precise`).

### Assumptions, and what is only model-checked

The assumptions are those named in the modules: locations of different kinds are
disjoint and finite, rules have the form `build_rules` accepts, `None` and `Nobody`
are no values, `Storage` has an address for each cell, ids are numbers and every
set of them has a greatest one, a definition gives its locations one of the four
kinds.  In `Earlier`, a rule of `RacyProt` names locations that are numbers and none
of its getters twice, and a port of `GroupedProto` is a putter or a getter.
There `GroupedProto` takes `iter_and` for an intersection, which the one in
`bitset.rs` is not (section 5): it is about the protocol, not about that iterator.  In
`Silence` definitions are of cells and ports, rules of `AbstractRules` assign what
they require, as `AbstractRule::new` makes them do, and commands say something of
every variable.  TLC evaluates each of them in the runs.

Only model-checked:

* liveness (`AnswerArrives`, `TimedCallReturns`, `FiresWhenItCan`, `Normalizes`,
  `NobodyStuck`), which the prover does not handle;
* `GuardsAnswer`, as `Formulas` evaluates guards with recursive operators;
* `OperationsExact`, whose iterators and loops over two bitsets need induction
  over chunks;
* `Proto` for connectors outside `Served`, where it is right only in part: the run
  `Shared` has such a one.

## 7. Not modelled

* Tentative ports, `commitment` and state waiters: the branches of
  `ready_set_coordinate` and `exhaust_rules` on them need a nonempty
  `ready_tentative` or `awaiting_states`.  Only `PortGroup::deliberate` and the
  drop of `LockedProto` set the former, from a set of members that is always
  empty; nothing fills the latter.
* Temporary cells (`build_temps`, `unbuild_temps`): `calc_guard` returns none.
* Initialized cells beyond the panic that ends their instantiation: `ProtoBuilder`
  lets `fill_memory` keep its promise both times if it does so once.
* Functions beyond their names: `runnify_formula`, which would give them a
  meaning, is never called and ends in `unimplemented!()`; `Formulas` has the panic
  of `eval_formula`.
* `PortGroup::deliberate`, which panics as it waits for no channel.
* Type reflection: function tables.  The models use what the functions do, and
  assume that `clone` and `eq` are defined and do not panic.
* The token API (types only), macros and `experimental_src` (not part of the crate).
* `capacity` and `Debug` of `BitSet`, which report on the allocation and print.
* In the modelled earlier versions: ids of rules and their sisters
  (`graveyard6/rbpa.rs`), which nothing calls; more than one group, and members
  used otherwise than determined (`graveyard5/proto.rs`); more than one 64-bit
  chunk and weaker orders than sequential consistency (`primitives.rs`); the
  `Memory` of `reo_simplest_working.rs`, which is that of `graveyard2/reo.rs` but
  for the names of results.
* Earlier versions with no module, as they stop before anything interleaves:
  `graveyard/reo.rs` (`put` waits to be told before it sends, `get` for data before
  it tells: the first exchange deadlocks), `graveyard5/simple.rs` (`enter` loops
  with the lock held until its call is served, which takes another one's lock),
  `graveyard/port.rs` (`occupied` is swapped before the datum is written, and
  registering turns off the events it is to deliver), `graveyard5/bitfield.rs`
  (a bitset whose iterator does not advance).
* Earlier versions with no module, as they are drafts of modelled ones:
  `graveyard4/rba_preprocess.rs` (of `graveyard6/rbpa.rs`), `graveyard2/threadless2.rs`
  and `graveyard2/protocols.rs` (guards run from an event loop, the condition of
  which is the wrong way round at `protocols.rs:184`), `graveyard3/*`,
  `graveyard4/more_safe.rs`, `locking.rs`, `preventative*` and the files of token
  types.

## 8. Plan

In this order:

1. A weaker `Served` for the cells shared in `Shared`, with reference counts and
   `CellContents` but without the handoff's part of `SafetyInv`.
2. An idle port in `Proto` (not ready, empty dropbox, in no firing) as what `Drop`
   of a port relies on, composed with `Claims`; the drop of the last handle, and
   with it what `Storage` still owns.
