# A TLA+ verification of dcl's middleware layer

`dcl` is a ROS-2-like client library over Fast DDS. Its core is `dmw`, a C++
middleware: Contexts, Nodes, WaitSets, services, actions, a discovery graph.
`dclpy` binds it to Python; `dclcpp` is still a design document.
This project models the parts whose correctness depends on how threads and
participants interleave (who wakes whom, who may delete what, who holds a claim,
what a failure half way leaves behind) and the algorithms on names, parameters,
time and the graph that those parts rely on.
Paths below are relative to `src/dmw/src/impl/` unless they begin with `dclpy`.

Contents: [Inventory](#inventory), [Plan](#plan), [Modules and code](#modules-and-code),
[Runs](#runs), [Bounds](#bounds), [Fairness](#fairness), [Proofs](#proofs),
[Observed disagreements](#observed-disagreements), [Not modelled](#not-modelled).

## Inventory

| Component | State it keeps | Operations | What is hard | What makes it correct |
|---|---|---|---|---|
| WaitSet (`wait_set_impl.*`) | registrations and their phases, native conditions, control condition, wake generation, pending mutations, the sleeping waiter | add, remove, set_interest, wait, detach on close, capacity reconciliation | mutators must interrupt a native wait that holds the native mutex; triggers, topology changes and shutdown race the scan | no lost wake-up, no deadlock between mutator and sleeper, native conditions follow the registrations |
| GuardCondition (`guard_condition_impl.*`) | trigger generation, consumed generation, the registration it belongs to | trigger, consume, close | a trigger between scan and sleep; wrap of the generation | no trigger slept on |
| ReaderWaitState (`reader_wait_state.hpp`) | closing flag, registration, capacity flag, deferred deletion | close, defer, set capacity | deletion of a DataReader races add and remove | no reader deleted while its condition is attached |
| Server (`server_impl.*`, `response.hpp`) | pending table with Pending/Responding, reservations, matched and disappeared targets | read_request, write_response, discard_request, target wait | capacity at the limit, failures between claim and resolution, targets that vanish | capacity bound, each claim resolved |
| Client (`client_impl.*`, `request.hpp`, `availability_wait_state.hpp`) | match counts per participant, degraded flag, wait revision, interruption generation | write_request, read_response, service_is_available, wait_for_service, interrupt_waits | availability is computed from two sources without the wait mutex | no notification between check and sleep is lost; interruption, shutdown and availability end the wait |
| Discovery graph (`discovery_graph.hpp`, `graph_impl.hpp`) | participant and endpoint records, local nodes and endpoints, remote metadata, revision, health, subscriptions | listener callbacks, local registration, metadata, subscribe, GraphEvent take | notification runs after the lock is released and races subscription teardown | every committed change wakes; a drained subscriber is never called; removal is final |
| Graph metadata (`graph_metadata.*`) | metadata writer and reader, publication mutex, sequence numbers | publish, ingest | two threads publish; ingestion is left to whoever queries; failed writes | participants converge on each other's nodes and never go back |
| Graph queries (`graph_candidates.*`, `graph.cpp`) | none: views of the graph | topics, services, actions, availability | endpoints and their nodes arrive in any order | each endpoint counted once, pairs belong together, what is available is listed |
| Names and arguments (`arguments.cpp`, `name.hpp`, `graph_names.hpp`, `node_impl.cpp`) | remapping rules of Context and Node | parse, resolve, remap, mangle, classify | scopes, several rules for a name, action parts that are remapped again | the peer sees the name and role that were meant |
| Context (`context_impl.cpp`, `context.hpp`) | operation count, shutdown flag, shutdown children | begin operation, shutdown | shutdown drains the operations it must itself wake | shutdown completes |
| Type and topic registries (`context_impl.cpp`, `topic.hpp`) | phase and reference count per type and topic | acquire, release | Fast DDS calls outside the mutex, under a phase mark; outcomes that are unknown | counts are those of the users; a held topic exists; nobody waits for ever |
| Action goals (`action_goal_registry.*`, `action_impl.*`) | goals, their states, cancel and result requests, expiry | accept, transition, cancel, result, expire | requests interleave with terminal transitions and expiry | accepts are transactions, parked requests are of open goals |
| Events (`event_impl.*`, `event_parent_state.*`) | status generations, cursors, listener state, callback gate | create, take, status callbacks, close, destruction | take races the counter; installation of the listener by several creators; teardown under callbacks | no change swallowed, each ready Event notified, nothing called after its end |
| Timer, Clock (`timer.cpp`, `clock.cpp`, `timer_impl.hpp`) | period, next call, ROS time override, wake callback | consume, cancel, reset, exchange period, set ROS time | a jump moves the deadline a wait sleeps on; int64 arithmetic | a due timer ends the wait, on the grid of its period |
| Parameter store (`parameter_store.*`, `node_impl.cpp`) | overrides, values, descriptors, pending changes | declare, undeclare, set atomically, get, list, take changes | ranges and literals at the ends of int64; changes nobody has taken yet | stored values respect their descriptors, the change set covers the difference |
| Node and entities (`node_impl.cpp`, `process_lifetime.hpp`, the `*_impl.cpp` destructors) | DDS entities, listeners, topics, graph bindings | create and destroy Publisher, Subscriber, Client, Server, action entities, Context | creation fails half way; a teardown that Fast DDS refuses while it still calls the listener | whole or gone; listeners outlive their callers |
| dclpy service call (`dclpy/dclpy/{client,executors,future}.py`, `dclpy/src/{native_io.cpp,service_io.hpp}`) | operation records, tickets, correlation tables, staged responses, Futures, leases and pins | call_async, cancel, close, spin, remove_node, shutdown; the dispatcher's worker | a response before the commit of its own send; a cancellation racing the worker; shutdown with work out | tables agree, no Future or ticket is orphaned, every end is reached |
| QoS, messages, return codes; lock ranks; the rest of dclpy; dclcpp; containers and tools | | | | see [Not modelled](#not-modelled) |

**Interactions.** Every blocking operation holds an `OperationGuard` of the
Context; `Context::shutdown` sets its flag, calls its children (WaitSets, clients,
servers) and then waits until no guard is held. A reader owned by a Subscriber,
Client or Server is shared with a WaitSet through its ReaderWaitState; composite
waitables (actions, clients with several readers) register several readers at
once. The Server tells its reader to leave or rejoin blocking waits when the
pending table fills or drains, which reconciles the native topology of the WaitSet. The
discovery graph notifies GraphEvents, the metadata transport and the clients'
AvailabilityWaitState. Endpoints share types and topics through the Context's
registries. Fast DDS calls the listeners from threads of its own. In dclpy one
native worker writes the requests of all clients, and the thread that spins the
executor commits them, takes responses and runs callbacks.

`PROJECT.json` lists the components with their status, and under `hazards` the
places in the code that are hard to test, each with the properties that watch it.

## Plan

Done: the topology and wake protocol of `WaitSet`, `Server` and the accept
transactions of `ActionGoals`, `ReaderRegistration`, `DiscoveryGraph`,
`Registries` with its abstract specification `TopicSharing`, `EndpointEvents`, `Parameters`,
`GraphMetadata` and `ServiceWait`, each with proofs; `GraphQueries`, `NodeNames`,
`TimerClock`, `EntityLife`, and of dclpy `PyRequests`.

Next, in this order:

1. `set_interest` and the destructor of the WaitSet.
2. Composition of `Server` and `WaitSet`: today the capacity changes of `WaitSet` are free
   inputs and `Server` stops at the flag.
3. An abstract specification of a goal as a value that only moves forward,
   implemented by `ActionGoals`.
4. dclpy: the service side and the action transactions, which share the
   dispatcher of `PyRequests`; then the asyncio bridge.
5. Jumps of the system clock, once the code registers for them.

Proofs, in this order: `CorrelationIsLive` and `TicketHasOperation` (PyRequests),
`EntitiesWhole` (EntityLife).

## Modules and code

Each thread has a `pc`; one action is one region of a mutex or one call of Fast
DDS, in program order, so every interleaving a scheduler can produce at that
grain is explored. Locks that are held across several steps are variables; a
lock held within one action needs none. Data is reduced to identities: messages, names and
QoS are not represented.

**WaitSet** is `wait_set_impl.*`, `guard_condition_impl.*` and the operations
and shutdown of `context_impl.cpp`. `phase`, `target`, `owner` and `listed` are
the registrations; `attached` and `control` the native conditions and the
control GuardCondition; `native`, `handoff` and `mutations` the protocol by
which a mutator gets the native mutex from a sleeper: register the mutation, bump
the wake generation, trigger the control condition, lock. `wait` is split at each of its
lock regions: shutdown check, topology and wake observed, snapshot, scan, recheck,
handoff, clear, native wait.
Registrations are numbered in the order they are made; the code reuses the number
of an `add` that failed before it was stored, which no other state mentions.
`InsertThrows` is the catch block of an `add` that cannot store its registration.
`overlooked` is a history variable: the readers whose capacity changed while no
topology callback was installed, until the next change that one sees or the next installation.
The operations a run offers are the set `Operations`.

**ReaderRegistration** looks closer at one aspect of the same code: how a
composite waitable claims its readers, attaches, commits, is released, and how
`ReaderWaitState::close` races with that and defers the deletion of the
DataReader. It leaves out waiting.

**Server** is `server_impl.*` and the target map of `response.hpp`: the pending
table, reservations between the capacity check and the read, the claim
(Responding), the bounded wait for the target, the `RestorePending` guard, and the capacity flag
applied to the reader after the mutex is released. `overtaken` and `leaked` are history variables: whether the
last change that took the reader out of blocking waits was decided before a slot was freed and applied after it,
and how many reservations a take that threw has left behind.

**DiscoveryGraph** is `discovery_graph.hpp` and `graph_impl.hpp`. Commit and
notification are separate steps of the same thread; a notification copies the
subscriber list, then enters, runs and leaves each subscriber. GraphEvents are
reference counted by `holders`: the facade and the callbacks that locked the
weak pointer. `noticed`, `silent` and `lost` are history variables that no action reads; `lost` counts, for each
node, the registrations of endpoints that threw after they had counted their reference.
The generation of a participant record, which only distinguishes two
incarnations of one GUID prefix, is left out.

**ServiceWait** is `wait_for_service` of `client_impl.cpp` (the action client has the
same loop) with `request.hpp` and `availability_wait_state.hpp`. The graph is what
`service()` reads of it, and `owed` counts commits whose notification is
still to come: that each commit gets one is `ChangeWakes` of DiscoveryGraph. A
metadata sample is readable before its listener wakes anyone. `MatchFirst` fixes which of the
two reports of one endpoint (DDS match, discovery) comes first: they come
from different listeners and the code relies on no order.

**ActionGoals** is the `ActionGoalRegistry` (`record`, `state`, `scheduled`,
`terminalTime`, `parked`, `expired`), the operations of `ActionServer::Impl` on
it, the phase of each result request in the result Server (`table`, in full in
module Server), and the wait that folds the earliest expiry into its deadline
(in full in module WaitSet). `accept_goal` is four steps: reserve, write, commit
or roll back. `result_coordination_mutex_`, which ties a region of the Server to one of the registry, is
`coordination`. The clock is a counter. An allocation may fail inside the pruning loop, which then
has erased some expired goals and not others, or when a request is parked. The
order in which snapshots and selections are sorted is left out.

**Registries** is `acquire_topic`, `release_topic` and their types in `context_impl.cpp`: a step is
one critical section or one Fast DDS call, and the phase marks (Creating,
Retiring, Orphaned) are what keeps threads apart while no mutex is held.
`retained` counts the type references kept for topics whose deletion failed.
**TopicSharing** is what an endpoint is promised: a topic it was given stays
usable until it gives it back, and only a topic nobody holds can be lost.
`Registries` instantiates it with `held` as the topic of each thread in the
Active part of its life and `lost` as the Orphaned entries; `ImplementsSharing` is the refinement.

**EndpointEvents** is `event_parent_state.*` and `event_impl.*` with
`create_event` and the endpoint destructors: counting and notification of a status are
separate steps, `take` copies the counters and clears the pending flag in
separate steps as the code does, and the destructor closes Events, detaches the
listener, drains the gate. A status is its cumulative count.

**TimerClock** is `clock.cpp`, `timer.cpp` and the part of the wait loop that
folds timer deadlines into the native wait. An update commits and wakes in two steps.
int64 is `IntMin..IntMax`, and the saturating operations are modelled as such.

**Parameters** is `parameter_store.cpp` and the Node operations in front of it.
Each operation of the store is one action (it holds the mutex), except
`get_many`, a loop of steps. Names are sequences of tokens, literals are
sequences of digits with a sign, read by the digit loop of the code.

**EntityLife** is the creation, rollback and destruction of a Context and of one
entity of a Node. A creation is a program of Fast DDS calls and C++ releases that a
failure replaces by the rollback of the code; Fast DDS threads call every listener that is still
attached. The constructor of any Impl may throw: what was moved into it is then destroyed before the catch block
runs (`DropMoved`), and `thrown` remembers the part. `Parts` says which endpoints an entity is composed of.

**GraphMetadata** is the metadata transport: view, write and their mutex on one
side, delivery by Fast DDS, then the ingestion by an application thread with its
budget. Participants join late and die; writes fail. `believed` counts versions
and is read by properties only.

**GraphQueries** is `assemble_snapshot` and the candidates of
`graph_candidates.cpp` as operators over a view that grows and
shrinks endpoint by endpoint. Its records keep the order of registration and of discovery, because the first
or the last of several that fit decides. **NodeNames** is the way of a name from the command
line to a peer: `parse_arguments`, resolution, remapping, DDS names and their classification.
A string is a sequence of lexemes.

**PyRequests** is one Python client and its executor. A call stands for its
operation id, its ticket and its request id. A step is one critical section of
`_lock`, of a Future's condition or of the dispatcher: the application submits (begin,
native submit, publish), cancels, adds callbacks, closes, removes the node, shuts
down; the worker pops, writes and completes; the owner drains the mailbox,
commits, takes responses, stages early ones, runs callbacks. `raised` records that
an exception has left `spin_once`; `pin` is a ready batch that is out. `kept` are the calls whose Future holds the
exception of a failed write or a refused ticket: its traceback keeps the operation's `native_work` and its WorkLease.

The modules share no state with each other apart from what their texts say, so the
MC modules of the runs hold several of them side by side: a variable `subject`
(`use`, `chores`) fixed in the initial state chooses which part moves, the others stay at their initial
states, and the fairness of a part is asked of the behaviours in which it is the
subject. A run explores the union of its parts' state spaces, not their product.

`notify_all()` is merged with the mutex region it follows: a waiter that takes
the mutex between the two sees the new revision and does not sleep.

Fast DDS itself is external: a native wait returns when an attached condition is
true, attach and detach may fail (bounded by `MaxFaults`), deletion of a reader
with an attached condition is what must not happen.

## Runs

Seven runs check, between them, forty properties; five runs show a disagreement.
A property that is a conjunction of named parts is listed with them.

| Run | Question | Result |
|---|---|---|
| TopologyNames | *WaitSet*: a waiter against two threads that trigger, add, remove, close and toggle a guard and a reader while native calls fail. *NodeNames*: every short command line, rules in Context and Node, every kind of entity. *GraphQueries*: seven endpoints, those of one part in every order of discovery | no trigger slept on (`NoTriggerSleptOn`), no waitable with two live registrations (`ExclusiveRegistration`), no dead registration with an attached condition (`NoStaleCondition`); `NamesAgree`: arguments accounted for, the last matching rule decides, the peer sees the resolved name, action parts stay together; `QueriesAgree`: counted once, paired, listed when known, available when complete and not hidden by an endpoint found before, listed when available |
| WaitSetReader | Two threads toggle a reader's capacity and remove it under an infinite wait, or shut down against finite and polling waits | each mutator that needs the native mutex has woken the sleeper (`MutatorWakesSleeper`) and finishes (`MutationFinishes`); at rest conditions agree with capacity (`ConditionMatchesCapacity`); unread data ends the wait (`UnreadEndsWait`); the shutdown completes (`ShutdownCompletes`) |
| ServerCalls | *Server*: two threads read, respond and discard at the limit; duplicated and lost requests, vanishing targets, failures. *PyRequests*: two calls cancelled, closed, answered early, twice or after a tombstone expired, and shut down | the table neither overflows nor shrinks, but for takes that threw (`CapacityKept`); a Responding request always has a thread that resolves it (`NoOrphanClaim`); `CallsCorrelated`: the correlation tables name live operations, every ticket is in one place, staged responses have a sender, Futures an operation, batches their attachment; a response taken is kept (`TakenIsKept`); a stopped executor is quiet and ran each callback once (`StoppedIsQuiet`) |
| ReadersParameters | *ReaderRegistration*: three threads add, remove and close the two readers of a composite and a reader of its own, native calls fail. *Parameters*: overrides, declarations, atomic sets, takes and listings | no DataReader deleted under an attached condition (`NoDanglingCondition`); no claim marker stays (`ClaimsBalanced`); `StoreConsistent`: values in range, literals exact, listings complete; `PendingCoversDelta`; read-only and fixed types (`DeclarationHonoured`) |
| GoalsGraph | *ActionGoals*: two threads accept, update, cancel, expire and answer result requests of two goals; responses and allocations fail, a wait sleeps on expiry. *DiscoveryGraph*: discovery, local changes, registrations that throw half way, metadata, one GraphEvent's life, listener teardown, failing allocations, full revision | accepts are transactions (`ReservationOwned`); parked requests are open, cancel selects what it names (`RequestsMatchGoals`); no expiry is slept through (`SleepCoversExpiry`); `ChangeWakes`; `GraphSound`: drained subscribers and listeners are not called, a node's record counts who refers to it, and what a registration that threw has left; outcomes, removals and unavailability are final (`FinalStaysFinal`) |
| Messaging | *Server* with two slots; *ServiceWait*, matches first; *GraphMetadata*: two participants, lost writes, a death; *Registries*: three threads, two topics, two types, two bindings, failing create, delete, register and unregister | `NothingMissed`: a reader with room in the table hears requests unless it was overtaken, no sleeping wait has missed anything, the sample offered to a late joiner is current; each response leaves Responding (`ClaimResolves`); availability, interruption and shutdown end a wait (`ServiceWaitEnds`); beliefs advance and converge (`MetadataConverges`); `RegistriesConsistent`; nobody waits for ever (`RegistryWaitEnds`); the registries implement TopicSharing (`ImplementsSharing`) |
| Lifetimes | *EndpointEvents*: two Events, a callback, the destructor. *TimerClock*: two updaters, ROS-time jumps, a wait. *EntityLife*: a client, a server and a publisher in one transaction, two failures, any Impl constructor that throws, callbacks. *PyRequests* under fairness | `EventsDelivered`: nothing swallowed or spurious, each ready Event notified, teardown drains callbacks and closes Events; `TimerPunctual`: not slept past, on the grid, reported; `EntitiesWhole`: listeners and topics outlive their users (those of an Impl whose constructor threw excepted), nothing half made or left behind; `LifetimesEnd`: installations, destructions, teardowns, shutdowns, closes and cancelled calls come to an end, unless a Future keeps the work of a failed write |
| WaitSetLostShutdown, RegistrationReadd, ServiceLateMatch, EventReady, GhostNodes | | violated, see [below](#observed-disagreements) |

`TypeOK` of WaitSet, Server and ActionGoals is checked in its own right, because it is
proved; the type invariants of the other modules are parts of the conjunctions.
Each property of a passing run has a mutant in `PROJECT.json`: a plausible error in the code
(a guard dropped, a wake forgotten, a check moved) under which TLC finds it violated.

`CHECK_DEADLOCK FALSE` everywhere: calls are bounded, and an infinite wait
with nothing to report may rest for ever. That nobody rests who should
not is what the liveness properties and the sleep invariants say.

## Bounds

- Threads: one waiter and two mutators (WaitSet), two threads (Server,
  DiscoveryGraph, ActionGoals, a participant of GraphMetadata), three
  (ReaderRegistration, Registries: one that holds, one that releases, one that waits),
  one waiter (ServiceWait: waiters
  share only counters they do not write, metadata ingestion aside). The protocols have a waiter
  side and a mutator side, and the second mutator is there because two mutators
  interfere (order of reconciliation, double detach, two claims).
- `MaxCalls` 1 to 3 per thread: one call per mutator is enough to hit each window of
  another thread; the parts about sequences (registrations, the table, the
  graph) have two or three.
- `MaxBoth` of the MC modules bounds the calls of the two threads together (GoalsGraph 4, ServerCalls and Messaging 3):
  one thread makes its full sequence while the other interferes once or twice.
- ReaderRegistration: `MaxTogether` 4 bounds the calls of its three threads.
- In TopologyNames a capacity change of one thread meets the other's registrations and removals (`CapacityChangeMeets`); WaitSetReader has its encounters with
  other capacity changes and with sleepers. NodeNames meets pairs of rules with the global arguments in use, for a topic and an action.
- `MaxRegistrations` 3 in WaitSet: an object can be registered, removed and registered
  again while the old registration is still being erased.
- `MaxTrigger` 1, `MaxRevision` 3, `GenMax` and `IdMax` 2, `IntMax` 4 (TimerClock) and 127 (Parameters)
  are below what the runs reach, so exhaustion and saturation happen.
- Fault bounds (`MaxFaults`, `MaxGraphFaults`, `MaxRegFaults`, `MaxIoFaults`, `MaxLostWrites`) are 1:
  one failing call at any point. Two failures in one operation add only the
  same error path again, except in EntityLife, where a failed rollback follows a
  failed creation: `MaxEntityFaults` 2.
- `MaxPending` 2 (ServerCalls, Messaging): the smallest table in which a change that fills it can be overtaken by one
  that frees a slot. In ServerCalls, with `arrivals + faults <= 3` and two calls per thread, a third
  sample is unread while the table is full, so an error at the limit would show.
- GraphQueries: the queries compare the places of records that fit the same part of the same name and of no others, so the
  parts are found one after the other and the endpoints of one part in every order (`PartByPart`). In DDS mode every order
  without that bound was run as well (55 thousand states), with the same result.
- ActionGoals: two goals with different stamps, one result request, `ResultTimeout` 1 and
  `MaxTime` 2, so a goal is terminal, unexpired and expired within a run and both
  goals can expire at different times; `MaxCalls` 3 lets one thread alone accept, finish and prune.
- `MaxEvents` 4 in ServiceWait: both endpoints, a metadata sample and one more
  event (removal, interruption, shutdown or failure). Larger instances were run too:
  5 events, and in DiscoveryGraph two GraphEvents with two local endpoints (13
  million states), with the same results.
- Registries: `MaxRounds` 1 endpoint per thread; an entry can be acquired by one thread while another
  retires it and a third waits, and one topic is asked for under two types, one type under two bindings.
- GraphMetadata: two commits per participant and no more than one lost write, so a newer sample overtakes
  an ingestion that runs; the participants only differ in who dies.
- PyRequests: two calls, one staged response (`MaxEarly` 1, so the staging is full), two copies of a
  response, one removal of the node, one fault. `Chores` of MCPyRequests lets at most three of cancel, close, shutdown,
  callbacks, moves, repeats and faults happen in one behaviour; the pairs in which two of
  them compete for the same operation are all there, the one of cancellation and repetition with a single call.
- Parameters: two well-formed names, one the ancestor of the other, and an ill-formed one;
  `MaxDelta` 2 changes nobody has taken.

Symmetry over threads and calls is used only in runs without liveness.

## Fairness

- WaitSet: weak fairness of each thread's step, strong fairness of the steps of a topology
  mutation, some of which take a contended lock: the mutexes are not fair queues, but a thread that is offered the
  lock again and again eventually gets it. A native wait ends only by its
  conditions or its deadline; no call is forced to be made.
- Server: weak fairness of each thread inside a call, the deadline of the target
  wait included (it is finite in the code).
- ServiceWait: weak fairness of the waiter, of the notification of a
  committed change, of the shutdown callbacks and of the second report of an
  endpoint. Nothing is assumed of new events, and finite deadlines need not fire.
- Registries: weak fairness of each thread inside acquire or release: Fast DDS calls return.
- GraphMetadata: threads that publish or ingest go on; Fast DDS discovers and delivers reliably, which
  the QoS of the metadata endpoints asks for; somebody keeps querying, because the code
  ingests nowhere else.
- EndpointEvents, EntityLife: callbacks return, and the creating or destroying thread goes on. No
  callback, take or creation is forced to begin.
- TimerClock: the steady clock advances, an update that was committed is followed by its wake, and
  the waiter goes on.
- PyRequests: threads inside calls and the worker go on, and the thread that spins the executor spins again
  until it is stopped or an exception has left `spin_once`. No service has to answer.
- ReaderRegistration (`AddReturns`): weak fairness of a thread inside a call.

## Proofs

Eight modules hold proofs, each for every value of its constants: any number of threads, waitables,
registrations, requests, readers, goals, topics, endpoints, Events, GraphEvents, parameters, waits and participants,
and any number of failing calls. They rest on `WaitSetAssumption`, `ReaderRegistrationAssumption`, `ServerAssumption`, `GoalsAssumption`, `RegistryAssumption`,
`GraphAssumption`, `EventAssumption`, `ParameterAssumption`, `ServiceAssumption` and `MetadataAssumption`: the sorts of the constants, that the distinguished values are
none of the others, that the sets that are counted are finite, and that an
endpoint names each of its readers once (`wait_states()`, `action_impl.cpp:231` and 444).

**WaitSet.**

- `TypeCorrect` (WaitSetProofs): `TypeOK` is inductive. Its only interesting part is that the trigger
  generation stays within its maximum.
- `HandoffCorrect`: `MutatorWakesSleeper`. The property speaks of a thread that
  reconciles while another sleeps in the native wait; it is not
  inductive, since nothing in it excludes two sleepers or a
  sleeper that clears the control condition under a registered mutation.
  `HandoffInv` adds that the sleeper owns the native mutex, that
  a thread on its way to it owns the handoff, that a handoff is
  only granted while no mutation is registered, and that every thread between
  its registration and its end is registered. Then a mutator that registers after the
  handoff finds the control condition cleared before, and its wake stays.
- `RegistrationIsExclusive` and `ConditionsAreLive` (WaitSetProofs): `ExclusiveRegistration` and
  `NoStaleCondition`. Neither is inductive alone: a detach is only safe because nobody
  else detaches the same registration, and an add only because nobody knows its registration
  yet. `OwnershipInv` says which locks each operation holds (`Locks`), that the registration of an
  unfinished add is private (`Fresh`) and its waitable free (`Claiming`), that one thread at
  a time detaches (`DetachAlone`), and that a capacity change that has passed its check keeps
  the owner in place (`BlockPinned`).
- `CapacityIsMatched`: `ConditionMatchesCapacity`. At rest is too late to
  look: `CapacityInv` relates flag and condition at every step, with the threads that
  are still on their way to reconcile as the excuse (`Changing`), and says what a thread about
  to attach or detach knows of the flag (`Informed`).
- `NoTriggerIsSleptOn`: `NoTriggerSleptOn`. The scan looks at one registration after the other, so what matters is the
  trigger that comes after its guard was scanned and before the native wait: `WakeInv` has
  `Noticed`, that such a trigger has moved the wake generation past the one observed or will, so
  that the recheck under the handoff refuses to sleep.

**ReaderRegistration.** Both theorems follow from `RegInv`.

- `NothingDangles`: `NoDanglingCondition`. A deleted reader is safe to be gone because it has no owner and its
  claim is settled (`GivenUp`), and the native WaitSet only holds conditions of readers that are owned or
  claimed (`NativeKept`). That the destructor leaves no owner behind (`CloserReleases`) needs to know who
  releases a registration: the thread that won the exchange of its phase (`OneHolder`), and also the `add()`
  that finds its registration detached before it has listed it. The latter, `AddAhead`, is the heart of the proof:
  the other one is then the destructor of the same endpoint, no reader of it has been given up yet, and it cannot finish while
  `add()` has `mutex_`. `Fresh` keeps everybody else away from a registration that has committed no
  reader, `Apart` the destructors of one endpoint from each other. The theorem assumes what the run
  configures, that the native detaches of a rollback succeed.
- `ClaimsStayBalanced`: `ClaimsBalanced`, the type invariant included. `Claimed` counts the
  markers from both sides: which an `add()` still holds, and that every marker has such an `add()`;
  `SingleReleased` says that a registration of one reader is erased after that reader is released.

**Server, ServiceWait and GraphMetadata** (MessagingProofs).

- `ServerTypeCorrect` and `ServerCapacity` (`CapacityKept`): `TypeOK` is not inductive, because
  giving a reservation back would take `reservations_` below zero unless there is one, and the
  capacity bound is lost when a reservation becomes an entry. `IInv` adds
  `ReservationInv`: a thread inside `read_request` holds `request_read_mutex_`
  (`LockHeld`), so there is one reservation more than takes that threw have left (`leaked`) while some thread is between
  reserving and settling, and exactly those otherwise (`OneReservation`), and the places a
  thread returns to from the shared release steps tell readers from responders
  (`UnreserveAfter`, `ClaimAfter`). Emplacing and erasing change the cardinality
  of the table by one (`PendingGrows`, `PendingShrinks`).
- `ClaimsHaveOwners`: `NoOrphanClaim` is inductive once the types are known. Only
  claiming makes a request Responding, and a thread leaves its claim through a step that ends the phase.
- `RoomIsHeard` and `NothingIsMissed`: `RoomEnables`, for a table of any size and any number of threads, and with it
  `NothingMissed`, without an assumption on the constants of the run. `RoomInv` adds `ReadersKnow`: a reader that holds a
  reservation and was not told that it filled the table knows that there is room. Whoever frees a slot of a full table enables the
  reader; only a disabling that was decided before and is applied after that undoes it (`overtaken`), until somebody enables again.
  The other parts hold for either `MatchFirst` and both runtime modes.
  `SleepMissesNothing` is inductive with the types: every change of the revision, the generation or the shutdown marks all
  sleepers as notified, except the request of a shutdown, whose callback is still to come. Its type
  invariant is not inductive, since the counts of endpoints are bounded by the events only because a second report
  follows a first one (`Counted`). `OfferedIsCurrent` is inductive as `WrittenIsCurrent`: once nobody is still to
  view the nodes of a participant, what is being written is current, which needs that one thread at a time
  views and writes (`OneWriter`, from `publish_mutex_`).

**ActionGoals.**

- `GoalsTypeCorrect` and `AcceptIsTransaction`: the two together are inductive.
  `ReservationOwned` relates every reservation to the one thread that accepts it in both
  directions; all that is needed of the other operations is that they touch committed
  goals only, which for the pruning operations is `EraseKeeps` and
  `PruneFailsKeeps` (also for a pruning that stops half way), and for the rest
  `ReservationKept`. `TypeOK` carries the fact that a goal has a state exactly while it is committed.
- `NoExpiryIsSleptOn`: `SleepCoversExpiry` speaks of a sleeping wait; `SleepInv` says the same of one that has folded the
  expiries into its deadline and not yet gone to sleep. Every step that schedules an expiry or queues
  an expired goal notifies, a pruning that fails half way included.
- `RequestsReachTheirGoals`: `RequestsMatchGoals`. A parked request may be out of Pending only while its thread
  holds `result_coordination_mutex_`, so `RequestInv` adds who holds it (`MutexHeld`), that an
  entry is claimed by one thread (`OneClaim`) and known while one works on it (`EntryKnown`). The
  theorem assumes what the run GoalsGraph configures, that the write of a result response does not
  fail: with such a failure the property is false (see below).
- `TerminalStatesAreFinal`: the action property `TerminalIsFinal`, a part of `FinalStaysFinal`.

**Registries.**

- `RegistriesAreConsistent`: `RegistriesConsistent`. The inductive invariant has one half for types and one for topics. In each
  half, one thread at a time makes the call that a phase mark protects (`TypeMarks`, `TopicMarks`), an Active entry counts
  its users (`TypeCounts`, `TopicCounts`) and exists in the participant (`TypeKept`, `TopicKept`).
  The halves meet in `Armed` and `TopicKept`: whoever uses a topic has a reference to its type, or has left one behind
  with an orphaned topic.
- `RegistriesImplementSharing`: every step is a step of TopicSharing or a stutter, from the same invariant: only the step that
  ends an acquisition and the one that begins a release change `held`, and a topic becomes Orphaned when its
  count is zero.

**DiscoveryGraph.** The inductive invariant is `GraphInv`.

- `GraphStaysSound`: `GraphSound`. That nobody is inside a drained subscriber needs to know what `in_flight` counts:
  the threads inside the callback, a destructor that the callback itself runs included (`Counted`); that the
  subscriber in a callback is the first of the queue copied by `notify` (`Queued`); that one thread creates or
  destroys a GraphEvent (`Staged`, `OneEach`) and nobody holds it when its destructor runs (`Owned`). The
  reference counts of the node records are cardinalities of the endpoints associated, plus what registrations
  that threw have counted and not taken back (`lost`).
- `NoChangeIsLost`: `ChangeWakes`, where `Admitting` is used: an open GraphEvent is in the list that a later `notify` copies.
- `RemovedStaysRemoved` and `UnavailableStays`: the action properties `RemovedIsTerminal` and `UnavailableIsFinal`,
  the other parts of `FinalStaysFinal`.

**EndpointEvents.**

- `EventsAreDelivered`: `EventsDelivered`. A notification round visits the Events registered under ids larger than the last one
  it notified, and drops the parent mutex in between. That it reaches every Event it must rests on ids that grow and
  are not used again (`Ids`). `Notified` says of every registered Event that has not been woken since a change, ready or not, that a
  round will still reach it: a take that ends the readiness must not end the promise. `Cursors` bounds
  the cursor by the generations counted, `Gated` makes the counter of the gate the number of callbacks inside, `Recorded` follows
  the Events from the registry to the list the destructor closes, and `Detached` keeps the listener off a deleted endpoint.

**Parameters.** `ParameterAssumption` says what names, values, descriptors, requests and literals are; the width of the
integer type is `IntMax`, any positive number.

- `ChangesAreCovered`: `PendingCoversDelta`. It is inductive together with `ParamTypeInv`, whose `WellStored` says that an entry
  passed the checks of its name and of its descriptor. The step that matters is the atomic set: a name occurs once in a
  request, so an appended list ends with the value that is stored (`LastFollows`), and a name that is set to the value it has
  appends nothing and leaves the earlier report the last one (`LastKept`).
- `StoreStaysConsistent`: `StoreConsistent`, from the same invariant. `AcceptedIsReached`: the offset that
  `integer_value_is_acceptable` computes modulo the width never wraps, because the value lies in the range.
  `LiteralIsRead`: the digit loop with its cap yields the number the digits spell, or refuses exactly when that number is
  above `IntMax + 1`, however many digits follow. `ListingsAccount`: what a listing truncates lies strictly below its ancestor.
- `DeclarationsAreHonoured`: the action property `DeclarationHonoured`.

The loops over digits and lists are recursive functions. What they compute for every input is proved by induction
over data done by hand: strict inclusion of finite sets is well founded in the library, so a set of naturals has a least
element (`LeastNat`), a function that a step rule describes exists (`RecursionExists`), and a formula that holds at 0 and is
preserved by each step holds everywhere (`Climb`).

Only model-checked, because the prover does not reach it: every liveness property (`UnreadEndsWait`,
`MutationFinishes`, `ShutdownCompletes`, `ClaimResolves`, `ServiceWaitEnds`, `MetadataConverges`,
`RegistryWaitEnds`, `LifetimesEnd`), and `NamesAgree` and `QueriesAgree`, which compare
whole lists that nested recursions compute with their reference definitions: each would need its own chain of such inductions.
Only model-checked so far: the properties of TimerClock, EntityLife and PyRequests, and the action property `BeliefAdvances` (GraphMetadata).

## Observed disagreements

Five runs show the code doing other than its documentation says:

- `WaitSetLostShutdown`: `wait()` reads `is_shutdown()` (`wait_set_impl.cpp:123`)
  before it observes the wake generation (136). A shutdown whose notification
  falls between is neither seen nor detected; an infinite wait sleeps on and
  `shutdown()` drains for ever.
- `RegistrationReadd`: `claim()` clears its markers (`wait_set_impl.hpp:200`)
  while it holds the callback mutex that clearing locks again (313).
- `ServiceLateMatch`: `RequestState::update` (`request.hpp:118`) never notifies
  the wait state, so a match reported after the graph's commit wakes nobody.
- `EventReady`: `Event::take` copies the counters (`event_impl.cpp:57`) and clears the
  pending flag (63) without the parent mutex in between; a status counted there leaves the Event
  behind its source and not ready until the next status. The creation of an Event has the
  same gap (`publisher_impl.cpp:158-159`).
- `GhostNodes`: metadata that was still unread when its participant was removed is
  ingested later, and the snapshot lists nodes of a participant it reports as gone (`graph.cpp:52`).

Met while modelling and not kept as runs; the formulas named are in the modules,
with the constants under which TLC refutes them:

- `ConsumedIsReported` (WaitSet, operations trigger, add, remove): a scan consumes
  triggers and is discarded when the topology changed (`wait_set_impl.cpp:153`).
- `FullServerDetached` (WaitSet, operations add and block, nothing registered at first): a capacity
  change between attach and the installation of the callback is applied by nobody (`wait_set_impl.hpp:469`);
  `message_type_test.cpp:788-789` has a full Server remove its condition. `ConditionMatchesCapacity`
  excepts such a reader (`overlooked`).
- `ClaimExclusive` (Server, one request, change unmatch, one fault): the
  `RestorePending` guard runs after the claim was released (`server_impl.cpp:281`)
  and can undo the claim of another thread.
- `RoomAlwaysEnables` with `MaxPending` 2 (Server, `server_impl.cpp:141`) and `FullDisables`
  (242): the flag is decided under the mutex and applied after it. `RoomEnables` excepts the reader whose
  disabling was decided before a slot was freed and applied after it (`overtaken`).
- An exception out of the native take or the record of its sample (`server_impl.cpp:149`, 152) leaves its reservation behind
  (`leaked`): the table is smaller from then on, and one whose takes threw `max_pending_requests` times
  reads no request again. `CapacityKept` says that nothing else takes a slot away.
- An endpoint whose registration throws after it has counted its node (`discovery_graph.hpp:365-367`, `lost` in DiscoveryGraph) keeps the node in the graph for ever. `GraphSound` counts exactly these.
- `AddReturns` with operation close (ReaderRegistration): the rollback of a claim detaches
  under the mutex `add` holds (`wait_set_impl.hpp:226`).
- `DeferredIsPending` (ReaderRegistration): the loser of a race between close and remove
  defers the deletion after the winner looked (`reader_wait_state.hpp:58`);
  a partly released composite keeps it too (`wait_set_impl.hpp:252`).
- `NoDanglingCondition` with `Failing = {"rollback"}` (`wait_set_impl.hpp:834`).
- The second part of `NoStaleClaim` for the readers of a composite (`wait_set_impl.hpp:245`): a close while the
  composite is being committed leaves a dead registration as their owner. The property states it of single readers only.
- A GraphEvent whose facade is destroyed while its callback runs is destroyed by
  the callback, whose destructor drains itself (`graph_impl.hpp:36`,
  `discovery_graph.hpp:511`): in DiscoveryGraph that thread stays in Drain.
- `ObservableIsCommitted` (ActionGoals): `accept_goal` writes the response
  (`action_impl.cpp:339`) before it commits (343); `dmw.md:2240-2246` has the
  committed goal as a consequence of the observable response.
- `ErasedHasNoParked` (ActionGoals): an expired goal is erased with its parked
  result requests (`action_goal_registry.cpp:83`). With `result_timeout` 0 a status
  snapshot between the transition and `take_pending_result_requests` is enough;
  `dmw.md:2331` has them handed over.
- `ParkedIsPending` with `Failing = {"result"}` (ActionGoals): the late `RestorePending` again
  (`server_impl.cpp:281`), here after the request was parked, claimed or discarded by others.
- Removal of an unknown participant or endpoint bumps the revision
  (`discovery_graph.hpp:131-178`), where `dmw.md:1630-1635` speaks of changes; a QoS change of
  a known endpoint is ignored (183-185). Modelled as the code does it.
- `ReadsCommittedState` (Parameters): `get_many` locks the store once per name (`parameter_store.cpp:388`), so a
  set in between is seen half; `dmw.md:2802` promises a committed state.
- `MovedPartsOutliveEndpoint` (EntityLife, any Impl that throws): topics, listeners and registrations were moved into an
  Impl whose constructor throws, and are gone before the catch block deletes the writer and the reader
  (`node_impl.cpp:344-349`, 385-392, 456-465, 538-549). `EntitiesWhole` states both rules for all other entities (`thrown`).
- `CompleteIsAlwaysAvailable` (GraphQueries): where a name has several endpoints in one node (DDS mode, or two servers of one
  action), the candidate takes the first that was discovered (`graph_candidates.cpp:220-233`); if that one cannot be used, the complete
  server found after it stays unavailable. `CompleteIsAvailable` excepts what is `Hidden` so.
- `StopsAfterFailedWrite` (PyRequests): after a failed write or a refused ticket the Future keeps the exception, its traceback the operation,
  and that its `native_work` with the WorkLease (`client.py:89-94`, `executors.py:235-238`). `_futures` is cleared at line 560, after `quiescent()` at 551
  which the lease keeps false: `shutdown()` never ends, nor does the close of the client, and `remove_node` raises BusyError from then on.
  `ShutdownEnds` and `CloseEnds` hold while no call is so `kept`.
- `TakeRaises` (PyRequests): the scan of `_unreconciled` (`dclpy/client.py:131`) reads it without
  the lock; during a submission `native_work` is still None, the AttributeError leaves `spin_once` and the
  response that was taken is lost. If the spinner ended so, `shutdown()` waits on the barrier for ever (`dclpy.md:2584-2588`).
  `TakenIsKept` and the liveness properties are therefore stated while nothing was raised.
- Discovery callbacks publish metadata from the Fast DDS thread (GraphMetadata), which `context_impl.cpp:189-191` means
  to avoid; the ingestion's `wait_until_idle` checks and then acts (`graph_metadata.cpp:442-444`); a
  failed write is not repeated before the next change.
- In DDS mode a topic whose name ends in `_Request` or `_Reply` is classified as a service (NodeNames;
  `PeerSeesResolvedName` excepts it). The parts of an action are remapped once more under their derived names
  (`node_impl.cpp:572-589`), where `node_impl.cpp:109` says that rules never chain; `ActionKeptTogether` excepts rules that name a part.

The passing runs use constants that leave some of these cases out: `Messaging` matches that
come first and no failing write of a participant at rest; `ReadersParameters` no failing rollback; `GoalsGraph` no failing
result response; `WaitSetReader` a reader that is registered from the start. Their results hold for those
configurations only. Where a property has an exception instead (`overtaken`, `leaked`, `lost`, `thrown`, `kept`, `raised`,
`Hidden`, `overlooked`), the case is in the run and the exception is as narrow as the code's own failure.

## Not modelled

- `set_interest` and the destructor of the WaitSet: planned above.
- Two cases of the catch block of `add` (`wait_set_impl.hpp:480-491`, `InsertThrows`): a native detach that fails there, and a capacity change that
  has copied the callback before and, since the release holds no `conditions_mutex`, attaches the condition once more. In both a condition stays
  attached whose registration is gone, so `NoStaleCondition` does not hold there.
- ActionClient, feedback and status publication: wrappers over clients, publishers and subscribers.
- Jumps of the system clock (the code registers for none) and `last_call_ns_`, which only feeds a report.
- `topic_registry_degraded_`, which nothing sets.
- The calls of Publisher, Subscriber and Client that read and write: thin wrappers over Fast DDS.
- QoS, messages, return codes, metadata encoding: stateless conversions and
  validation. Of QoS only the compatibility rule is used, in GraphQueries.
- Lock ranks: a debug check of the lock order the modules already follow.
- dclpy actions, services and asyncio: each a protocol of the size of PyRequests, planned above. Its bindings
  convert. dclcpp has no code; containers and tools build and generate.
