----------------------------- MODULE ActionGoals -----------------------------
(***************************************************************************)
(* The goals of an ActionServer: ActionGoalRegistry                         *)
(* (dmw/src/impl/action_goal_registry.cpp), the operations of               *)
(* ActionServer::Impl on it (action_impl.cpp), the part of the result       *)
(* Server's table they coordinate with, and the wait that reports expiry    *)
(* (wait_set_impl.cpp, wait_set.cpp).                                       *)
(*                                                                          *)
(* An action is one region of a mutex: that of the registry or that of the  *)
(* result Server.  result_coordination_mutex_ spans two of them and is a    *)
(* variable.  Queries that change nothing (state, readiness, counts) have   *)
(* no action.  The clock is an explicit counter.                            *)
(***************************************************************************)
EXTENDS Integers, FiniteSets

CONSTANTS
  Threads,        \* application threads that use the ActionServer
  Goals,          \* GoalIds other than the all-zero one
  Zero,           \* the all-zero GoalId
  Stamp,          \* accepted_stamp of every goal
  Requests,       \* RequestIds of GetResult requests
  ResultTimeout,  \* result_timeout_, never negative
  Operations,     \* the operations the threads may call
  Failing,        \* what may fail: "accept", "result" (response writes), "alloc"
  NoThread,
  MaxTime,        \* bound: ticks of the steady clock
  MaxCalls,       \* bound: calls per thread
  MaxFaults       \* bound: failures

ASSUME GoalsAssumption ==
  /\ Zero \notin Goals /\ Goals # {} /\ Requests # {}
  /\ Stamp \in [Goals -> Nat \ {0}]
  /\ NoThread \notin Threads
  /\ ResultTimeout \in Nat
  /\ MaxTime \in Nat /\ MaxCalls \in Nat /\ MaxFaults \in Nat

VARIABLES
  now,          \* steady_clock::now()
  record,       \* goals_: none, reserved, committed
  state,        \* GoalRecord::state
  scheduled,    \* goals with expiry_scheduled
  terminalTime, \* GoalRecord::terminal_time
  parked,       \* GoalRecord::pending_result_requests
  expired,      \* expired_notifications_: how often each id is in it
  table,        \* phase of a request in the result Server
  coordination, \* owner of result_coordination_mutex_
  shutdown,     \* Context::is_shutdown()
  pc, goal, mode, request,  \* per thread: where it is and its arguments
  woken,        \* WaitSetWake::generation differs from what wait() observed
  waiter, deadline,         \* the thread in WaitSet::wait
  calls, faults

registryVars == <<record, state, scheduled, terminalTime, parked, expired, woken>>
threadVars == <<pc, goal, mode, request>>
waitVars == <<waiter, deadline>>
boundVars == <<calls, faults>>
vars == <<now, registryVars, table, coordination, shutdown, threadVars, waitVars, boundVars>>

Active == {"Accepted", "Executing", "Canceling"}
Terminal == {"Succeeded", "Canceled", "Aborted"}
GoalEvents == {"Execute", "CancelGoal", "Succeed", "Abort", "Canceled"}
Modes == {"Defer", "Execute"}
Infinity == MaxTime + ResultTimeout + 1
AnyGoal == CHOOSE g \in Goals : TRUE
AnyRequest == CHOOSE r \in Requests : TRUE

RecordType ==
  /\ record \in [Goals -> {"none", "reserved", "committed"}]
  /\ state \in [Goals -> {"Unknown"} \cup Active \cup Terminal]
  /\ \A g \in Goals : record[g] = "committed" <=> state[g] # "Unknown"
ExpiryType ==
  /\ now \in 0..MaxTime
  /\ scheduled \subseteq Goals
  /\ terminalTime \in [Goals -> 0..MaxTime]
  /\ expired \in [Goals -> Nat]
RequestType ==
  /\ parked \in [Goals -> SUBSET Requests]
  /\ table \in [Requests -> {"unread", "Pending", "Responding", "gone"}]
  /\ coordination \in Threads \cup {NoThread}
CallType ==
  /\ pc \in [Threads -> {"idle", "write", "commit", "rollback", "register",
                         "unpark", "respond", "restore", "forget"}]
  /\ goal \in [Threads -> Goals] /\ request \in [Threads -> Requests]
  /\ mode \in [Threads -> Modes]
  /\ calls \in [Threads -> 0..MaxCalls] /\ faults \in 0..MaxFaults
FlagType == woken \in BOOLEAN /\ shutdown \in BOOLEAN
WaitType ==
  /\ waiter \in {"idle", "check", "observe", "ready", "fold", "enter", "asleep"}
  /\ deadline \in 0..Infinity

\* Every variable keeps the type of the member it stands for; a goal has a state
\* once it is committed and not before.
TypeOK == RecordType /\ ExpiryType /\ RequestType /\ CallType /\ WaitType /\ FlagType

Init ==
  /\ now = 0
  /\ record = [g \in Goals |-> "none"] /\ state = [g \in Goals |-> "Unknown"]
  /\ scheduled = {} /\ terminalTime = [g \in Goals |-> 0]
  /\ parked = [g \in Goals |-> {}] /\ expired = [g \in Goals |-> 0]
  /\ table = [r \in Requests |-> "unread"]
  /\ coordination = NoThread /\ shutdown = FALSE
  /\ pc = [t \in Threads |-> "idle"]
  /\ goal = [t \in Threads |-> AnyGoal] /\ request = [t \in Threads |-> AnyRequest]
  /\ mode = [t \in Threads |-> "Defer"]
  /\ woken = FALSE /\ waiter = "idle" /\ deadline = Infinity
  /\ calls = [t \in Threads |-> 0] /\ faults = 0

-----------------------------------------------------------------------------
Goto(t, label) == pc' = [pc EXCEPT ![t] = label]

\* The operation returns; its arguments are gone.
Return(t) ==
  /\ Goto(t, "idle")
  /\ goal' = [goal EXCEPT ![t] = AnyGoal] /\ mode' = [mode EXCEPT ![t] = "Defer"]
  /\ request' = [request EXCEPT ![t] = AnyRequest]

\* A public operation begins: try_acquire_operation fails after a shutdown.
Call(t, op) ==
  /\ op \in Operations /\ pc[t] = "idle" /\ ~shutdown
  /\ calls[t] < MaxCalls /\ calls' = [calls EXCEPT ![t] = @ + 1]

Fault(what) == what \in Failing /\ faults < MaxFaults /\ faults' = faults + 1

Committed == {g \in Goals : record[g] = "committed"}

\* notify_expiry_locked(): the wake of the WaitSet (module WaitSet: Bump, Wake).
NotifyExpiryMissing == UNCHANGED woken
NotifyExpiry == woken' = TRUE

\* expired_locked()
Expired(g) == g \in scheduled /\ now - terminalTime[g] >= ResultTimeout

Stale == {g \in Committed : Expired(g)}

\* prune_expired_locked() of the goals gs: what is left of the parked requests,
\* the ids queued for take_expired_goals(), the records erased.
Kept(gs) == [g \in Goals |-> IF g \in gs THEN {} ELSE parked[g]]
Queued(gs) == [g \in Goals |-> IF g \in gs THEN expired[g] + 1 ELSE expired[g]]
Erase(gs) ==
  /\ record' = [g \in Goals |-> IF g \in gs THEN "none" ELSE record[g]]
  /\ state' = [g \in Goals |-> IF g \in gs THEN "Unknown" ELSE state[g]]
  /\ scheduled' = scheduled \ gs
  /\ terminalTime' = [g \in Goals |-> IF g \in gs THEN 0 ELSE terminalTime[g]]
  /\ IF gs = {} THEN UNCHANGED woken ELSE NotifyExpiry

\* An allocation of the loop fails: what was pruned before it stays pruned, and
\* the exception leaves the operation.
PruneFails ==
  /\ Fault("alloc")
  /\ \E gs \in (SUBSET Stale) \ {Stale} :
       Erase(gs) /\ parked' = Kept(gs) /\ expired' = Queued(gs)

-----------------------------------------------------------------------------
(* accept_goal() *)

\* reserve(): false when the id is reserved or committed.
ReserveBlindly(g) == record[g] # "committed"
Reservable(g) == record[g] = "none"

Accept(t, g, m) ==
  /\ Call(t, "accept")
  /\ IF Reservable(g)
     THEN /\ record' = [record EXCEPT ![g] = "reserved"]
          /\ goal' = [goal EXCEPT ![t] = g] /\ mode' = [mode EXCEPT ![t] = m]
          /\ Goto(t, "write")
     ELSE UNCHANGED <<record, pc, goal, mode>>
  /\ UNCHANGED <<now, state, scheduled, terminalTime, parked, expired, woken, table, coordination, shutdown, request, waitVars, faults>>

\* write_response() of the goal Server, which a shutdown refuses.
AcceptWrite(t) ==
  /\ pc[t] = "write"
  /\ \/ ~shutdown /\ Goto(t, "commit") /\ UNCHANGED faults
     \/ shutdown /\ Goto(t, "rollback") /\ UNCHANGED faults
     \/ Fault("accept") /\ Goto(t, "rollback")
  /\ UNCHANGED <<now, registryVars, table, coordination, shutdown, goal, mode, request, waitVars, calls>>

\* The state a goal is committed with.
AcceptedStateMissing(m) == "Unknown"
AcceptedState(m) == IF m = "Execute" THEN "Executing" ELSE "Accepted"

\* commit(): refused, and rolled back, when the reservation is not there.
AcceptCommit(t) ==
  LET g == goal[t] IN
  /\ pc[t] = "commit"
  /\ IF record[g] = "reserved"
     THEN /\ record' = [record EXCEPT ![g] = "committed"]
          /\ state' = [state EXCEPT ![g] = AcceptedState(mode[t])]
          /\ scheduled' = scheduled \ {g}
          /\ parked' = [parked EXCEPT ![g] = {}]
          /\ Return(t)
     ELSE /\ Goto(t, "rollback")
          /\ UNCHANGED <<record, state, scheduled, parked, goal, mode, request>>
  /\ UNCHANGED <<now, terminalTime, expired, woken, table, coordination, shutdown, waitVars, boundVars>>

\* ~ReservationRollback: rollback_reservation()
AcceptRollback(t) ==
  LET g == goal[t] IN
  /\ pc[t] = "rollback"
  /\ record' = [record EXCEPT ![g] = IF @ = "reserved" THEN "none" ELSE @]
  /\ Return(t)
  /\ UNCHANGED <<now, state, scheduled, terminalTime, parked, expired, woken, table, coordination, shutdown, waitVars, boundVars>>

-----------------------------------------------------------------------------
(* update_goal_state(), status_snapshot(), take_expired_goals() *)

\* next_goal_state(): the successors of a state by event.
Successor ==
  [Accepted  |-> [Execute |-> "Executing", CancelGoal |-> "Canceling"],
   Executing |-> [CancelGoal |-> "Canceling", Succeed |-> "Succeeded", Abort |-> "Aborted"],
   Canceling |-> [Succeed |-> "Succeeded", Abort |-> "Aborted", Canceled |-> "Canceled"]]

Allowed(s, event) == s \in DOMAIN Successor /\ event \in DOMAIN Successor[s]

UpdateState(t, g, event) ==
  /\ Call(t, "update") /\ g \in Committed /\ Allowed(state[g], event)
  /\ state' = [state EXCEPT ![g] = Successor[@][event]]
  /\ IF state'[g] \in Terminal
     THEN /\ terminalTime' = [terminalTime EXCEPT ![g] = now]
          /\ scheduled' = scheduled \cup {g}
          /\ NotifyExpiry
     ELSE UNCHANGED <<terminalTime, scheduled, woken>>
  /\ UNCHANGED <<now, record, parked, expired, table, coordination, shutdown, threadVars, waitVars, faults>>

StatusSnapshot(t) ==
  /\ Call(t, "status")
  /\ \/ Erase(Stale) /\ parked' = Kept(Stale) /\ expired' = Queued(Stale) /\ UNCHANGED faults
     \/ PruneFails
  /\ UNCHANGED <<now, table, coordination, shutdown, threadVars, waitVars>>

\* The queued ids, those of this pruning included, are handed out.
TakeExpired(t) ==
  /\ Call(t, "expire")
  /\ \/ /\ Erase(Stale) /\ parked' = Kept(Stale)
        /\ expired' = [g \in Goals |-> 0] /\ UNCHANGED faults
     \/ PruneFails
  /\ UNCHANGED <<now, table, coordination, shutdown, threadVars, waitVars>>

\* select_cancel_goals(); it changes nothing.
Cancelable == {g \in Committed : state[g] \in {"Accepted", "Executing"}}
BeforeStamp(g, stamp) == stamp # 0 /\ Stamp[g] <= stamp
SelectCancelGoals(id, stamp) ==
  {g \in Cancelable : IF id = Zero THEN stamp = 0 \/ BeforeStamp(g, stamp)
                                   ELSE g = id \/ BeforeStamp(g, stamp)}

-----------------------------------------------------------------------------
(* GetResult requests.  Those of the result Server's own steps that other    *)
(* threads can see are repeated here: module Server has all of them.         *)

\* read_result_request(): the Server has a new entry.
ReadResultRequest(t, r) ==
  /\ Call(t, "request") /\ table[r] = "unread"
  /\ table' = [table EXCEPT ![r] = "Pending"]
  /\ UNCHANGED <<now, registryVars, coordination, shutdown, threadVars, waitVars, faults>>

Coordinate(t, label) ==
  /\ coordination = NoThread /\ coordination' = t
  /\ Goto(t, label)
Uncoordinate(t) == coordination = t /\ coordination' = NoThread

\* register_result_request(): check_pending_request(), then the registry.
RegisterCheck(t, g, r) ==
  /\ Call(t, "register") /\ table[r] = "Pending"
  /\ Coordinate(t, "register")
  /\ goal' = [goal EXCEPT ![t] = g] /\ request' = [request EXCEPT ![t] = r]
  /\ UNCHANGED <<now, registryVars, table, shutdown, mode, waitVars, faults>>

\* A request is parked with an active goal, and with one goal only.
Parkable(g, r) ==
  /\ g \in Committed /\ state[g] \notin Terminal
  /\ \A h \in Goals \ Stale : r \notin parked[h]

\* Pruning comes first; it never takes an active goal.  Parking allocates.
Register(t) ==
  LET g == goal[t]
      r == request[t]
  IN
  /\ pc[t] = "register" /\ Uncoordinate(t) /\ Return(t)
  /\ \/ /\ Erase(Stale) /\ expired' = Queued(Stale)
        /\ \/ /\ parked' = IF Parkable(g, r) THEN [Kept(Stale) EXCEPT ![g] = @ \cup {r}] ELSE Kept(Stale)
              /\ UNCHANGED faults
           \/ Parkable(g, r) /\ parked' = Kept(Stale) /\ Fault("alloc")
     \/ PruneFails
  /\ UNCHANGED <<now, table, shutdown, waitVars, calls>>

\* take_pending_result_requests()
TakePending(t, g) ==
  /\ Call(t, "take") /\ coordination = NoThread /\ g \in Committed
  /\ parked' = [parked EXCEPT ![g] = {}]
  /\ UNCHANGED <<now, record, state, scheduled, terminalTime, expired, woken, table, coordination, shutdown, threadVars, waitVars, faults>>

\* remove_result_request()
Unpark(r) == parked' = [g \in Goals |-> parked[g] \ {r}]

\* write_result_response(): claim_response(), then the registry.
RespondClaim(t, r) ==
  /\ Call(t, "respond") /\ table[r] = "Pending"
  /\ Coordinate(t, "unpark")
  /\ table' = [table EXCEPT ![r] = "Responding"]
  /\ request' = [request EXCEPT ![t] = r]
  /\ UNCHANGED <<now, registryVars, shutdown, goal, mode, waitVars, faults>>

RespondUnparkMissing(t) == UNCHANGED parked
RespondUnpark(t) == Unpark(request[t])

RespondRemove(t) ==
  /\ pc[t] = "unpark" /\ Uncoordinate(t) /\ Goto(t, "respond")
  /\ RespondUnpark(t)
  /\ UNCHANGED <<now, record, state, scheduled, terminalTime, expired, woken, table, shutdown, goal, mode, request, waitVars, boundVars>>

\* write_claimed_response(): written, or its target removed, the entry is gone;
\* refused by a shutdown it is left to the guard; a failure releases the claim.
Respond(t) ==
  /\ pc[t] = "respond" /\ Goto(t, "restore")
  /\ \/ ~shutdown /\ table' = [table EXCEPT ![request[t]] = "gone"] /\ UNCHANGED faults
     \/ shutdown /\ UNCHANGED <<table, faults>>
     \/ Fault("result") /\ table' = [table EXCEPT ![request[t]] = "Pending"]
  /\ UNCHANGED <<now, registryVars, coordination, shutdown, goal, mode, request, waitVars, calls>>

\* ~RestorePending: whatever entry there is becomes Pending.
Restore(t) ==
  /\ pc[t] = "restore" /\ Return(t)
  /\ table' = [table EXCEPT ![request[t]] = IF @ = "gone" THEN @ ELSE "Pending"]
  /\ UNCHANGED <<now, registryVars, coordination, shutdown, waitVars, boundVars>>

\* discard_result_request(): erased or absent, it is removed from the registry too.
DiscardErase(t, r) ==
  /\ Call(t, "discard") /\ table[r] # "Responding"
  /\ Coordinate(t, "forget")
  /\ table' = [table EXCEPT ![r] = IF @ = "Pending" THEN "gone" ELSE @]
  /\ request' = [request EXCEPT ![t] = r]
  /\ UNCHANGED <<now, registryVars, shutdown, goal, mode, waitVars, faults>>

DiscardForget(t) ==
  /\ pc[t] = "forget" /\ Uncoordinate(t) /\ Return(t)
  /\ Unpark(request[t])
  /\ UNCHANGED <<now, record, state, scheduled, terminalTime, expired, woken, table, shutdown, waitVars, boundVars>>

-----------------------------------------------------------------------------
(* WaitSet::wait with the ActionServer registered and an infinite timeout *)

WaitGoto(label) == waiter' = label
WaitUnchanged == UNCHANGED <<now, registryVars, table, coordination, shutdown, threadVars, boundVars>>

Wait == waiter = "idle" /\ ~shutdown /\ WaitGoto("check") /\ WaitUnchanged /\ UNCHANGED deadline

WaitCheck ==
  /\ waiter = "check" /\ WaitGoto(IF shutdown THEN "idle" ELSE "observe")
  /\ WaitUnchanged /\ UNCHANGED deadline

\* The generation is read: what notifies from here on is noticed.
WaitObserve ==
  /\ waiter = "observe" /\ WaitGoto("ready")
  /\ woken' = FALSE /\ deadline' = Infinity
  /\ UNCHANGED <<now, record, state, scheduled, terminalTime, parked, expired, table, coordination, shutdown, threadVars, boundVars>>

\* expiry_ready()
ExpiryReady == Stale # {} \/ \E g \in Goals : expired[g] > 0

WaitReady ==
  /\ waiter = "ready"
  /\ WaitGoto(IF ExpiryReady THEN "idle" ELSE "fold")
  /\ WaitUnchanged /\ UNCHANGED deadline

\* earliest_expiry() is folded into the deadline of the native wait.
Expiries == {terminalTime[g] + ResultTimeout : g \in Committed \cap scheduled}
WaitFold ==
  /\ waiter = "fold" /\ WaitGoto("enter")
  /\ deadline' \in {d \in Expiries \cup {Infinity} : \A e \in Expiries : d <= e}
  /\ WaitUnchanged

\* Nothing remains until the deadline, or a wake has come: round again.
WaitEnter ==
  /\ waiter = "enter"
  /\ WaitGoto(IF deadline <= now \/ woken THEN "check" ELSE "asleep")
  /\ WaitUnchanged /\ UNCHANGED deadline

WaitWake ==
  /\ waiter = "asleep" /\ (woken \/ deadline <= now)
  /\ WaitGoto("check")
  /\ WaitUnchanged /\ UNCHANGED deadline

-----------------------------------------------------------------------------
Tick ==
  /\ now < MaxTime /\ now' = now + 1
  /\ UNCHANGED <<registryVars, table, coordination, shutdown, threadVars, waitVars, boundVars>>

\* Context::shutdown(), as far as it refuses operations; that it wakes waits is
\* module WaitSet's.
Shutdown ==
  /\ "shutdown" \in Operations /\ ~shutdown /\ shutdown' = TRUE
  /\ woken' = TRUE
  /\ UNCHANGED <<now, record, state, scheduled, terminalTime, parked, expired, table, coordination, threadVars, waitVars, boundVars>>

Next ==
  \/ \E t \in Threads :
       \/ \E g \in Goals, m \in Modes : Accept(t, g, m)
       \/ AcceptWrite(t) \/ AcceptCommit(t) \/ AcceptRollback(t)
       \/ \E g \in Goals, e \in GoalEvents : UpdateState(t, g, e)
       \/ StatusSnapshot(t) \/ TakeExpired(t)
       \/ \E r \in Requests : ReadResultRequest(t, r) \/ RespondClaim(t, r) \/ DiscardErase(t, r)
       \/ \E g \in Goals, r \in Requests : RegisterCheck(t, g, r)
       \/ \E g \in Goals : TakePending(t, g)
       \/ Register(t) \/ RespondRemove(t) \/ Respond(t) \/ Restore(t) \/ DiscardForget(t)
  \/ Wait \/ WaitCheck \/ WaitObserve \/ WaitReady \/ WaitFold \/ WaitEnter \/ WaitWake
  \/ Tick \/ Shutdown

Spec == Init /\ [][Next]_vars

-----------------------------------------------------------------------------
(* Properties *)

\* "same GoalId concurrent accept exactly one transaction succeeds" and no
\* half-accepted goal stays: a reservation has exactly one thread that will
\* commit it or roll it back, and such a thread still finds its reservation, so
\* the commit that follows an accepted response never fails.
Accepting(t) == pc[t] \in {"write", "commit", "rollback"}
ReservationOwned ==
  /\ \A t \in Threads : Accepting(t) => record[goal[t]] = "reserved"
  /\ \A g \in Goals : record[g] = "reserved" => \E t \in Threads : Accepting(t) /\ goal[t] = g
  /\ \A t, u \in Threads : Accepting(t) /\ Accepting(u) /\ goal[t] = goal[u] => t = u

\* result_coordination_mutex_ ties the registry to the result Server: a parked
\* request is parked once, with a goal that exists, and whoever could answer it
\* has not claimed or discarded it, the holder of the mutex aside.
ParkedIsPending ==
  \A g \in Goals : \A r \in parked[g] :
    /\ g \in Committed
    /\ \A h \in Goals \ {g} : r \notin parked[h]
    /\ table[r] # "Pending" => \E t \in Threads : coordination = t /\ request[t] = r

\* "Action goal expiry" ends an infinite wait: one that sleeps unnotified will
\* wake at its deadline before any goal expires, and nothing is queued.
SleepCoversExpiry ==
  waiter = "asleep" /\ ~woken =>
    /\ \A g \in Goals : expired[g] = 0
    /\ \A e \in Expiries : deadline <= e

\* "Terminal states never transition again": a terminal goal keeps its state for
\* all of result_timeout, and no request is parked with it any more.
TerminalIsFinal ==
  [][\A g \in Goals : g \in Committed /\ state[g] \in Terminal =>
       \/ g \in Committed' /\ state'[g] = state[g] /\ parked'[g] \subseteq parked[g]
       \/ record'[g] = "none" /\ now - terminalTime[g] >= ResultTimeout]_vars

\* The four forms of a cancel request of dmw.md 8.12, and that each goal they
\* select can take the CancelGoal event.
Stamps == {0} \cup {Stamp[g] : g \in Goals}
SelectionMatches ==
  \A stamp \in Stamps :
    /\ SelectCancelGoals(Zero, stamp) =
         {g \in Committed : Allowed(state[g], "CancelGoal") /\ (stamp # 0 => Stamp[g] <= stamp)}
    /\ \A id \in Goals : SelectCancelGoals(id, stamp) =
         (IF stamp = 0 THEN {} ELSE SelectCancelGoals(Zero, stamp))
         \cup ({id} \cap SelectCancelGoals(Zero, 0))

\* Requests act on the goals they should: a parked result request is one of an
\* open goal, a cancel request selects exactly the goals it names.
RequestsMatchGoals == ParkedIsPending /\ SelectionMatches

-----------------------------------------------------------------------------
(* Statements of dmw.md that the code does not keep; no run assumes them. *)

\* 8.13: take_pending_result_requests() hands over what was parked before the
\* goal became terminal.  An expired goal is erased with its parked requests.
ErasedHasNoParked ==
  [][\A g \in Committed : record'[g] = "none" => parked[g] = {}]_vars

\* 8.11: an accepted response that is observable implies a committed goal.
ObservableIsCommitted ==
  \A t \in Threads : pc[t] = "commit" => goal[t] \in Committed
=============================================================================
