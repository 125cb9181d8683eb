----------------------------- MODULE TimerClock -----------------------------
(***************************************************************************)
(* One ROS clock, one Timer bound to it, and one WaitSet waiting for the   *)
(* Timer: ClockState (dmw/src/clock.cpp), TimerState (dmw/src/timer.cpp)   *)
(* and the part of the wait loop that folds timer deadlines into the       *)
(* native wait (dmw/src/impl/wait_set_impl.cpp).                           *)
(*                                                                         *)
(* A clock or timer update commits under a mutex and calls the wake        *)
(* callback after it has unlocked, so it takes two steps.  The system      *)
(* clock is taken to run with the steady clock: the code registers for no  *)
(* system clock jump.  last_call_ns_ only feeds the report of consume()    *)
(* and is left out.                                                        *)
(***************************************************************************)
EXTENDS Integers

CONSTANTS
    Updaters,       \* threads that update the clock or the timer
    IntMax,         \* stands for the largest int64_t
    SteadyEnd,      \* the steady clock runs 0..SteadyEnd
    RosTimes,       \* times a user sets
    Periods,        \* timer periods
    Durations,      \* finite waits (0 is Poll)
    MaxNativeWait   \* kMaxNativeWait

IntMin == -IntMax - 1
Never == SteadyEnd + IntMax + 1    \* time_point::max()

ASSUME TimerAssumption ==
    /\ IntMax \in Nat \ {0} /\ SteadyEnd \in 0..IntMax /\ MaxNativeWait \in 1..IntMax
    /\ RosTimes \subseteq IntMin..IntMax /\ Periods \subseteq 0..IntMax
    /\ Durations \subseteq 0..IntMax

VARIABLES
    steady,                      \* the steady clock
    rosOverride, rosTime,        \* ClockState
    life,                        \* "none", "built", "live" (wake target set)
    period, canceled, nextCall,  \* TimerState
    timerClosing, registered,    \* closing; the WaitSet's wake_callback is set
    updater,                     \* what each updater still has to do
    waiter,                      \* where the thread in wait() is
    limit,                       \* its own deadline
    deadline,                    \* native_deadline
    roused                       \* a wake since the generation was observed

clockVars == <<rosOverride, rosTime>>
timerVars == <<life, period, canceled, nextCall, timerClosing>>
timerWaitVars == <<waiter, limit, deadline>>
timerClockVars == <<steady, rosOverride, rosTime, life, period, canceled, nextCall,
                    timerClosing, registered, updater, waiter, limit, deadline, roused>>

TimerIdle == {u \in Updaters : updater[u] = "idle"}
CurrentNanoseconds == IF rosOverride THEN rosTime ELSE steady
LogicallyReady ==
    life = "live" /\ ~timerClosing /\ ~canceled /\ CurrentNanoseconds >= nextCall
(* steady_deadline() keeps state_mutex_ between its two reads of the clock. *)
StateMutexFree == waiter # "deadline"
-----------------------------------------------------------------------------
\* saturating_add, saturating_sub and saturating_mul on int64_t.
Saturate(n) == IF n > IntMax THEN IntMax ELSE IF n < IntMin THEN IntMin ELSE n

MissedCycles(expected, p, now) ==
    Saturate(1 + Saturate(now - Saturate(expected + p)) \div p)

NextPeriodGridPoint(expected, p, now) ==
    LET first == Saturate(expected + p)
        later == Saturate(first + Saturate(MissedCycles(expected, p, now) * p))
    IN  IF first > now THEN first ELSE IF later > now THEN later ELSE now

TimerInit ==
    /\ steady = 0 /\ rosOverride = FALSE /\ rosTime = 0
    /\ life = "none" /\ period = 0 /\ canceled = FALSE /\ nextCall = 0
    /\ timerClosing = FALSE /\ registered = FALSE
    /\ updater = [u \in Updaters |-> "idle"]
    /\ waiter = "out" /\ limit = 0 /\ deadline = 0 /\ roused = FALSE

Tick ==
    /\ steady < SteadyEnd
    /\ steady' = steady + 1
    /\ UNCHANGED <<clockVars, timerVars, registered, updater, timerWaitVars, roused>>
-----------------------------------------------------------------------------
(* ClockState.  The critical section of an update collects the wake target *)
(* of a timer that has registered one; it is called after the unlock.      *)
TargetsOf(u, notify) ==
    updater' = [updater EXCEPT ![u] = IF notify /\ life = "live" THEN "notify" ELSE "idle"]

EnableRosTimeOverride(u, enabled) ==
    /\ u \in TimerIdle
    /\ rosOverride # enabled
    /\ rosOverride' = enabled
    /\ TargetsOf(u, TRUE)
    /\ UNCHANGED <<steady, rosTime, timerVars, registered, timerWaitVars, roused>>

NotifiesRosTime == rosOverride

SetRosTime(u, t) ==
    /\ u \in TimerIdle
    /\ rosTime' = t
    /\ TargetsOf(u, NotifiesRosTime)
    /\ UNCHANGED <<steady, rosOverride, timerVars, registered, timerWaitVars, roused>>
-----------------------------------------------------------------------------
(* TimerState *)
CreateTimer(u, p, autostart) ==
    /\ u \in TimerIdle /\ life = "none"
    /\ life' = "built" /\ period' = p /\ canceled' = ~autostart
    /\ nextCall' = Saturate(CurrentNanoseconds + p)
    /\ updater' = [updater EXCEPT ![u] = "create"]
    /\ UNCHANGED <<steady, clockVars, timerClosing, registered, timerWaitVars, roused>>

InitializeClockWakeTarget(u) ==
    /\ updater[u] = "create"
    /\ life' = "live"
    /\ updater' = [updater EXCEPT ![u] = "idle"]
    /\ UNCHANGED <<steady, clockVars, period, canceled, nextCall, timerClosing, registered,
                   timerWaitVars, roused>>

(* The registration mutates the topology and wakes a running wait.         *)
AddTimer(u) ==
    /\ u \in TimerIdle /\ life = "live" /\ ~timerClosing /\ ~registered
    /\ registered' = TRUE /\ roused' = TRUE
    /\ UNCHANGED <<steady, clockVars, timerVars, updater, timerWaitVars>>

(* Every update of the timer checks closing before it locks state_mutex_. *)
Updatable(u) == u \in TimerIdle /\ life = "live" /\ ~timerClosing

Cancel(u) ==
    /\ Updatable(u) /\ StateMutexFree
    /\ ~canceled
    /\ canceled' = TRUE
    /\ updater' = [updater EXCEPT ![u] = "notify"]
    /\ UNCHANGED <<steady, clockVars, life, period, nextCall, timerClosing, registered,
                   timerWaitVars, roused>>

ResetTimer(u) ==
    /\ Updatable(u) /\ StateMutexFree
    /\ canceled' = FALSE
    /\ nextCall' = Saturate(CurrentNanoseconds + period)
    /\ updater' = [updater EXCEPT ![u] = "notify"]
    /\ UNCHANGED <<steady, clockVars, life, period, timerClosing, registered, timerWaitVars,
                   roused>>

(* The period is an atomic: state_mutex_ is not taken.                     *)
ExchangePeriod(u, p) ==
    /\ Updatable(u)
    /\ period' = p
    /\ updater' = [updater EXCEPT ![u] = "notify"]
    /\ UNCHANGED <<steady, clockVars, life, canceled, nextCall, timerClosing, registered,
                   timerWaitVars, roused>>

(* consume() reports a due call and moves the schedule on; no one is woken. *)
Consume(u) ==
    /\ Updatable(u) /\ StateMutexFree
    /\ ~canceled /\ CurrentNanoseconds >= nextCall
    /\ nextCall' = IF period > 0
                   THEN NextPeriodGridPoint(nextCall, period, CurrentNanoseconds)
                   ELSE CurrentNanoseconds
    /\ UNCHANGED <<steady, clockVars, life, period, canceled, timerClosing, registered, updater,
                   timerWaitVars, roused>>

NotifyWaitSet(u) ==
    /\ updater[u] = "notify"
    /\ roused' = (roused \/ registered)
    /\ updater' = [updater EXCEPT ![u] = "idle"]
    /\ UNCHANGED <<steady, clockVars, timerVars, registered, timerWaitVars>>

(* close(): the flag first, then the detach callback, then one more wake.  *)
Close(u) ==
    /\ u \in TimerIdle /\ life = "live" /\ ~timerClosing
    /\ timerClosing' = TRUE
    /\ updater' = [updater EXCEPT ![u] = "detach"]
    /\ UNCHANGED <<steady, clockVars, life, period, canceled, nextCall, registered,
                   timerWaitVars, roused>>

DetachWaitSet(u) ==
    /\ updater[u] = "detach"
    /\ registered' = FALSE /\ roused' = (roused \/ registered)
    /\ updater' = [updater EXCEPT ![u] = "notify"]
    /\ UNCHANGED <<steady, clockVars, timerVars, timerWaitVars>>
-----------------------------------------------------------------------------
(* WaitSet::Impl::wait *)
BeginWait(d) ==
    /\ waiter = "out"
    /\ waiter' = "observe"
    /\ limit' = IF d = Never THEN Never ELSE steady + d
    /\ UNCHANGED <<steady, clockVars, timerVars, registered, updater, deadline, roused>>

(* native_deadline belongs to one iteration of the loop.                   *)
Observe ==
    /\ waiter = "observe"
    /\ waiter' = "scan" /\ roused' = FALSE /\ deadline' = 0
    /\ UNCHANGED <<steady, clockVars, timerVars, registered, updater, limit>>

(* A closing registration is detached, which changes the topology and      *)
(* restarts the loop.                                                      *)
ScanDetaches ==
    /\ waiter = "scan" /\ registered /\ timerClosing
    /\ registered' = FALSE /\ waiter' = "observe"
    /\ UNCHANGED <<steady, clockVars, timerVars, updater, limit, deadline, roused>>

ScanReturns ==
    /\ waiter = "scan" /\ ~(registered /\ timerClosing)
    /\ (registered /\ LogicallyReady) \/ steady >= limit
    /\ waiter' = "out" /\ limit' = 0
    /\ UNCHANGED <<steady, clockVars, timerVars, registered, updater, deadline, roused>>

ScanFindsNothing ==
    /\ waiter = "scan" /\ ~(registered /\ timerClosing)
    /\ ~(registered /\ LogicallyReady) /\ steady < limit
    /\ deadline' = limit
    /\ waiter' = "fold"
    /\ UNCHANGED <<steady, clockVars, timerVars, registered, updater, limit, roused>>

(* TimerState::steady_deadline up to ros_override_active().                *)
HasSteadyDeadline == registered /\ ~timerClosing /\ ~canceled /\ ~rosOverride

Fold ==
    /\ waiter = "fold"
    /\ waiter' = IF HasSteadyDeadline THEN "deadline" ELSE "sleep"
    /\ UNCHANGED <<steady, clockVars, timerVars, registered, updater, limit, deadline, roused>>

(* ... and from the second read of the clock: the override may have been   *)
(* enabled in between.                                                     *)
SteadyDeadline ==
    IF CurrentNanoseconds >= nextCall THEN steady
    ELSE LET remaining == Saturate(nextCall - CurrentNanoseconds)
         IN  steady + (IF remaining < MaxNativeWait THEN remaining ELSE MaxNativeWait)

FoldDeadline ==
    /\ waiter = "deadline"
    /\ deadline' = IF SteadyDeadline < deadline THEN SteadyDeadline ELSE deadline
    /\ waiter' = "sleep"
    /\ UNCHANGED <<steady, clockVars, timerVars, registered, updater, limit, roused>>

(* wait_for_notification: not when the wake generation moved on.           *)
MaySleep == deadline > steady /\ ~roused

WaitForNotification ==
    /\ waiter = "sleep"
    /\ waiter' = IF MaySleep THEN "asleep" ELSE "observe"
    /\ UNCHANGED <<steady, clockVars, timerVars, registered, updater, limit, deadline, roused>>

WakeUpNotifiedOnly == roused
WakeUp == roused \/ deadline <= steady

WaitWakes ==
    /\ waiter = "asleep"
    /\ WakeUp
    /\ waiter' = "observe"
    /\ UNCHANGED <<steady, clockVars, timerVars, registered, updater, limit, deadline, roused>>
-----------------------------------------------------------------------------
UpdaterContinues(u) == InitializeClockWakeTarget(u) \/ NotifyWaitSet(u) \/ DetachWaitSet(u)

UpdaterCalls(u) ==
    \/ \E b \in BOOLEAN : EnableRosTimeOverride(u, b)
    \/ \E t \in RosTimes : SetRosTime(u, t)
    \/ \E p \in Periods, b \in BOOLEAN : CreateTimer(u, p, b)
    \/ AddTimer(u)
    \/ Cancel(u)
    \/ ResetTimer(u)
    \/ \E p \in Periods : ExchangePeriod(u, p)
    \/ Consume(u)
    \/ Close(u)

WaiterContinues ==
    \/ Observe \/ ScanDetaches \/ ScanReturns \/ ScanFindsNothing
    \/ Fold \/ FoldDeadline \/ WaitForNotification \/ WaitWakes

TimerNext ==
    \/ Tick
    \/ \E u \in Updaters : UpdaterCalls(u) \/ UpdaterContinues(u)
    \/ \E d \in Durations \cup {Never} : BeginWait(d)
    \/ WaiterContinues

(* Time passes, and a thread inside a call goes on; no one has to call.    *)
TimerFairness ==
    /\ WF_timerClockVars(Tick)
    /\ \A u \in Updaters : WF_timerClockVars(UpdaterContinues(u))
    /\ WF_timerClockVars(WaiterContinues)

TimerSpec == TimerInit /\ [][TimerNext]_timerClockVars /\ TimerFairness
-----------------------------------------------------------------------------
(* Scheduled times stay in int64_t, and only a finished timer is in a      *)
(* WaitSet.                                                                *)
TimerTypeOK ==
    /\ steady \in 0..SteadyEnd /\ rosOverride \in BOOLEAN /\ rosTime \in IntMin..IntMax
    /\ life \in {"none", "built", "live"} /\ period \in 0..IntMax
    /\ canceled \in BOOLEAN /\ nextCall \in IntMin..IntMax
    /\ timerClosing \in BOOLEAN /\ registered \in BOOLEAN
    /\ updater \in [Updaters -> {"idle", "create", "notify", "detach"}]
    /\ waiter \in {"out", "observe", "scan", "fold", "deadline", "sleep", "asleep"}
    /\ limit \in 0..Never /\ deadline \in 0..Never /\ roused \in BOOLEAN

(* A wait never sleeps past a timer that is due: the native deadline has   *)
(* passed, the wake is set, or the updater that made it due is about to    *)
(* set it.  This is the promise of the wake callbacks of clock.cpp and     *)
(* timer.cpp and of the deadline folded into wait().                       *)
TimerNotSleptOn ==
    waiter = "asleep" /\ registered /\ LogicallyReady
        => roused \/ deadline <= steady \/ \E u \in Updaters : updater[u] = "notify"

(* The reference for next_period_grid_point: of the calls that follow the  *)
(* one expected, one period apart, the first that is strictly later than   *)
(* now.                                                                    *)
GridPoints(expected, p) == {expected + k * p : k \in 1..(2 * IntMax + 2)}
FirstAfter(S, now) == CHOOSE t \in S : t > now /\ \A s \in S : s > now => t <= s

(* consume() skips the missed cycles exactly, and stays on the grid of the *)
(* period, however late the call is; it saturates only when that point or  *)
(* the delay itself does not fit in int64_t, and then never schedules a    *)
(* call in the past.                                                       *)
MissedCyclesSkipped ==
    [][ \A u \in Updaters : Consume(u) /\ period > 0 =>
          LET now == CurrentNanoseconds
              next == FirstAfter(GridPoints(nextCall, period), now)
          IN  /\ nextCall' >= now
              /\ next <= IntMax /\ now - nextCall <= IntMax => nextCall' = next
      ]_timerClockVars

(* A timer that is due while a thread waits for it is reported to it,      *)
(* unless another thread consumes, cancels, moves or destroys it first.    *)
DueTimerReported == []<>(waiter = "out" \/ ~registered \/ ~LogicallyReady)

(* A timer keeps to the grid of its period, is not slept past, and is      *)
(* reported when it is due, whatever the ROS clock does meanwhile.         *)
TimerPunctual ==
    /\ [](TimerTypeOK /\ TimerNotSleptOn)
    /\ MissedCyclesSkipped
    /\ DueTimerReported
=============================================================================
