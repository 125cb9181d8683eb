---------------------------- MODULE MCLifetimes ----------------------------
(* One run for the lifetimes of objects that Fast DDS threads or a wait    *)
(* still use: events of an endpoint, timers and clocks, the entities of a  *)
(* Node, and the calls of a Python client.  They share nothing, so a       *)
(* behaviour moves one of them, its subject, and the others stay at their  *)
(* initial state.                                                          *)
EXTENDS EndpointEvents, TimerClock, EntityLife, MCPyRequests

\* An entity of three parts; one part alone cannot be rolled back halfway.
ThreeParts == <<"client", "server", "publisher">>

VARIABLE subject

LifetimesInit ==
    /\ EventInit /\ TimerInit /\ EntityInit /\ ChoresInit
    /\ \/ subject \in {"events", "timer", "entities"} /\ chores = {}
       \/ subject = "calls" /\ chores \in FairChores

LifetimesNext ==
    /\ UNCHANGED subject
    /\ \/ subject = "events" /\ EventNext /\ UNCHANGED <<timerClockVars, entityVars, pyVars, chores>>
       \/ subject = "timer" /\ TimerNext /\ UNCHANGED <<eventVars, entityVars, pyVars, chores>>
       \/ subject = "entities" /\ EntityNext /\ UNCHANGED <<eventVars, timerClockVars, pyVars, chores>>
       \/ subject = "calls" /\ ChoresNext /\ UNCHANGED <<eventVars, timerClockVars, entityVars>>

(* The fairness of every part, in the behaviours of which it is the        *)
(* subject.                                                                *)
LifetimesFairness ==
    /\ \A c \in Callbacks : WF_eventVars(subject = "events" /\ CallbackStep(c))
    /\ \A e \in Events : /\ WF_eventVars(subject = "events" /\ CreateStep(e))
                        /\ WF_eventVars(subject = "events" /\ FinishTake(e))
    /\ WF_eventVars(subject = "events" /\ DestroyStep)
    /\ WF_timerClockVars(subject = "timer" /\ Tick)
    /\ \A u \in Updaters : WF_timerClockVars(subject = "timer" /\ UpdaterContinues(u))
    /\ WF_timerClockVars(subject = "timer" /\ WaiterContinues)
    /\ WF_entityVars(subject = "entities" /\ OwnerStep)
    /\ \A e \in Objects : WF_entityVars(subject = "entities" /\ CallbackLeaves(e))
    /\ WF_pyVars(subject = "calls" /\ ExecutorStep)
    /\ WF_pyVars(subject = "calls" /\ ~raised /\ SpinBegin)
    /\ WF_pyVars(subject = "calls" /\ WorkerStep) /\ WF_pyVars(subject = "calls" /\ SubmitStep)
    /\ WF_pyVars(subject = "calls" /\ CancelStep) /\ WF_pyVars(subject = "calls" /\ CloseNative)

LifetimesSpec ==
    /\ LifetimesInit
    /\ [][LifetimesNext]_<<subject, eventVars, timerClockVars, entityVars, pyVars, chores>>
    /\ LifetimesFairness

-----------------------------------------------------------------------------
(* Everything that waits for the threads of others comes to its end: the   *)
(* listener installation and the destructor of an endpoint, the rollback   *)
(* and the teardown of an entity, the shutdown of the Python executor.     *)
LifetimesEnd == EndpointEnds /\ TeardownEnds /\ CallsEnd
=============================================================================
