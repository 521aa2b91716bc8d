------------------------------ MODULE Shutdown ------------------------------
(***************************************************************************)
(* Start and graceful stop of the supervisor (lib.rs, run): the main task  *)
(* spawns the watchdog, the health server, the router and the IPC server,  *)
(* waits for Ctrl-C or an IPC Stop, tells everybody through one shared     *)
(* tokio Notify, stops the children and joins the tasks.                   *)
(*                                                                         *)
(* Notify::notify_waiters (external) wakes the Notified futures that exist *)
(* at the moment of the call and stores nothing for later ones.  A select  *)
(* loop has such a future only while it stands in select!: not before its  *)
(* first turn, not while the body of another branch runs; and when two     *)
(* branches are ready select! picks either and drops the other future.     *)
(* Left out: the health server's wait for the HTTP connections it is       *)
(* serving when it is woken.                                               *)
(***************************************************************************)
EXTENDS Naturals, Sequences

CONSTANT MaxConns       \* bound on open IPC connections

ASSUME ShutdownAssumption == MaxConns \in Nat

Order == <<"watchdog", "health", "router", "ipc">>
Tasks == {Order[n] : n \in DOMAIN Order}
Loops == {"watchdog", "router", "ipc"}   \* the health server awaits the Notify once
Joined == {"watchdog", "health", "ipc"}  \* the router is aborted

VARIABLES
    main,       \* where run() stands
    spawned,    \* how many tasks it has spawned
    task,       \* unborn, ready, listening, woken, busy or done
    conns       \* open IPC connections, each a task of its own

stopVars == <<main, spawned, task, conns>>

StopInit ==
    /\ main = "spawning" /\ spawned = 0
    /\ task = [t \in Tasks |-> "unborn"]
    /\ conns = 0

-----------------------------------------------------------------------------
Woken(ts) == [t \in Tasks |-> IF ts[t] = "listening" THEN "woken" ELSE ts[t]]

MainSpawns ==
    /\ main = "spawning" /\ spawned < Len(Order)
    /\ spawned' = spawned + 1
    /\ task' = [task EXCEPT ![Order[spawned']] = "ready"]
    /\ UNCHANGED <<main, conns>>

\* select! over ctrl_c and shutdown.notified().
MainSelects ==
    /\ main = "spawning" /\ spawned = Len(Order)
    /\ main' = "selecting"
    /\ UNCHANGED <<spawned, task, conns>>

MainHearsCtrlC ==
    /\ main \in {"selecting", "woken"}
    /\ main' = "notifying"
    /\ UNCHANGED <<spawned, task, conns>>

MainHearsStop ==
    /\ main = "woken"
    /\ main' = "notifying"
    /\ UNCHANGED <<spawned, task, conns>>

MainNotifies ==
    /\ main = "notifying"
    /\ task' = Woken(task) /\ main' = "stopping"
    /\ UNCHANGED <<spawned, conns>>

\* shutdown_all: ChildManager!StopFlag, StopDrains, StopMarks.
MainStopsChildren ==
    /\ main = "stopping" /\ main' = "joining"
    /\ UNCHANGED <<spawned, task, conns>>

\* The joins, the abort of the router, and the return of run().
MainJoins ==
    /\ main = "joining" /\ \A t \in Joined : task[t] = "done"
    /\ main' = "exited" /\ conns' = 0
    /\ task' = [task EXCEPT !["router"] = "done"]
    /\ UNCHANGED <<spawned>>

-----------------------------------------------------------------------------
TaskStarts(t) ==
    /\ task[t] = "ready"
    /\ task' = [task EXCEPT ![t] = "listening"]
    /\ UNCHANGED <<main, spawned, conns>>

\* The port or the socket is taken: the server logs it and returns.
BindFails(t) ==
    /\ t \in {"health", "ipc"} /\ task[t] = "ready"
    /\ task' = [task EXCEPT ![t] = "done"]
    /\ UNCHANGED <<main, spawned, conns>>

\* Another branch of the select! wins: a tick of the watchdog, work or the
\* 500 ms timer of the router, a failed accept.
TaskWorks(t) ==
    /\ t \in Loops /\ task[t] \in {"listening", "woken"}
    /\ task' = [task EXCEPT ![t] = "busy"]
    /\ UNCHANGED <<main, spawned, conns>>

IpcAccepts ==
    /\ task["ipc"] \in {"listening", "woken"} /\ conns < MaxConns
    /\ task' = [task EXCEPT !["ipc"] = "busy"]
    /\ conns' = conns + 1
    /\ UNCHANGED <<main, spawned>>

TaskReturnsToSelect(t) ==
    /\ task[t] = "busy"
    /\ task' = [task EXCEPT ![t] = "listening"]
    /\ UNCHANGED <<main, spawned, conns>>

\* Mutant: the shutdown branch logs and stays in the loop.
TaskStops_NoBreak(t) ==
    /\ task[t] = "woken"
    /\ task' = [task EXCEPT ![t] = "listening"]
    /\ UNCHANGED <<main, spawned, conns>>


TaskStops(t) ==
    /\ task[t] = "woken"
    /\ task' = [task EXCEPT ![t] = "done"]
    /\ UNCHANGED <<main, spawned, conns>>

\* ControlCommand::Stop on an open connection.
StopCommand ==
    /\ conns > 0
    /\ task' = Woken(task)
    /\ main' = IF main = "selecting" THEN "woken" ELSE main
    /\ UNCHANGED <<spawned, conns>>

ConnCloses ==
    /\ conns > 0 /\ conns' = conns - 1
    /\ UNCHANGED <<main, spawned, task>>

-----------------------------------------------------------------------------
MainStep ==
    MainSpawns \/ MainSelects \/ MainHearsStop \/ MainNotifies \/ MainStopsChildren
    \/ MainJoins

StopNext ==
    \/ MainStep \/ MainHearsCtrlC \/ IpcAccepts \/ StopCommand \/ ConnCloses
    \/ \E t \in Tasks :
        \/ TaskStarts(t) \/ BindFails(t) \/ TaskWorks(t) \/ TaskReturnsToSelect(t)
        \/ TaskStops(t)

StopSpec == StopInit /\ [][StopNext]_stopVars

\* Ready tasks run; select! chooses at random among ready branches, so a task
\* that is woken again and again takes its shutdown branch at last.  A task stops
\* once, so asking it of all tasks together asks it of each.
TaskProceeds(t) == TaskStarts(t) \/ BindFails(t) \/ TaskReturnsToSelect(t)
SomeTaskStops == \E t \in Tasks : TaskStops(t)

StopFairness ==
    /\ WF_stopVars(MainStep) /\ SF_stopVars(SomeTaskStops)
    /\ \A t \in Tasks : WF_stopVars(TaskProceeds(t))

FairStopSpec == StopSpec /\ StopFairness

-----------------------------------------------------------------------------
\* Every variable has the shape its comment gives it.
StopTypeOK ==
    /\ main \in {"spawning", "selecting", "woken", "notifying", "stopping", "joining",
                 "exited"}
    /\ spawned \in 0..Len(Order)
    /\ task \in [Tasks -> {"unborn", "ready", "listening", "woken", "busy", "done"}]
    /\ conns \in 0..MaxConns

\* A client that repeats Stop for as long as it has a connection gets the
\* supervisor down: a notification lost by one loop, or by run() itself, is made
\* good by a later one.
RepeatedStopExits == []<><<StopCommand>>_stopVars => <>(main = "exited")

=============================================================================
