---------------------------- MODULE ChildManager ----------------------------
(***************************************************************************)
(* The supervisor's child lifecycle: ChildManager (manager.rs) with its    *)
(* per-child monitor tasks, the single restart loop and its budget, the    *)
(* watchdog's heartbeat pass (watchdog.rs), the IPC commands that kill a   *)
(* child (ipc.rs), boot (spawn_all) and graceful shutdown                  *)
(* (shutdown_all).                                                         *)
(*                                                                         *)
(* One action is one critical section (a handle's mutex, the monitors map, *)
(* the shutdown flag) or one system call; everything between two of them   *)
(* is an await point at which the other tasks run.                         *)
(*                                                                         *)
(* Left out: durations (a backoff sleep ends at some time, an entry of the *)
(* restart window expires at some time, a child may fall silent at some    *)
(* time), the job queue (JobQueue.tla) and per-child telemetry.            *)
(***************************************************************************)
EXTENDS Integers, Sequences, FiniteSets

CONSTANTS
    Children,       \* child names
    Strategy,       \* RestartStrategy of each child
    Pids,           \* process ids the operating system hands out
    Killers,        \* calls of kill_child at one time, by watchdog and IPC tasks
    MaxRestarts,    \* max_restarts_per_window
    OsFaults        \* TRUE: spawn() and wait() may fail

NoPid == 0
NoChild == "none"

ASSUME ChildManagerAssumption ==
    /\ NoChild \notin Children /\ IsFiniteSet(Children)
    /\ IsFiniteSet(Pids) /\ Pids \subseteq Nat \ {0}
    /\ Strategy \in [Children -> {"permanent", "transient", "temporary"}]
    /\ MaxRestarts \in Nat
    /\ OsFaults \in BOOLEAN

VARIABLES
    status,     \* ChildHandle.status
    hpid,       \* ChildHandle.pid, NoPid for None
    recent,     \* restarts_in_window
    mon,        \* monitor task: where it stands, the process it owns, exit code
    registered, \* children whose current monitor is in ChildManager.monitors
    aborting,   \* children whose current monitor was drained and is being aborted
    requests,   \* the restart channel
    loop,       \* the restart loop: pc and the child it works on
    killer,     \* watchdog and IPC tasks inside kill_child: the pid they hold
    main,       \* crate::run: boot, serving, then the steps of shutdown_all
    unborn,     \* children spawn_all has still to spawn
    boot,       \* spawn_all between tokio::spawn and monitors.insert
    flag,       \* shutdown_flag
    proc,       \* process table: free, live, exited or killed
    owner,      \* history: the child a process was spawned for
    unspawned   \* history: children whose last respawn failed

handles == <<status, hpid, recent>>
os == <<proc, owner, unspawned>>
vars == <<handles, mon, registered, aborting, requests, loop, killer, main, unborn,
          boot, flag, os>>

Gone == [at |-> "none", pid |-> NoPid, code |-> 0]
BootIdle == [child |-> NoChild, stale |-> FALSE]
LoopIdle == [pc |-> "idle", child |-> NoChild]

Init ==
    /\ status = [c \in Children |-> "pending"] /\ hpid = [c \in Children |-> NoPid]
    /\ recent = [c \in Children |-> 0]
    /\ mon = [c \in Children |-> Gone] /\ registered = {} /\ aborting = {}
    /\ requests = <<>> /\ loop = LoopIdle
    /\ killer = [k \in Killers |-> NoPid]
    /\ main = "boot" /\ unborn = Children /\ boot = BootIdle /\ flag = FALSE
    /\ proc = [p \in Pids |-> "free"] /\ owner = [p \in Pids |-> NoChild]
    /\ unspawned = {}

-----------------------------------------------------------------------------
\* spawn_os_process, and the monitor task spawn_child starts for the process.
\* Whatever JoinHandle the monitors map or shutdown_all holds for the child now
\* belongs to a monitor that has returned.
Launch(c) ==
    \E p \in Pids :
        /\ proc[p] = "free"
        /\ proc' = [proc EXCEPT ![p] = "live"]
        /\ owner' = [owner EXCEPT ![p] = c]
        /\ mon' = [mon EXCEPT ![c] = [at |-> "starting", pid |-> p, code |-> 0]]
        /\ registered' = registered \ {c} /\ aborting' = aborting \ {c}
        /\ unspawned' = unspawned \ {c}

AfterBoot(rest) == IF rest = {} THEN "serving" ELSE "boot"

\* spawn_all, one child at a time.
BootSpawn(c) ==
    /\ main = "boot" /\ c \in unborn
    /\ Launch(c)
    /\ unborn' = unborn \ {c}
    /\ boot' = [child |-> c, stale |-> FALSE] /\ main' = "inserting"
    /\ UNCHANGED <<handles, requests, loop, killer, flag>>

\* monitors.insert; should the restart loop already have replaced the child,
\* the handle of the dead monitor overwrites that of its successor.
BootRegisters ==
    /\ main = "inserting"
    /\ registered' = IF boot.stale THEN registered \ {boot.child}
                     ELSE registered \cup {boot.child}
    /\ boot' = BootIdle /\ main' = AfterBoot(unborn)
    /\ UNCHANGED <<handles, mon, aborting, requests, loop, killer, unborn, flag, os>>

\* A missing binary is skipped.
BootSkip(c) ==
    /\ OsFaults /\ main = "boot" /\ c \in unborn
    /\ unborn' = unborn \ {c} /\ main' = AfterBoot(unborn')
    /\ UNCHANGED <<handles, mon, registered, aborting, requests, loop, killer, boot, flag, os>>

\* Any other spawn error makes run() return: the runtime drops every task, and
\* kill_on_drop the processes.
BootFails ==
    /\ OsFaults /\ main = "boot" /\ unborn # {}
    /\ main' = "failed" /\ unborn' = {}
    /\ mon' = [c \in Children |-> Gone] /\ requests' = <<>> /\ loop' = LoopIdle
    /\ proc' = [p \in Pids |-> IF owner[p] # NoChild THEN "free" ELSE proc[p]]
    /\ owner' = [p \in Pids |-> NoChild]
    /\ UNCHANGED <<handles, registered, aborting, killer, boot, flag, unspawned>>

-----------------------------------------------------------------------------
\* First lines of the monitor task: bookkeeping under the handle lock.
MonitorStarts(c) ==
    /\ mon[c].at = "starting"
    /\ mon' = [mon EXCEPT ![c].at = "waiting"]
    /\ hpid' = [hpid EXCEPT ![c] = mon[c].pid]
    /\ status' = [status EXCEPT ![c] = "running"]
    /\ UNCHANGED <<recent, registered, aborting, requests, loop, killer, main, unborn, boot,
                   flag, os>>

\* child.wait() returns: the process is reaped and its pid may be reused.
MonitorReaps(c) ==
    /\ mon[c].at = "waiting" /\ proc[mon[c].pid] \in {"exited", "killed"}
    /\ proc' = [proc EXCEPT ![mon[c].pid] = "free"]
    /\ owner' = [owner EXCEPT ![mon[c].pid] = NoChild]
    /\ \E code \in IF proc[mon[c].pid] = "killed" THEN {1} ELSE {0, 1} :
        mon' = [mon EXCEPT ![c].at = "reaped", ![c].code = code]
    /\ UNCHANGED <<handles, registered, aborting, requests, loop, killer, main, unborn, boot,
                   flag, unspawned>>

\* wait() failed: the monitor returns and drops the Child, whose kill_on_drop
\* ends the process; the handle keeps its pid and its status.
MonitorWaitFails(c) ==
    /\ OsFaults /\ mon[c].at = "waiting"
    /\ proc' = [proc EXCEPT ![mon[c].pid] = "free"]
    /\ owner' = [owner EXCEPT ![mon[c].pid] = NoChild]
    /\ mon' = [mon EXCEPT ![c] = Gone]
    /\ UNCHANGED <<handles, registered, aborting, requests, loop, killer, main, unborn, boot,
                   flag, unspawned>>

\* pid and stdin are cleared; the status still says running.
MonitorClears(c) ==
    /\ mon[c].at = "reaped"
    /\ mon' = [mon EXCEPT ![c].at = "cleared"]
    /\ hpid' = [hpid EXCEPT ![c] = NoPid]
    /\ UNCHANGED <<status, recent, registered, aborting, requests, loop, killer,
                   main, unborn, boot, flag, os>>

\* requeue_worker (JobQueue!RequeueWorker), then the shutdown flag is read.
MonitorChecksShutdown(c) ==
    /\ mon[c].at = "cleared"
    /\ IF flag
       THEN mon' = [mon EXCEPT ![c] = Gone] /\ status' = [status EXCEPT ![c] = "stopped"]
       ELSE mon' = [mon EXCEPT ![c].at = "deciding"] /\ UNCHANGED status
    /\ UNCHANGED <<hpid, recent, registered, aborting, requests, loop, killer,
                   main, unborn, boot, flag, os>>

ShouldRestart(c, code) ==
    \/ Strategy[c] = "permanent"
    \/ Strategy[c] = "transient" /\ code # 0

\* Mutant: a restart is requested here as well as on the way out.
MonitorDecides_Twice(c) ==
    /\ mon[c].at = "deciding"
    /\ mon' = [mon EXCEPT ![c].at = "sending"]
    /\ status' = [status EXCEPT ![c] = "restarting"]
    /\ requests' = Append(requests, c)
    /\ UNCHANGED <<hpid, recent, registered, aborting, loop, killer,
                   main, unborn, boot, flag, os>>

MonitorDecides(c) ==
    /\ mon[c].at = "deciding"
    /\ IF ShouldRestart(c, mon[c].code)
       THEN mon' = [mon EXCEPT ![c].at = "sending"]
            /\ status' = [status EXCEPT ![c] = "restarting"]
       ELSE mon' = [mon EXCEPT ![c] = Gone]
            /\ status' = [status EXCEPT ![c] = "stopped"]
    /\ UNCHANGED <<hpid, recent, registered, aborting, requests, loop, killer,
                   main, unborn, boot, flag, os>>

\* Mutant: the request is lost.
MonitorSends_Lost(c) ==
    /\ mon[c].at = "sending"
    /\ mon' = [mon EXCEPT ![c] = Gone]
    /\ UNCHANGED <<handles, requests, registered, aborting, loop, killer, main, unborn, boot,
                   flag, os>>

\* restart_tx.send: the channel is unbounded and its receiver lives as long as
\* the restart loop.
MonitorSends(c) ==
    /\ mon[c].at = "sending"
    /\ mon' = [mon EXCEPT ![c] = Gone]
    /\ requests' = Append(requests, c)
    /\ UNCHANGED <<handles, registered, aborting, loop, killer, main, unborn, boot, flag, os>>

-----------------------------------------------------------------------------
\* run_restart_loop: requests that arrive during shutdown are dropped.
LoopTakes ==
    /\ loop.pc = "idle" /\ requests # <<>>
    /\ requests' = Tail(requests)
    /\ loop' = IF flag THEN LoopIdle ELSE [pc |-> "budget", child |-> Head(requests)]
    /\ UNCHANGED <<handles, mon, registered, aborting, killer, main, unborn, boot, flag, os>>

\* Mutant: a restart over budget is logged but performed.
LoopBudget_Unlimited ==
    /\ loop.pc = "budget"
    /\ recent' = [recent EXCEPT ![loop.child] = IF @ > MaxRestarts THEN @ ELSE @ + 1]
    /\ loop' = [loop EXCEPT !.pc = "sleeping"]
    /\ UNCHANGED <<status, hpid, mon, registered, aborting, requests, killer,
                   main, unborn, boot, flag, os>>


\* respawn_one: record_restart, then the budget, under the handle lock.
LoopBudget ==
    /\ loop.pc = "budget"
    /\ recent' = [recent EXCEPT ![loop.child] = @ + 1]
    /\ IF recent'[loop.child] > MaxRestarts
       THEN status' = [status EXCEPT ![loop.child] = "degraded"] /\ loop' = LoopIdle
       ELSE loop' = [loop EXCEPT !.pc = "sleeping"] /\ UNCHANGED status
    /\ UNCHANGED <<hpid, mon, registered, aborting, requests, killer, main,
                   unborn, boot, flag, os>>

\* The backoff is over; the flag is read once more.
LoopWakes ==
    /\ loop.pc = "sleeping"
    /\ loop' = IF flag THEN LoopIdle ELSE [loop EXCEPT !.pc = "spawning"]
    /\ UNCHANGED <<handles, mon, registered, aborting, requests, killer, main, unborn, boot,
                   flag, os>>

LoopSpawns ==
    /\ loop.pc = "spawning"
    /\ Launch(loop.child)
    /\ loop' = [loop EXCEPT !.pc = "registering"]
    /\ boot' = [boot EXCEPT !.stale = @ \/ boot.child = loop.child]
    /\ UNCHANGED <<handles, requests, killer, main, unborn, flag>>

\* spawn failed: the error is logged by the loop, nothing else happens.
LoopSpawnFails ==
    /\ OsFaults /\ loop.pc = "spawning"
    /\ loop' = LoopIdle
    /\ unspawned' = unspawned \cup {loop.child}
    /\ UNCHANGED <<handles, mon, registered, aborting, requests, killer, main, unborn, boot,
                   flag, proc, owner>>

\* monitors.insert, after the monitor task has been started.
LoopRegisters ==
    /\ loop.pc = "registering"
    /\ registered' = registered \cup {loop.child}
    /\ loop' = LoopIdle
    /\ UNCHANGED <<handles, mon, aborting, requests, killer, main, unborn, boot, flag, os>>

-----------------------------------------------------------------------------
\* Watchdog and IPC server start after spawn_all; what they are doing goes on
\* during shutdown_all.
Up == main \in {"serving", "draining", "marking", "stopped"}

\* kill_child: the pid is read under the handle lock and used after it.
KillReadsPid(k, c) ==
    /\ Up /\ killer[k] = NoPid /\ hpid[c] # NoPid
    /\ killer' = [killer EXCEPT ![k] = hpid[c]]
    /\ UNCHANGED <<handles, mon, registered, aborting, requests, loop, main, unborn, boot,
                   flag, os>>

\* heartbeat_pass: a child that is running and whose last heartbeat is too old.
\* IPC Restart and RestartAll do not look, so what changes between the look of
\* the watchdog and its call of kill_child is covered by them.
WatchdogKills(k, c) == status[c] = "running" /\ KillReadsPid(k, c)

IpcRestart(k, c) == KillReadsPid(k, c)

\* kill_pid: SIGKILL to whatever process has the pid by now.
KillFires(k) ==
    /\ killer[k] # NoPid
    /\ proc' = [proc EXCEPT ![killer[k]] = IF @ = "live" THEN "killed" ELSE @]
    /\ killer' = [killer EXCEPT ![k] = NoPid]
    /\ UNCHANGED <<handles, mon, registered, aborting, requests, loop, main, unborn, boot,
                   flag, owner, unspawned>>

-----------------------------------------------------------------------------
\* The environment: processes exit, time passes.
ProcessExits(p) ==
    /\ proc[p] = "live"
    /\ proc' = [proc EXCEPT ![p] = "exited"]
    /\ UNCHANGED <<handles, mon, registered, aborting, requests, loop, killer, main,
                   unborn, boot, flag, owner, unspawned>>

\* An entry of the restart window expires (restarts_in_window).
WindowSlides(c) ==
    /\ recent[c] > 0
    /\ recent' = [recent EXCEPT ![c] = @ - 1]
    /\ UNCHANGED <<status, hpid, mon, registered, aborting, requests, loop,
                   killer, main, unborn, boot, flag, os>>

-----------------------------------------------------------------------------
\* shutdown_all: flag, drain of the monitors map, every handle marked stopped,
\* the drained monitors aborted.
StopFlag ==
    /\ main = "serving"
    /\ flag' = TRUE /\ main' = "draining"
    /\ UNCHANGED <<handles, mon, registered, aborting, requests, loop, killer, unborn,
                   boot, os>>

StopDrains ==
    /\ main = "draining"
    /\ aborting' = registered /\ registered' = {} /\ main' = "marking"
    /\ UNCHANGED <<handles, mon, requests, loop, killer, unborn, boot, flag, os>>

StopMarks ==
    /\ main = "marking"
    /\ status' = [c \in Children |-> "stopped"] /\ main' = "stopped"
    /\ UNCHANGED <<hpid, recent, mon, registered, aborting, requests, loop,
                   killer, unborn, boot, flag, os>>

\* An aborted monitor is dropped at its next await, and with it the Child
\* (kill_on_drop); a monitor that already returned is a no-op.
AbortTakes(c) ==
    /\ main = "stopped" /\ c \in aborting
    /\ aborting' = aborting \ {c}
    /\ mon' = [mon EXCEPT ![c] = Gone]
    /\ LET dead == {p \in Pids : mon[c].at \in {"starting", "waiting"} /\ p = mon[c].pid}
       IN  /\ proc' = [p \in Pids |-> IF p \in dead THEN "free" ELSE proc[p]]
           /\ owner' = [p \in Pids |-> IF p \in dead THEN NoChild ELSE owner[p]]
    /\ UNCHANGED <<handles, registered, requests, loop, killer, main, unborn, boot, flag,
                   unspawned>>

-----------------------------------------------------------------------------
MonitorStep(c) ==
    \/ MonitorStarts(c) \/ MonitorReaps(c) \/ MonitorClears(c)
    \/ MonitorChecksShutdown(c) \/ MonitorDecides(c) \/ MonitorSends(c)

LoopStep == LoopTakes \/ LoopBudget \/ LoopWakes \/ LoopSpawns \/ LoopRegisters

Next ==
    \/ BootRegisters \/ BootFails \/ LoopStep \/ LoopSpawnFails
    \/ StopFlag \/ StopDrains \/ StopMarks
    \/ \E c \in Children :
        \/ BootSpawn(c) \/ BootSkip(c) \/ MonitorStep(c) \/ MonitorWaitFails(c)
        \/ WindowSlides(c) \/ AbortTakes(c)
    \/ \E k \in Killers :
        KillFires(k) \/ \E c \in Children : WatchdogKills(k, c) \/ IpcRestart(k, c)
    \/ \E p \in Pids : ProcessExits(p)

Spec == Init /\ [][Next]_vars

\* Every task of the supervisor is scheduled again whenever it is ready.
Fairness ==
    /\ WF_vars(LoopStep)
    /\ \A c \in Children : WF_vars(MonitorStep(c))

FairSpec == Spec /\ Fairness

-----------------------------------------------------------------------------
Monitor == [at : {"none", "starting", "waiting", "reaped", "cleared", "deciding", "sending"},
            pid : Pids \cup {NoPid}, code : {0, 1}]
RestartLoop == [pc : {"idle", "budget", "sleeping", "spawning", "registering"},
                child : Children \cup {NoChild}]

\* Every variable has the shape its comment gives it.
TypeOK ==
    /\ status \in [Children -> {"pending", "running", "restarting", "degraded", "stopped"}]
    /\ hpid \in [Children -> Pids \cup {NoPid}]
    /\ recent \in [Children -> 0..(MaxRestarts + 1)]
    /\ mon \in [Children -> Monitor]
    /\ registered \subseteq Children /\ aborting \subseteq Children
    /\ requests \in Seq(Children)
    /\ loop \in RestartLoop
    /\ killer \in [Killers -> Pids \cup {NoPid}]
    /\ main \in {"boot", "inserting", "serving", "draining", "marking", "stopped", "failed"}
    /\ boot \in [child : Children \cup {NoChild}, stale : BOOLEAN]
    /\ unborn \subseteq Children /\ flag \in BOOLEAN /\ unspawned \subseteq Children
    /\ proc \in [Pids -> {"free", "live", "exited", "killed"}]
    /\ owner \in [Pids -> Children \cup {NoChild}]

Live(c) == {p \in Pids : proc[p] = "live" /\ owner[p] = c}
Scheduled(c) ==
    \/ \E k \in DOMAIN requests : requests[k] = c
    \/ loop.child = c
    \/ mon[c].at \in {"starting", "sending"}

\* A child never has two processes at once: the restart loop starts the next
\* one only after the monitor has reaped the previous one, whatever the
\* watchdog, IPC kills and shutdown do in between; and a degraded child is really
\* given up, with no process and no restart on its way.
OneProcessPerChild ==
    \A c \in Children :
        /\ Cardinality(Live(c)) <= 1
        /\ status[c] = "degraded" => Live(c) = {} /\ ~Scheduled(c)

\* The restart budget is never overdrawn: a child with a process, or about to
\* get one from the loop, has at most max_restarts_per_window restarts in the
\* window.
BudgetRespected ==
    \A c \in Children :
        Live(c) # {} \/ (loop.child = c /\ loop.pc \in {"sleeping", "spawning"})
            => recent[c] <= MaxRestarts

-----------------------------------------------------------------------------
(***************************************************************************)
(* The inductive strengthening of OneProcessPerChild and BudgetRespected.  *)
(* The right to run a child is a token: it is with spawn_all, with the     *)
(* child's monitor, in the restart channel or with the restart loop, in    *)
(* one place at a time, and a child that was given up has none.            *)
(***************************************************************************)
Requested == {requests[k] : k \in DOMAIN requests}
WithLoop(c) == loop.child = c /\ loop.pc # "registering"

OneToken ==
    /\ \A k, l \in DOMAIN requests : requests[k] = requests[l] => k = l
    /\ \A c \in Children :
        /\ c \in unborn => mon[c].at = "none" /\ c \notin Requested /\ ~WithLoop(c)
        /\ mon[c].at # "none" => c \notin Requested /\ ~WithLoop(c)
        /\ WithLoop(c) => c \notin Requested

\* A process that was not reaped yet is the one its child's monitor owns.
ProcessIsMonitored ==
    /\ \A p \in Pids : proc[p] = "free" <=> owner[p] = NoChild
    /\ \A c \in Children : \A p \in Pids :
        owner[p] = c <=> mon[c].at \in {"starting", "waiting"} /\ mon[c].pid = p
    /\ \A c \in Children : mon[c].at \in {"starting", "waiting"} => mon[c].pid # NoPid

GivenUp(c) == status[c] = "degraded" \/ recent[c] > MaxRestarts
GivenUpHasNoToken ==
    \A c \in Children : GivenUp(c) =>
        mon[c].at = "none" /\ c \notin Requested /\ c \notin unborn /\ loop.child # c

ChildInv ==
    /\ TypeOK
    /\ (loop.child = NoChild <=> loop.pc = "idle")
    /\ (main = "inserting" => boot.child # NoChild)
    /\ OneToken /\ ProcessIsMonitored /\ GivenUpHasNoToken

\* An exit is always dealt with: the child runs again, is given up, could not be
\* spawned, or the supervisor itself is going down.
ExitIsHandled ==
    \A c \in Children :
        mon[c].at = "reaped" ~>
            \/ flag \/ main = "failed" \/ c \in unspawned
            \/ status[c] \in {"degraded", "stopped"}
            \/ status[c] = "running" /\ mon[c].at = "waiting"

=============================================================================
