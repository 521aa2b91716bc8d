----------------------------- MODULE BuildLock ------------------------------
(***************************************************************************)
(* The per-project build lock of the CLI (build_lock.rs) and the two       *)
(* commands that take it, `mneme build` and `mneme rebuild`.  Each process *)
(* runs one command.  The lock is an flock on the file that <path>/.lock   *)
(* names when it is opened; Drop unlocks the file, closes it and removes   *)
(* the name, in that order.                                                *)
(*                                                                         *)
(* Left out: the stamp written into the file and the text of the errors,   *)
(* the walk and the rows of the build pipeline, the dispatch to workers.   *)
(***************************************************************************)
EXTENDS Integers, FiniteSets

CONSTANTS
    Builds,     \* processes, each running one command
    Rebuilds,   \* those that run `mneme rebuild`
    FailFast    \* those with a lock timeout of zero

Nobody == "nobody"

ASSUME BuildLockAssumption ==
    /\ IsFiniteSet(Builds) /\ Nobody \notin Builds
    /\ Rebuilds \subseteq Builds /\ FailFast \subseteq Builds

\* A file is created at most once per removal and once at the start.
Inodes == 1..(Cardinality(Builds) + 1)
NoFile == 0

VARIABLES
    pc,         \* where each process stands
    fd,         \* the file its handle refers to
    path,       \* the file the name .lock refers to
    created,    \* files created so far
    locked      \* flock: the process that holds each file

lockVars == <<pc, fd, path, created, locked>>

LockInit ==
    /\ pc = [b \in Builds |-> "opening"] /\ fd = [b \in Builds |-> NoFile]
    /\ path = NoFile /\ created = {}
    /\ locked = [i \in Inodes |-> Nobody]

-----------------------------------------------------------------------------
Goes(b, at) == pc' = [pc EXCEPT ![b] = at]

Fresh(i) == i \notin created /\ \A j \in Inodes : j < i => j \in created

\* OpenOptions::create(true).open
OpenExisting(b) ==
    /\ pc[b] = "opening" /\ path # NoFile
    /\ fd' = [fd EXCEPT ![b] = path]
    /\ Goes(b, "opened")
    /\ UNCHANGED <<path, created, locked>>

OpenCreates(b) ==
    /\ pc[b] = "opening" /\ path = NoFile
    /\ \E i \in Inodes :
        /\ Fresh(i)
        /\ path' = i /\ created' = created \cup {i} /\ fd' = [fd EXCEPT ![b] = i]
    /\ Goes(b, "opened")
    /\ UNCHANGED locked

\* The first thing a command does once it holds the lock.
Work(b) == IF b \in Rebuilds THEN "dropping" ELSE "writing"

\* Mutant: a shared lock is taken.
TryLock_Shared(b) ==
    /\ pc[b] = "opened"
    /\ locked' = [locked EXCEPT ![fd[b]] = b]
    /\ Goes(b, Work(b))
    /\ UNCHANGED <<fd, path, created>>

TryLock(b) ==
    /\ pc[b] = "opened" /\ locked[fd[b]] = Nobody
    /\ locked' = [locked EXCEPT ![fd[b]] = b]
    /\ Goes(b, Work(b))
    /\ UNCHANGED <<fd, path, created>>

\* Contention: close the handle; fail fast, fail at the deadline, or sleep.
TryLockBusy(b) ==
    /\ pc[b] = "opened" /\ locked[fd[b]] # Nobody
    /\ fd' = [fd EXCEPT ![b] = NoFile]
    /\ \E at \in IF b \in FailFast THEN {"failed"} ELSE {"failed", "sleeping"} : Goes(b, at)
    /\ UNCHANGED <<path, created, locked>>

Wakes(b) ==
    /\ pc[b] = "sleeping"
    /\ Goes(b, "opening")
    /\ UNCHANGED <<fd, path, created, locked>>

\* rebuild drops the shard databases before it runs the build pipeline.
DropsShards(b) ==
    /\ pc[b] = "dropping"
    /\ Goes(b, "writing")
    /\ UNCHANGED <<fd, path, created, locked>>

\* Mutant: the lock is leaked, neither unlocked nor removed.
Unlock_Leaked(b) ==
    /\ pc[b] \in {"dropping", "writing"}
    /\ Goes(b, "done")
    /\ UNCHANGED <<fd, path, created, locked>>

\* Drop: unlock and close, on every way out of the command...
Unlock(b) ==
    /\ pc[b] \in {"dropping", "writing"}
    /\ locked' = [locked EXCEPT ![fd[b]] = Nobody]
    /\ fd' = [fd EXCEPT ![b] = NoFile]
    /\ Goes(b, "unlocked")
    /\ UNCHANGED <<path, created>>

\* ...and then remove_file, whatever file the name refers to by now.
Remove(b) ==
    /\ pc[b] = "unlocked"
    /\ path' = NoFile
    /\ Goes(b, "done")
    /\ UNCHANGED <<fd, created, locked>>

\* The process is killed: the system closes its handle, the name stays.
Killed(b) ==
    /\ pc[b] \notin {"failed", "done", "killed"}
    /\ locked' = [i \in Inodes |-> IF locked[i] = b THEN Nobody ELSE locked[i]]
    /\ fd' = [fd EXCEPT ![b] = NoFile]
    /\ Goes(b, "killed")
    /\ UNCHANGED <<path, created>>

Step(b) ==
    \/ OpenExisting(b) \/ OpenCreates(b) \/ TryLock(b) \/ TryLockBusy(b) \/ Wakes(b)
    \/ DropsShards(b) \/ Unlock(b) \/ Remove(b)

LockNext == \E b \in Builds : Step(b) \/ Killed(b)

LockSpec == LockInit /\ [][LockNext]_lockVars

\* Every process goes on running; the build pipeline ends.
FairLockSpec == LockSpec /\ \A b \in Builds : WF_lockVars(Step(b))

-----------------------------------------------------------------------------
Inside(b) == pc[b] \in {"dropping", "writing"}

\* Every variable has the shape its comment gives it.
LockTypeOK ==
    /\ pc \in [Builds -> {"opening", "opened", "sleeping", "dropping", "writing",
                          "unlocked", "done", "failed", "killed"}]
    /\ fd \in [Builds -> Inodes \cup {NoFile}]
    /\ path \in Inodes \cup {NoFile} /\ created \subseteq Inodes
    /\ locked \in [Inodes -> Builds \cup {Nobody}]

\* Two builds of one project never work on its shards at the same time, as long
\* as no build has removed the lock file: kills, sleeps and retries do not break
\* the lock.  (Two processes alone are therefore always exclusive.)
ExclusiveUntilRemoval ==
    (\A c \in Builds : pc[c] # "done")
        => \A a, b \in Builds : Inside(a) /\ Inside(b) => a = b

\* No build waits for ever: once one has opened the lock file, all of them come
\* to an end; a file left by a killed process, or removed under a waiting one,
\* blocks nobody.
EveryBuildEnds ==
    (\E b \in Builds : pc[b] = "opened")
        ~> (\A b \in Builds : pc[b] \in {"done", "failed", "killed"})

=============================================================================
