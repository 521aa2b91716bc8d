------------------------------ MODULE JobQueue ------------------------------
(***************************************************************************)
(* The supervisor's job queue (supervisor/src/job_queue.rs), its SQLite    *)
(* mirror (job_queue_db.rs), the router task that drains it (lib.rs,       *)
(* run_router) and the parties that race with the router: IPC submitters,  *)
(* worker processes that finish, die and report late, the per-child        *)
(* monitor that requeues a dead worker's jobs, and supervisor crashes.     *)
(*                                                                         *)
(* Granularity: one action is one critical section of JobQueue.inner (a    *)
(* parking_lot mutex) or one statement on the SQLite connection (its own   *)
(* mutex).  `submit' writes the row inside the critical section; every     *)
(* other operation writes its row AFTER the section, so that write is an   *)
(* action of its own and may be overtaken by the writes of other tasks.    *)
(*                                                                         *)
(* Left out: payloads, wakers (the IPC layer always passes None),          *)
(* timestamps, the ok/error distinction of an outcome (both are final and  *)
(* handled alike), the telemetry counters, and a recovery that fails or    *)
(* skips rows it cannot decode, after which these stay in the table only.  *)
(***************************************************************************)
EXTENDS Integers, Sequences, FiniteSets

CONSTANTS
    MaxId,          \* bound: job ids are 1..MaxId
    MaxPending,     \* max_pending (16 * 1024 in lib.rs)
    Workers,        \* worker names, as naturals in the order sort() gives them
    Pools,          \* worker-pool prefixes
    PoolOf,         \* the pool each worker name belongs to
    FilePools,      \* pools whose jobs the router reads from disk (parse, scan)
    MaxExits,       \* bound: worker process exits
    MaxCrashes,     \* bound: supervisor crashes
    DiskFaults,     \* TRUE: SQLite statements may fail (logged, then ignored)
    LossyReports,   \* TRUE: a WorkerCompleteJob may never arrive
    MayRetire       \* TRUE: a dead worker may stay dead (Degraded or Stopped)

ASSUME JobQueueAssumption ==
    /\ MaxId \in Nat \ {0}
    /\ MaxPending \in Nat \ {0}
    /\ Workers \subseteq Nat \ {0}
    /\ IsFiniteSet(Workers)
    /\ PoolOf \in [Workers -> Pools] /\ FilePools \subseteq Pools
    /\ MaxExits \in Nat /\ MaxCrashes \in Nat
    /\ {DiskFaults, LossyReports, MayRetire} \subseteq BOOLEAN

Ids == 1..MaxId
NoWorker == 0
Recoverable == {"queued", "in_flight"}
RowStates == Recoverable \cup {"absent", "done"}

VARIABLES
    mode,       \* "down", "durable" (jobs.db open) or "memory" (fallback)
    nextId,     \* JOB_ID_COUNTER
    pending,    \* Inner.pending
    tracked,    \* keys of Inner.tracked
    inflight,   \* Inner.in_flight, NoWorker where there is no entry
    kind,       \* pool_prefix of the job with this id
    router,     \* the router task: pc, the id it holds, who it tried, who took it
    doneW,      \* ids whose mark_done statement an IPC task has still to run
    requeueW,   \* ids whose requeue statement worker w's monitor has still to run
    disk,       \* state column of table jobs
    wstate,     \* worker process: up, dead (not noticed), down (noticed), gone
    inbox,      \* ids written to the stdin of w's current process, unfinished
    reports,    \* WorkerCompleteJob messages in transit
    exits, crashes,
    accepted,   \* history: ids for which submit returned Ok
    finished    \* history: ids for which complete counted an outcome

memory == <<nextId, pending, tracked, inflight>>
tasks == <<router, doneW, requeueW>>
workers == <<wstate, inbox, reports>>
history == <<accepted, finished>>
vars == <<mode, memory, kind, tasks, disk, workers, exits, crashes, history>>

Idle == [pc |-> "idle", id |-> 0, tried |-> {}, to |-> NoWorker, row |-> "absent"]
Saving(i, st) == [Idle EXCEPT !.pc = "saving", !.id = i, !.row = st]

InFlightIds == {i \in Ids : inflight[i] # NoWorker}
PoolWorkers(p) == {w \in Workers : PoolOf[w] = p}

\* The ids of S in some order, each exactly once.
Orderings(S) ==
    {s \in [1..Cardinality(S) -> S] :
        /\ \A x \in S : \E k \in DOMAIN s : s[k] = x
        /\ \A k, l \in DOMAIN s : s[k] = s[l] => k = l}

Ascending(s) == \A k, l \in DOMAIN s : k < l => s[k] < s[l]

\* UPDATE jobs SET state = st WHERE id = i: touches existing rows only, does
\* nothing when the queue runs without jobs.db, and may fail.
Update(i, st) ==
    \/ disk' = IF mode = "durable" /\ disk[i] # "absent"
               THEN [disk EXCEPT ![i] = st] ELSE disk
    \/ DiskFaults /\ disk' = disk

-----------------------------------------------------------------------------
Init ==
    /\ mode = "down" /\ nextId = 1
    /\ pending = <<>> /\ tracked = {} /\ inflight = [i \in Ids |-> NoWorker]
    /\ kind \in {[i \in Ids |-> p] : p \in Pools}
    /\ router = Idle /\ doneW = {} /\ requeueW = [w \in Workers |-> {}]
    /\ disk = [i \in Ids |-> "absent"]
    /\ wstate = [w \in Workers |-> "down"]
    /\ inbox = [w \in Workers |-> {}]
    /\ reports = {}
    /\ exits = 0 /\ crashes = 0
    /\ accepted = {} /\ finished = {}

(***************************************************************************)
(* Boot: DurableJobQueue::open, with_durable (seeds the id counter past    *)
(* max(id)) and recover_from_disk (in_flight rows flipped to queued, every *)
(* queued row re-enqueued in id order).  When jobs.db cannot be opened the *)
(* supervisor runs in memory and the counter starts at 1 again.            *)
(***************************************************************************)
\* Mutant: the id counter is not seeded from the table.
IsMaxId_Unseeded(m) == m = 0

\* max_id: SELECT COALESCE(MAX(id), 0) FROM jobs.
IsMaxId(m) ==
    /\ \A i \in Ids : disk[i] # "absent" => i <= m
    /\ m # 0 => disk[m] # "absent"

\* Mutant: rows left in_flight are not flipped back, only queued ones reload.
Boot_QueuedOnly ==
    /\ mode = "down"
    /\ mode' = "durable"
    /\ \E m \in 0..MaxId : IsMaxId(m) /\ nextId' = m + 1
    /\ tracked' = {i \in Ids : disk[i] = "queued"}
    /\ \E s \in Orderings(tracked') : Ascending(s) /\ pending' = s
    /\ UNCHANGED <<inflight, kind, tasks, disk, workers, exits, crashes, history>>

Boot ==
    /\ mode = "down"
    /\ mode' = "durable"
    /\ \E m \in 0..MaxId : IsMaxId(m) /\ nextId' = m + 1
    /\ disk' = [i \in Ids |-> IF disk[i] = "in_flight" THEN "queued" ELSE disk[i]]
    /\ tracked' = {i \in Ids : disk[i] \in Recoverable}
    /\ \E s \in Orderings(tracked') : Ascending(s) /\ pending' = s
    /\ UNCHANGED <<inflight, kind, tasks, workers, exits, crashes, history>>

BootInMemory ==
    /\ mode = "down" /\ DiskFaults
    /\ mode' = "memory"
    /\ nextId' = 1
    /\ UNCHANGED <<pending, tracked, inflight, kind, tasks, disk, workers,
                   exits, crashes, history>>

-----------------------------------------------------------------------------
\* Mutant: the capacity test forgets the jobs in flight.
Submit_PendingOnly(p) ==
    /\ mode # "down" /\ nextId <= MaxId
    /\ nextId' = nextId + 1
    /\ Len(pending) < MaxPending
    /\ disk' = [disk EXCEPT ![nextId] = "queued"]
    /\ pending' = Append(pending, nextId)
    /\ tracked' = tracked \cup {nextId}
    /\ kind' = [kind EXCEPT ![nextId] = p]
    /\ accepted' = accepted \cup {nextId}
    /\ UNCHANGED <<mode, inflight, tasks, workers, exits, crashes, finished>>

\* submit: the id is drawn before the capacity test, so a refused submit burns
\* it.  The row is pushed inside the critical section.
Submit(p) ==
    /\ mode # "down" /\ nextId <= MaxId
    /\ nextId' = nextId + 1
    /\ Len(pending) + Cardinality(InFlightIds) < MaxPending
    /\ \/ disk' = IF mode = "durable" THEN [disk EXCEPT ![nextId] = "queued"] ELSE disk
       \/ DiskFaults /\ disk' = disk
    /\ pending' = Append(pending, nextId)
    /\ tracked' = tracked \cup {nextId}
    /\ kind' = [kind EXCEPT ![nextId] = p]
    /\ accepted' = accepted \cup {nextId}
    /\ UNCHANGED <<mode, inflight, tasks, workers, exits, crashes, finished>>

SubmitFull ==
    /\ mode # "down" /\ nextId <= MaxId
    /\ Len(pending) + Cardinality(InFlightIds) >= MaxPending
    /\ nextId' = nextId + 1
    /\ UNCHANGED <<mode, pending, tracked, inflight, kind, tasks, disk, workers,
                   exits, crashes, history>>

-----------------------------------------------------------------------------
\* next_pending: the front id; one that is no longer tracked is dropped and
\* ends the burst (the 500 ms tick starts the next one).
NextPending ==
    /\ mode # "down" /\ router.pc = "idle" /\ pending # <<>>
    /\ pending' = Tail(pending)
    /\ router' = IF Head(pending) \in tracked
                 THEN [Idle EXCEPT !.pc = "trying", !.id = Head(pending)]
                 ELSE Idle
    /\ UNCHANGED <<mode, nextId, tracked, inflight, kind, doneW, requeueW, disk,
                   workers, exits, crashes, history>>

\* The critical section of complete: forget the job, count its outcome once.
CompleteSection(i) ==
    /\ inflight' = [inflight EXCEPT ![i] = NoWorker]
    /\ tracked' = tracked \ {i}
    /\ finished' = IF i \in tracked THEN finished \cup {i} ELSE finished

\* encode_for_worker failed (unreadable file, unknown language): the router
\* completes the job with an error.
EncodeFails ==
    /\ mode # "down" /\ router.pc = "trying" /\ router.tried = {}
    /\ kind[router.id] \in FilePools
    /\ CompleteSection(router.id)
    /\ router' = IF router.id \in tracked THEN Saving(router.id, "done") ELSE Idle
    /\ UNCHANGED <<mode, nextId, pending, kind, doneW, requeueW, disk, workers,
                   exits, crashes, accepted>>

\* dispatch_to_pool: candidates in name order, the first that takes the line
\* wins.  A process that is gone refuses (stdin None, or EPIPE).
TryWorker(w) ==
    /\ mode # "down" /\ router.pc = "trying"
    /\ w \in PoolWorkers(kind[router.id]) \ router.tried
    /\ \A v \in PoolWorkers(kind[router.id]) \ router.tried : w <= v
    /\ IF wstate[w] = "up"
       THEN /\ inbox' = [inbox EXCEPT ![w] = @ \cup {router.id}]
            /\ router' = [router EXCEPT !.pc = "sent", !.to = w]
       ELSE /\ router' = [router EXCEPT !.tried = @ \cup {w}]
            /\ UNCHANGED inbox
    /\ UNCHANGED <<mode, memory, kind, doneW, requeueW, disk, wstate, reports,
                   exits, crashes, history>>

\* mark_assigned: unconditional insert, whatever happened since the line was
\* written.
MarkAssigned ==
    /\ mode # "down" /\ router.pc = "sent"
    /\ inflight' = [inflight EXCEPT ![router.id] = router.to]
    /\ router' = Saving(router.id, "in_flight")
    /\ UNCHANGED <<mode, nextId, pending, tracked, kind, doneW, requeueW, disk,
                   workers, exits, crashes, history>>

\* Mutant: the row is closed instead of re-queued.
ReturnPending_Closes ==
    /\ mode # "down" /\ router.pc = "trying"
    /\ PoolWorkers(kind[router.id]) \subseteq router.tried
    /\ pending' = <<router.id>> \o pending
    /\ router' = Saving(router.id, "done")
    /\ UNCHANGED <<mode, nextId, tracked, inflight, kind, doneW, requeueW, disk,
                   workers, exits, crashes, history>>

\* return_pending: no candidate took the job.
ReturnPending ==
    /\ mode # "down" /\ router.pc = "trying"
    /\ PoolWorkers(kind[router.id]) \subseteq router.tried
    /\ inflight' = [inflight EXCEPT ![router.id] = NoWorker]
    /\ pending' = IF router.id \in tracked THEN <<router.id>> \o pending ELSE pending
    /\ router' = Saving(router.id, "queued")
    /\ UNCHANGED <<mode, nextId, tracked, kind, doneW, requeueW, disk, workers,
                   exits, crashes, history>>

\* The statement the router owes after its critical section.
RouterSaves ==
    /\ mode # "down" /\ router.pc = "saving"
    /\ Update(router.id, router.row)
    /\ router' = Idle
    /\ UNCHANGED <<mode, memory, kind, doneW, requeueW, workers, exits, crashes,
                   history>>

-----------------------------------------------------------------------------
\* A worker finishes a job and sends report_complete (fire and forget, 2 s).
WorkerFinishes(w, i) ==
    /\ wstate[w] = "up" /\ i \in inbox[w]
    /\ inbox' = [inbox EXCEPT ![w] = @ \ {i}]
    /\ reports' = reports \cup {[id |-> i, from |-> w]}
    /\ UNCHANGED <<mode, memory, kind, tasks, disk, wstate, exits, crashes, history>>

LoseReport(m) ==
    /\ LossyReports /\ m \in reports
    /\ reports' = reports \ {m}
    /\ UNCHANGED <<mode, memory, kind, tasks, disk, wstate, inbox, exits, crashes,
                   history>>

\* IPC WorkerCompleteJob -> complete.
Complete(m) ==
    /\ mode # "down" /\ m \in reports
    /\ reports' = reports \ {m}
    /\ CompleteSection(m.id)
    /\ doneW' = IF m.id \in tracked THEN doneW \cup {m.id} ELSE doneW
    /\ UNCHANGED <<mode, nextId, pending, kind, router, requeueW, disk, wstate,
                   inbox, exits, crashes, accepted>>

CompleteSaves(i) ==
    /\ mode # "down" /\ i \in doneW
    /\ Update(i, "done")
    /\ doneW' = doneW \ {i}
    /\ UNCHANGED <<mode, memory, kind, router, requeueW, workers, exits, crashes,
                   history>>

-----------------------------------------------------------------------------
\* A worker process dies with everything it had read; reports already on the
\* socket survive it.
WorkerExit(w) ==
    /\ wstate[w] = "up" /\ exits < MaxExits
    /\ exits' = exits + 1
    /\ wstate' = [wstate EXCEPT ![w] = "dead"]
    /\ inbox' = [inbox EXCEPT ![w] = {}]
    /\ UNCHANGED <<mode, memory, kind, tasks, disk, reports, crashes, history>>

\* Mutant: the ids are pushed back but stay in the in-flight map.
RequeueWorker_KeepsEntry(w) ==
    /\ mode # "down" /\ wstate[w] = "dead"
    /\ wstate' = [wstate EXCEPT ![w] = "down"]
    /\ LET ids == {i \in Ids : inflight[i] = w}
       IN  /\ \E s \in Orderings(ids) : pending' = s \o pending
           /\ requeueW' = [requeueW EXCEPT ![w] = ids]
    /\ UNCHANGED <<mode, nextId, tracked, inflight, kind, router, doneW, disk, inbox,
                   reports, exits, crashes, history>>

\* monitor_child after Child::wait: stdin dropped, then requeue_worker.  The
\* HashMap yields the ids in any order; each is pushed to the front.
RequeueWorker(w) ==
    /\ mode # "down" /\ wstate[w] = "dead"
    /\ wstate' = [wstate EXCEPT ![w] = "down"]
    /\ LET ids == {i \in Ids : inflight[i] = w}
       IN  /\ inflight' = [i \in Ids |-> IF i \in ids THEN NoWorker ELSE inflight[i]]
           /\ \E s \in Orderings(ids) : pending' = s \o pending
           /\ requeueW' = [requeueW EXCEPT ![w] = ids]
    /\ UNCHANGED <<mode, nextId, tracked, kind, router, doneW, disk, inbox, reports,
                   exits, crashes, history>>

RequeueSaves(w, i) ==
    /\ mode # "down" /\ i \in requeueW[w]
    /\ Update(i, "queued")
    /\ requeueW' = [requeueW EXCEPT ![w] = @ \ {i}]
    /\ UNCHANGED <<mode, memory, kind, router, doneW, workers, exits, crashes,
                   history>>

\* The restart loop (or spawn_all after a boot) brings the process up; the
\* request is sent only after the monitor has run its requeue statements.
Spawn(w) ==
    /\ mode # "down" /\ wstate[w] = "down" /\ requeueW[w] = {}
    /\ wstate' = [wstate EXCEPT ![w] = "up"]
    /\ UNCHANGED <<mode, memory, kind, tasks, disk, inbox, reports, exits, crashes,
                   history>>

\* Restart budget exhausted, spawn failure or a strategy that says no.
Retire(w) ==
    /\ MayRetire /\ mode # "down" /\ wstate[w] = "down" /\ requeueW[w] = {}
    /\ wstate' = [wstate EXCEPT ![w] = "gone"]
    /\ UNCHANGED <<mode, memory, kind, tasks, disk, inbox, reports, exits, crashes,
                   history>>

\* The supervisor dies (or is stopped): memory and owed statements are lost,
\* the table stays.  Orphaned workers see EOF on stdin but may still finish
\* what they had read and report it to the next supervisor.
Crash ==
    /\ mode # "down" /\ crashes < MaxCrashes
    /\ crashes' = crashes + 1
    /\ mode' = "down"
    /\ pending' = <<>> /\ tracked' = {} /\ inflight' = [i \in Ids |-> NoWorker]
    /\ router' = Idle /\ doneW' = {} /\ requeueW' = [w \in Workers |-> {}]
    /\ reports' = reports \cup {m \in [id : Ids, from : Workers] : m.id \in inbox[m.from]}
    /\ wstate' = [w \in Workers |-> "down"]
    /\ inbox' = [w \in Workers |-> {}]
    /\ UNCHANGED <<nextId, kind, disk, exits, history>>

-----------------------------------------------------------------------------
RouterStep ==
    \/ NextPending \/ EncodeFails \/ MarkAssigned \/ ReturnPending \/ RouterSaves
    \/ \E w \in Workers : TryWorker(w)

WorkerStep(w) ==
    \/ WorkerExit(w) \/ RequeueWorker(w) \/ Spawn(w) \/ Retire(w)
    \/ \E i \in Ids : WorkerFinishes(w, i) \/ RequeueSaves(w, i)

Next ==
    \/ Boot \/ BootInMemory \/ Crash
    \/ SubmitFull \/ \E p \in Pools : Submit(p)
    \/ RouterStep
    \/ \E w \in Workers : WorkerStep(w)
    \/ \E m \in reports : Complete(m) \/ LoseReport(m)
    \/ \E i \in Ids : CompleteSaves(i)

Spec == Init /\ [][Next]_vars

\* The tokio runtime keeps running ready tasks, the router also wakes every
\* 500 ms, workers finish what they read, and init restarts the supervisor.
Fairness ==
    /\ WF_vars(Boot) /\ WF_vars(RouterStep)
    /\ WF_vars(\E m \in reports : Complete(m))
    /\ WF_vars(\E i \in Ids : CompleteSaves(i))
    /\ \A w \in Workers :
        /\ WF_vars(RequeueWorker(w)) /\ WF_vars(Spawn(w) \/ Retire(w))
        /\ WF_vars(\E i \in Ids : WorkerFinishes(w, i))
        /\ WF_vars(\E i \in Ids : RequeueSaves(w, i))

FairSpec == Spec /\ Fairness

-----------------------------------------------------------------------------
Router == [pc : {"idle", "trying", "sent", "saving"}, id : Ids \cup {0},
           tried : SUBSET Workers, to : Workers \cup {NoWorker}, row : RowStates]

\* Every variable has the shape its comment gives it.
TypeOK ==
    /\ mode \in {"down", "durable", "memory"} /\ nextId \in 1..(MaxId + 1)
    /\ pending \in Seq(Ids) /\ tracked \subseteq Ids
    /\ inflight \in [Ids -> Workers \cup {NoWorker}]
    /\ kind \in [Ids -> Pools]
    /\ router \in Router /\ (router.pc # "idle" => router.id \in Ids)
    /\ (router.pc = "sent" => router.to \in Workers)
    /\ doneW \subseteq Ids /\ requeueW \in [Workers -> SUBSET Ids]
    /\ disk \in [Ids -> RowStates]
    /\ wstate \in [Workers -> {"up", "dead", "down", "gone"}]
    /\ inbox \in [Workers -> SUBSET Ids]
    /\ reports \subseteq [id : Ids, from : Workers]
    /\ exits \in 0..MaxExits /\ crashes \in 0..MaxCrashes
    /\ accepted \subseteq Ids /\ finished \subseteq Ids

InHand == IF router.pc \in {"trying", "sent"} THEN {router.id} ELSE {}
Elems(s) == {s[k] : k \in DOMAIN s}
Distinct(s) == \A k, l \in DOMAIN s : s[k] = s[l] => k = l
Queued == Elems(pending)

\* The queue never duplicates a job: an id stands at most once in the pending
\* queue, in the router's hand or in the in-flight map, across requeues by the
\* monitor, failed dispatches, late completions and recovery.
NeverDuplicated ==
    /\ Distinct(pending)
    /\ Queued \cap InFlightIds = {}
    /\ Queued \cap InHand = {}
    /\ InHand \cap InFlightIds = {}

\* The queue never loses a job it tracks: the job is pending, in the router's
\* hand or in flight (requeue_worker, return_pending and mark_assigned racing
\* in any order never leave it nowhere).
TrackedIsHeld == tracked \subseteq Queued \cup InHand \cup InFlightIds

\* Jobs are conserved: between submit and complete a job is in one place of the
\* queue, never in two and never in none, whatever requeue_worker, the router,
\* late completions and recovery do to it.
JobsAreConserved == NeverDuplicated /\ TrackedIsHeld

\* A supervisor that is down holds nothing in memory and owes no statement.
DownIsEmpty ==
    mode = "down" =>
        /\ pending = <<>> /\ tracked = {} /\ router.pc = "idle" /\ doneW = {}
        /\ InFlightIds = {} /\ \A w \in Workers : requeueW[w] = {}

Touched == InHand \cup InFlightIds \cup Queued \cup tracked

\* Ids the queue holds were drawn from the counter.
BelowCounter == \A i \in Touched : i < nextId

\* The inductive strengthening of NeverDuplicated and TrackedIsHeld: submit
\* appends an id no place holds because the counter is ahead of all of them,
\* and recovery starts from empty places.
QueueInv ==
    TypeOK /\ DownIsEmpty /\ BelowCounter /\ NeverDuplicated /\ TrackedIsHeld

\* A job submit accepted and no outcome was counted for can be recovered from
\* jobs.db, whatever order the deferred row updates ran in and wherever the
\* supervisor crashed; while the supervisor is up it is also tracked.
OwedIsRecoverable ==
    ~DiskFaults => \A i \in accepted \ finished :
        disk[i] \in Recoverable /\ (mode = "durable" => i \in tracked)

\* Ids are never reused across restarts, so a report that outlives the
\* supervisor it was meant for cannot complete a different job: recovery seeds
\* the counter past every id ever accepted, dispatched or reported.
IdsNeverReused ==
    ~DiskFaults /\ mode # "down" =>
        /\ \A i \in accepted : i < nextId
        /\ \A m \in reports : m.id < nextId
        /\ \A w \in Workers : \A i \in inbox[w] : i < nextId

\* The inductive strengthening of OwedIsRecoverable and IdsNeverReused: every
\* id in circulation was accepted and has a row, a tracked job's row can be
\* recovered, and only a counted outcome is ever owed to, or read from, the
\* table as done.
DurableInv ==
    /\ mode # "memory"
    /\ Touched \cup doneW \cup finished \subseteq accepted
    /\ \A m \in reports : m.id \in accepted
    /\ \A w \in Workers : inbox[w] \subseteq accepted /\ requeueW[w] \subseteq accepted
    /\ \A i \in Ids : i \in accepted <=> disk[i] # "absent"
    /\ mode # "down" => \A i \in accepted : i < nextId
    /\ \A i \in Ids : disk[i] = "done" => i \in finished
    /\ \A i \in tracked : disk[i] \in Recoverable
    /\ mode = "durable" => \A i \in accepted \ finished : i \in tracked
    /\ doneW \subseteq finished \ tracked
    /\ router.pc = "saving" =>
        /\ router.row # "absent"
        /\ router.row = "done" => router.id \in finished \ tracked

\* What the queue can hold without a restart: one job more than max_pending,
\* because the job in the router's hand is not counted by submit.
LoadBounded ==
    crashes = 0 =>
        Len(pending) + Cardinality(InFlightIds) + Cardinality(InHand) <= MaxPending + 1

\* The inductive strengthening of LoadBounded: until the first crash the boot
\* finds an empty table, so recovery adds nothing past the capacity test.
LoadInv ==
    /\ LoadBounded
    /\ crashes = 0 /\ mode = "down" => \A i \in Ids : disk[i] = "absent"

\* The comment of requeue_worker: "no work silently evaporates when a worker
\* crashes".  A tracked in-flight job is still with the process it is assigned
\* to, or reported, or that process's exit has yet to be handled.
NoWorkEvaporates ==
    ~LossyReports => \A i \in tracked : inflight[i] # NoWorker =>
        \/ i \in inbox[inflight[i]] \/ wstate[inflight[i]] = "dead"
        \/ \E m \in reports : m.id = i

\* In flight on a process that does not have it, with no report on its way.
Stranded(i) ==
    /\ inflight[i] # NoWorker /\ i \notin inbox[inflight[i]]
    /\ \A m \in reports : m.id # i

\* Every accepted job is eventually completed, across worker exits and restarts
\* of the supervisor; the only way to be left behind is to stay stranded in the
\* in-flight map, by a lost report or by an exit that mark_assigned overtook.
EveryJobFinishes == \A i \in Ids : i \in accepted ~> i \in finished \/ []Stranded(i)

\* What a client may rely on: the at-least-once ledger.
Ledger == INSTANCE JobLedger WITH
    Jobs <- Ids,
    owed <- {i \in Ids : disk[i] \in Recoverable},
    settled <- finished

\* The queue with its mirror implements the ledger: a row leaves the recoverable
\* states only once an outcome has been counted.
LedgerSpec == Ledger!Spec

=============================================================================
