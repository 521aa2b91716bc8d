---------------------------- MODULE ParseWorker ----------------------------
(***************************************************************************)
(* The parse-worker process (parsers/src/main.rs, worker.rs,               *)
(* incremental.rs, parser_pool.rs).  The stdin task hands jobs round-robin *)
(* to worker tasks; a worker looks its file up in the shared tree cache,   *)
(* leases one of the parsers of the language, parses, stores the tree,     *)
(* gives the lease back and extracts the graph; the emitter task writes    *)
(* one line per result and reports it to the supervisor.                   *)
(*                                                                         *)
(* A file's content is a version number and a tree is the version it was   *)
(* parsed from.  Every await and every lock is a step boundary; the scan   *)
(* of the parser slots is one step per try_lock, because other tasks run   *)
(* between two of them.  A blank or malformed line is skipped without      *)
(* effect and is not a step.                                               *)
(***************************************************************************)
EXTENDS Naturals, Sequences, FiniteSets

CONSTANTS
    ParseWorkers,  \* worker tasks: 0 .. ParseWorkers - 1 (cpu_count * 4 in the code)
    ParserSlots,   \* parsers per language (4 in the code)
    ParseFiles,    \* files, all of one language of the pool ...
    NoGrammar,     \* ... except these, whose grammar failed to load
    BadPatterns,   \* files of a language with a query that does not compile
    Versions,      \* contents a file can have
    TreeCache,     \* capacity of the LRU of trees (1000 in the code)
    InboxCap,      \* capacity of a worker's channel (64 in the code)
    ResultCap,     \* capacity of the result channel (1024 in the code)
    Routed,        \* {TRUE} when the supervisor sends the jobs, with FALSE some are typed
    Deaf,          \* whether the supervisor may miss a report: a subset of BOOLEAN
    MaxParseJobs   \* bound on the lines read from stdin

ASSUME ParseAssumption ==
    /\ {ParseWorkers, ParserSlots, TreeCache, InboxCap, ResultCap} \subseteq Nat \ {0}
    /\ NoGrammar \subseteq ParseFiles /\ BadPatterns \subseteq ParseFiles
    /\ Deaf \subseteq BOOLEAN /\ Deaf # {} /\ Routed \subseteq BOOLEAN

VARIABLES
    nextWorker,  \* round-robin counter, and so the number of jobs read
    stdinOpen,   \* the supervisor still holds the pipe
    inbox,       \* [worker -> sequence of jobs]
    task,        \* [worker -> what the task is doing]
    permits,     \* permits left in the semaphore of the language
    slot,        \* [slot -> the worker whose lease locks it, or Free]
    trees,       \* the LRU of trees, most recently used last
    results,     \* the result channel
    emitter,     \* the emitter task
    lines,       \* number of lines written to stdout
    reported,    \* ids the supervisor was told about
    process      \* "up", "signalled" or "exited"

parseVars == <<nextWorker, stdinOpen, inbox, task, permits, slot, trees,
               results, emitter, lines, reported, process>>

TaskIds == 0 .. ParseWorkers - 1
Free == ParseWorkers
NoJob == [id |-> 0, file |-> "none", ver |-> 0]
NoTree == 0

\* A job the supervisor routed has a positive id; a job typed into stdin has id 0.
JobOf(n, f, v, routed) == [id |-> IF routed THEN n ELSE 0, file |-> f, ver |-> v]

Failed(j) == [id |-> 0, job |-> j, kind |-> "error"]
Unchanged(j) == [id |-> j.id, job |-> j, kind |-> "unchanged"]
Graph(j) == [id |-> j.id, job |-> j, kind |-> "graph"]

\* Extraction of a parsed file.
Extract(r) == IF r.kind = "graph" /\ r.job.file \in BadPatterns THEN Failed(r.job) ELSE r

Idle == [pc |-> "recv", job |-> NoJob, at |-> 0, res |-> Failed(NoJob)]

----------------------------------------------------------------------------
(* The tree cache *)

\* The cached version of the file's tree, NoTree when there is none.
CachedTree(f) ==
    IF \E i \in DOMAIN trees : trees[i].file = f
      THEN trees[CHOOSE i \in DOMAIN trees : trees[i].file = f].ver
      ELSE NoTree

Without(f) == SelectSeq(trees, LAMBDA e : e.file # f)

\* LruCache::get promotes the entry it finds.
Touched(f) ==
    IF CachedTree(f) = NoTree THEN trees
      ELSE Append(Without(f), [file |-> f, ver |-> CachedTree(f)])

\* LruCache::put evicts the least recently used entry of a full cache.
Stored(f, v) ==
    LET full == Append(Without(f), [file |-> f, ver |-> v])
    IN  IF Len(full) > TreeCache THEN Tail(full) ELSE full

----------------------------------------------------------------------------
ParseInit ==
    /\ nextWorker = 0 /\ stdinOpen = TRUE /\ process = "up"
    /\ inbox = [w \in TaskIds |-> <<>>]
    /\ task = [w \in TaskIds |-> Idle]
    /\ permits = ParserSlots /\ slot = [i \in 1 .. ParserSlots |-> Free]
    /\ trees = <<>> /\ results = <<>> /\ lines = 0 /\ reported = {}
    /\ emitter = [pc |-> "recv", id |-> 0]

Goto(w, pc) == task' = [task EXCEPT ![w].pc = pc]

----------------------------------------------------------------------------
(* The stdin task *)

ReadJob(f, v, routed) ==
    LET w == nextWorker % ParseWorkers
    IN  /\ stdinOpen /\ process # "exited" /\ nextWorker < MaxParseJobs
        /\ Len(inbox[w]) < InboxCap
        /\ nextWorker' = nextWorker + 1
        /\ inbox' = IF task[w].pc = "ended" THEN inbox   \* the queue is closed: dropped
                      ELSE [inbox EXCEPT ![w] = Append(@, JobOf(nextWorker + 1, f, v, routed))]
        /\ UNCHANGED <<stdinOpen, task, permits, slot, trees, results, emitter,
                       lines, reported, process>>

CloseStdin ==
    /\ stdinOpen
    /\ stdinOpen' = FALSE
    /\ UNCHANGED <<nextWorker, inbox, task, permits, slot, trees, results,
                   emitter, lines, reported, process>>

----------------------------------------------------------------------------
(* A worker task *)

\* Receive a job, hash its bytes and look the file up in the cache.
TakeJob(w) ==
    /\ task[w].pc = "recv" /\ inbox[w] # <<>>
    /\ LET j == Head(inbox[w])
           old == CachedTree(j.file)
           at == [Idle EXCEPT !.job = j]
       IN  /\ trees' = Touched(j.file)
           /\ task' = [task EXCEPT ![w] =
                  IF old = j.ver THEN [at EXCEPT !.pc = "send", !.res = Unchanged(j)]
                  ELSE IF j.file \in NoGrammar THEN [at EXCEPT !.pc = "send", !.res = Failed(j)]
                  ELSE [at EXCEPT !.pc = "permit"]]
    /\ inbox' = [inbox EXCEPT ![w] = Tail(@)]
    /\ UNCHANGED <<nextWorker, stdinOpen, permits, slot, results, emitter,
                   lines, reported, process>>

AcquirePermit(w) ==
    /\ task[w].pc = "permit" /\ permits > 0
    /\ permits' = permits - 1
    /\ task' = [task EXCEPT ![w].pc = "scan", ![w].at = 1]
    /\ UNCHANGED <<nextWorker, stdinOpen, inbox, slot, trees, results, emitter,
                   lines, reported, process>>

\* One try_lock_owned of the scan; after the last slot the scan gives up and
\* the task waits for the first slot (lock_owned).
TrySlot(w) ==
    /\ task[w].pc \in {"scan", "wait"}
    /\ task[w].pc = "wait" => slot[1] = Free
    /\ LET i == task[w].at
       IN  IF slot[i] = Free
             THEN /\ slot' = [slot EXCEPT ![i] = w]
                  /\ Goto(w, "parse")
             ELSE /\ task' = [task EXCEPT ![w].pc = IF i = ParserSlots THEN "wait" ELSE "scan",
                                          ![w].at = IF i = ParserSlots THEN 1 ELSE i + 1]
                  /\ UNCHANGED slot
    /\ UNCHANGED <<nextWorker, stdinOpen, inbox, permits, trees, results,
                   emitter, lines, reported, process>>

\* Parse from the old tree and store the new one.  parse() may give up, and
\* then nothing is stored.  The lease is dropped after either.
Parse(w) ==
    /\ task[w].pc = "parse"
    /\ LET j == task[w].job
       IN  \/ /\ trees' = Stored(j.file, j.ver)
              /\ task' = [task EXCEPT ![w].pc = "unlock", ![w].res = Graph(j)]
           \/ /\ trees' = trees
              /\ task' = [task EXCEPT ![w].pc = "unlock", ![w].res = Failed(j)]
    /\ UNCHANGED <<nextWorker, stdinOpen, inbox, permits, slot, results,
                   emitter, lines, reported, process>>

\* The fields of a lease are dropped in their order: the slot's guard, then
\* the permit.
ReleaseOrder_PermitFirst == <<"permit", "slot">>
ReleaseOrder == <<"slot", "permit">>

\* The two drops.  After the second the worker extracts the graph, which fails
\* with the first query that does not compile and touches nothing shared.
Release(w) ==
    LET first == task[w].pc = "unlock"
        what == ReleaseOrder[IF first THEN 1 ELSE 2]
    IN  /\ task[w].pc \in {"unlock", "unlock2"}
        /\ slot' = IF what = "slot" THEN [slot EXCEPT ![task[w].at] = Free] ELSE slot
        /\ permits' = IF what = "permit" THEN permits + 1 ELSE permits
        /\ IF first THEN Goto(w, "unlock2")
             ELSE task' = [task EXCEPT ![w].pc = "send", ![w].at = 0, ![w].res = Extract(@)]
        /\ UNCHANGED <<nextWorker, stdinOpen, inbox, trees, results, emitter,
                       lines, reported, process>>

\* The worker outlives a failed parse; it ends when the emitter is gone.
SendResult(w) ==
    /\ task[w].pc = "send"
    /\ \/ /\ emitter.pc = "dead"
          /\ task' = [task EXCEPT ![w] = [Idle EXCEPT !.pc = "ended"]]
          /\ inbox' = [inbox EXCEPT ![w] = <<>>]
          /\ UNCHANGED results
       \/ /\ emitter.pc # "dead" /\ Len(results) < ResultCap
          /\ results' = Append(results, task[w].res)
          /\ task' = [task EXCEPT ![w] = Idle]
          /\ UNCHANGED inbox
    /\ UNCHANGED <<nextWorker, stdinOpen, permits, slot, trees, emitter, lines,
                   reported, process>>

EndTask_AtOnce(w) ==
    /\ task[w].pc = "recv" /\ ~stdinOpen
    /\ Goto(w, "ended")
    /\ UNCHANGED <<nextWorker, stdinOpen, inbox, permits, slot, trees, results,
                   emitter, lines, reported, process>>

\* Its channel is closed and empty.
EndTask(w) ==
    /\ task[w].pc = "recv" /\ inbox[w] = <<>> /\ ~stdinOpen
    /\ Goto(w, "ended")
    /\ UNCHANGED <<nextWorker, stdinOpen, inbox, permits, slot, trees, results,
                   emitter, lines, reported, process>>

----------------------------------------------------------------------------
(* The emitter task *)

Emit ==
    /\ emitter.pc = "recv" /\ results # <<>>
    /\ \/ /\ lines' = lines + 1
          /\ emitter' = IF Head(results).id # 0 THEN [pc |-> "report", id |-> Head(results).id]
                        ELSE emitter
          /\ results' = Tail(results)
       \/ /\ emitter' = [pc |-> "dead", id |-> 0]     \* stdout is broken
          /\ results' = <<>> /\ UNCHANGED lines
    /\ UNCHANGED <<nextWorker, stdinOpen, inbox, task, permits, slot, trees,
                   reported, process>>

\* report_complete, which a deaf supervisor lets fail within two seconds.
Report(heard) ==
    /\ emitter.pc = "report"
    /\ reported' = IF heard THEN reported \cup {emitter.id} ELSE reported
    /\ emitter' = [pc |-> "recv", id |-> 0]
    /\ UNCHANGED <<nextWorker, stdinOpen, inbox, task, permits, slot, trees,
                   results, lines, process>>

\* ctrl_c ends the wait of main, which then waits for the emitter: until every
\* worker has ended and the result channel is empty, or stdout broke.
CtrlC ==
    /\ process = "up"
    /\ process' = "signalled"
    /\ UNCHANGED <<nextWorker, stdinOpen, inbox, task, permits, slot, trees,
                   results, emitter, lines, reported>>

ExitParser ==
    /\ process = "signalled"
    /\ \/ emitter.pc = "dead"
       \/ /\ emitter.pc = "recv" /\ results = <<>>
          /\ \A w \in TaskIds : task[w].pc = "ended"
    /\ process' = "exited"
    /\ UNCHANGED <<nextWorker, stdinOpen, inbox, task, permits, slot, trees,
                   results, emitter, lines, reported>>

----------------------------------------------------------------------------
WorkerStep(w) ==
    \/ TakeJob(w) \/ AcquirePermit(w) \/ TrySlot(w)
    \/ Parse(w) \/ Release(w) \/ SendResult(w) \/ EndTask(w)

\* What the process does by itself, whatever its surroundings do.
ParserSteps ==
    /\ process # "exited"
    /\ \/ \E w \in TaskIds : WorkerStep(w)
       \/ Emit
       \/ \E deaf \in Deaf : Report(~deaf)
       \/ ExitParser

ParseNext ==
    \/ \E f \in ParseFiles, v \in Versions, routed \in Routed : ReadJob(f, v, routed)
    \/ CloseStdin \/ CtrlC
    \/ ParserSteps

ParseSpec == ParseInit /\ [][ParseNext]_parseVars

----------------------------------------------------------------------------
(* Properties *)

\* Holding a permit is enough to find a free parser: although the slots are
\* tried one after the other while other tasks lock and unlock them, the scan
\* in ParserPool::acquire never fails, so no task ends up waiting for one
\* particular parser while another is free ("Because we hold a permit there's
\* at least one Mutex that is unlocked, but several could race").
PermitFindsSlot ==
    \A w \in TaskIds : task[w].pc # "wait"

\* The inductive strengthening of PermitFindsSlot.  A task that holds a permit
\* has passed the slots before task[w].at; each of them was locked when it was
\* tried, by a task that stays behind.  So the tasks at slot k and beyond are at
\* most as many as the slots from k on.
ParseJob == [id : Nat, file : ParseFiles \cup {"none"}, ver : Versions \cup {0}]
ParseResult == [id : Nat, job : ParseJob, kind : {"error", "unchanged", "graph"}]
ParseTask == [pc : {"recv", "permit", "scan", "wait", "parse", "unlock", "unlock2", "send", "ended"},
              job : ParseJob, at : 0 .. ParserSlots, res : ParseResult]

HasPermit(w) == task[w].pc \in {"scan", "wait", "parse", "unlock", "unlock2"}
FromSlot(k) == {w \in TaskIds : HasPermit(w) /\ task[w].at >= k}

LeaseTypeOK ==
    /\ nextWorker \in Nat /\ permits \in Nat
    /\ inbox \in [TaskIds -> Seq(ParseJob)] /\ task \in [TaskIds -> ParseTask]
    /\ slot \in [1 .. ParserSlots -> TaskIds \cup {Free}]

LeaseInv ==
    /\ LeaseTypeOK /\ PermitFindsSlot
    /\ \A w \in TaskIds : HasPermit(w) => task[w].at >= 1
    /\ \A i \in 1 .. ParserSlots : slot[i] # Free =>
         task[slot[i]].pc \in {"parse", "unlock"} /\ task[slot[i]].at = i
    /\ \A k \in 1 .. ParserSlots : Cardinality(FromSlot(k)) <= ParserSlots - k + 1
    /\ permits + Cardinality(FromSlot(1)) = ParserSlots

\* What each part waits for when it cannot go on.
WorkerWaits(w) ==
    \/ task[w].pc = "recv" /\ inbox[w] = <<>> /\ stdinOpen
    \/ task[w].pc = "permit" /\ permits = 0
    \/ task[w].pc = "wait" /\ slot[1] # Free
    \/ task[w].pc = "send" /\ emitter.pc # "dead" /\ Len(results) >= ResultCap
    \/ task[w].pc = "ended"
EmitterWaits == emitter.pc = "dead" \/ (emitter.pc = "recv" /\ results = <<>>)

\* The process has exited, or nothing in it but its exit can go on.
Quiet == process = "exited" \/ (EmitterWaits /\ \A w \in TaskIds : WorkerWaits(w))

\* When nothing is left for the process to do, every job it read has its line
\* on stdout: no failed parse, full channel, eviction or shutdown swallows one,
\* and no task, permit or channel waits for another in a circle.  A broken stdout
\* is the only exception.
QuietMeansAnswered ==
    Quiet /\ emitter.pc # "dead" => lines = nextWorker

\* The inductive strengthening: a job that was read waits for its task, is at
\* work, is a result or has its line; and nothing waits for a task that ended.
AtTask == {w \in TaskIds : task[w].pc \notin {"recv", "ended"}}
InInboxes == UNION {{w} \X DOMAIN inbox[w] : w \in TaskIds}

AnswerInv ==
    /\ LeaseInv
    /\ lines \in Nat /\ results \in Seq(ParseResult) /\ stdinOpen \in BOOLEAN
    /\ emitter \in [pc : {"recv", "report", "dead"}, id : Nat]
    /\ emitter.pc # "dead" =>
         /\ nextWorker = lines + Len(results) + Cardinality(AtTask) + Cardinality(InInboxes)
         /\ \A w \in TaskIds : task[w].pc = "ended" => ~stdinOpen /\ inbox[w] = <<>>
         /\ process = "exited" => results = <<>> /\ \A w \in TaskIds : task[w].pc = "ended"
=============================================================================
