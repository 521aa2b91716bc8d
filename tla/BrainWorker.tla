---------------------------- MODULE BrainWorker ----------------------------
(***************************************************************************)
(* The brain process (brain/src/main.rs, worker.rs, job.rs): the stdin     *)
(* task, one worker task that takes the jobs in order, the stdout task,    *)
(* and behind the worker the embedder with its cache (embeddings.rs) and   *)
(* the index of vectors (embed_store.rs), which lives in memory and is     *)
(* written to index.bin when the worker ends.  The process is killed and   *)
(* started again at any moment.                                            *)
(*                                                                         *)
(* A vector is the text it stands for and the backend that made it.  The   *)
(* jobs that touch neither cache nor index (clusters, concepts, summaries) *)
(* are one kind.  Left out: the ledger of start times, what the vectors    *)
(* and the results contain, the report to the supervisor (ParseWorker has  *)
(* the same), a malformed line, which is skipped.                          *)
(***************************************************************************)
EXTENDS Naturals, Sequences

CONSTANTS
    BrainNodes,     \* nodes of the graph
    BrainTexts,     \* texts to embed
    BrainCap,       \* channel_capacity (256 in the code)
    MaxBrainJobs,   \* bound on lines read
    MaxBrainRuns    \* bound on starts of the process

ASSUME BrainAssumption ==
    {BrainCap, MaxBrainJobs, MaxBrainRuns} \subseteq Nat \ {0} /\ "absent" \notin BrainNodes

VARIABLES
    brain,      \* the process: "down", "up", "returning" from main; its backend; starts
    linesRead,  \* number of jobs read from stdin, over all starts
    jobQ,       \* the job channel
    worker,     \* the worker task
    resQ,       \* the result channel
    printer,    \* the stdout task: "up", or "joining" once stdout is broken
    answered,   \* ids of the results written
    vectors,    \* the index in memory: [node -> vector]
    dirtyIdx,   \* it differs from the file
    texts,      \* the embedder's cache: texts whose vector is known
    indexBin,   \* rows of index.bin, or NoIndex
    indexTmp,   \* rows of index.bin.tmp, or NoIndex
    unread,     \* (history) this process found an index that it could not read
    flushed     \* (history) nodes of the indexes put in place, since one was last lost

brainVars == <<brain, linesRead, jobQ, worker, resQ, printer, answered, vectors,
               dirtyIdx, texts, indexBin, indexTmp, unread, flushed>>

NoIndex == [absent |-> TRUE]
Shutdown == [id |-> 0, kind |-> "shutdown", items |-> <<>>]
AtRest == [pc |-> "recv", job |-> Shutdown, ok |-> TRUE]
Vector(t, by) == [text |-> t, by |-> by]

BrainInit ==
    /\ brain = [state |-> "down", backend |-> "none", runs |-> 0]
    /\ linesRead = 0 /\ jobQ = <<>> /\ worker = [AtRest EXCEPT !.pc = "ended"] /\ resQ = <<>>
    /\ printer = "up" /\ answered = {} /\ vectors = <<>> /\ dirtyIdx = FALSE /\ texts = {}
    /\ indexBin = NoIndex /\ indexTmp = NoIndex /\ unread = FALSE /\ flushed = {}

\* EmbedStore::open: an absent file, or one that load_file fails on, is an empty
\* index.
Opened(reads) == IF indexBin = NoIndex \/ ~reads THEN <<>> ELSE indexBin

\* Backend::load: the real model when its files are there and the runtime takes
\* them, or else the hashing one, which needs nothing.
LoadBackend(present, loads) == IF present /\ loads THEN "real" ELSE "hash"

\* WorkerConfig::with_defaults loads the model and opens the index; spawn_worker.
StartBrain(present, loads, reads) ==
    /\ brain.state = "down" /\ brain.runs < MaxBrainRuns
    /\ brain' = [state |-> "up", backend |-> LoadBackend(present, loads), runs |-> brain.runs + 1]
    /\ vectors' = Opened(reads) /\ unread' = (indexBin # NoIndex /\ ~reads)
    /\ dirtyIdx' = FALSE /\ texts' = {}
    /\ jobQ' = <<>> /\ resQ' = <<>> /\ worker' = AtRest /\ printer' = "up"
    /\ UNCHANGED <<linesRead, answered, indexBin, indexTmp, flushed>>

-----------------------------------------------------------------------------
(* The stdin task *)

ReadBrainJob(kind, items) ==
    /\ brain.state = "up" /\ linesRead < MaxBrainJobs /\ Len(jobQ) < BrainCap
    /\ linesRead' = linesRead + 1
    /\ jobQ' = Append(jobQ, [id |-> linesRead + 1, kind |-> kind, items |-> items])
    /\ UNCHANGED <<brain, worker, resQ, printer, answered, vectors, dirtyIdx, texts,
                   indexBin, indexTmp, unread, flushed>>

\* End of file: ask the worker to shut down.  The task's end is the end of
\* main's select, and main returns.
BrainEof ==
    /\ brain.state = "up" /\ Len(jobQ) < BrainCap
    /\ jobQ' = Append(jobQ, Shutdown)
    /\ brain' = [brain EXCEPT !.state = "returning"]
    /\ UNCHANGED <<linesRead, worker, resQ, printer, answered, vectors, dirtyIdx, texts,
                   indexBin, indexTmp, unread, flushed>>

-----------------------------------------------------------------------------
(* The worker task *)

TakeBrainJob ==
    /\ worker.pc = "recv" /\ jobQ # <<>>
    /\ worker' = [worker EXCEPT !.pc = IF Head(jobQ) = Shutdown THEN "flush" ELSE "work",
                                !.job = Head(jobQ)]
    /\ jobQ' = Tail(jobQ)
    /\ UNCHANGED <<brain, linesRead, resQ, printer, answered, vectors, dirtyIdx, texts,
                   indexBin, indexTmp, unread, flushed>>

\* embed and embed_batch: a text in the cache does not reach the backend, the
\* others do together.
EmbedTexts(items) ==
    texts' = texts \cup {items[n] : n \in DOMAIN items}

\* upsert_many: every vector of the job under one lock.
StoreVectors_Only(items) ==
    /\ vectors' = [n \in DOMAIN items |-> Vector(items[n], brain.backend)]
    /\ dirtyIdx' = (dirtyIdx \/ DOMAIN items # {})
StoreVectors(items) ==
    /\ vectors' = [n \in DOMAIN vectors \cup DOMAIN items |->
                    IF n \in DOMAIN items THEN Vector(items[n], brain.backend) ELSE vectors[n]]
    /\ dirtyIdx' = (dirtyIdx \/ DOMAIN items # {})

\* The real backend may fail (the other cannot), and any job may panic: nothing
\* is stored then.
HandleJob(ok) ==
    /\ worker.pc = "work"
    /\ IF ok /\ worker.job.kind = "embed"
       THEN EmbedTexts(worker.job.items) /\ StoreVectors(worker.job.items)
       ELSE UNCHANGED <<texts, vectors, dirtyIdx>>
    /\ worker' = [worker EXCEPT !.pc = "send", !.ok = ok]
    /\ UNCHANGED <<brain, linesRead, jobQ, resQ, printer, answered, indexBin, indexTmp, unread, flushed>>

\* The receiver outlives a broken stdout, so a full channel blocks for ever.
SendBrainResult ==
    /\ worker.pc = "send" /\ Len(resQ) < BrainCap
    /\ resQ' = Append(resQ, worker.job.id)
    /\ worker' = AtRest
    /\ UNCHANGED <<brain, linesRead, jobQ, printer, answered, vectors, dirtyIdx, texts,
                   indexBin, indexTmp, unread, flushed>>

\* EmbedStore::flush, file by file: the rows go to a second file, the old index
\* is removed, the second file is renamed.  What a process that did not read the
\* old index removes is lost.
InFlush == {"flush", "remove", "rename"}
FlushStep ==
    /\ worker.pc \in InFlush
    /\ \/ worker.pc = "flush" /\ ~dirtyIdx /\ worker' = [worker EXCEPT !.pc = "ended"]
          /\ UNCHANGED <<indexBin, indexTmp, flushed, dirtyIdx>>
       \/ worker.pc = "flush" /\ dirtyIdx /\ indexTmp' = vectors
          /\ worker' = [worker EXCEPT !.pc = "remove"] /\ UNCHANGED <<indexBin, flushed, dirtyIdx>>
       \/ worker.pc = "remove" /\ indexBin' = NoIndex /\ flushed' = (IF unread THEN {} ELSE flushed)
          /\ worker' = [worker EXCEPT !.pc = "rename"] /\ UNCHANGED <<indexTmp, dirtyIdx>>
       \/ worker.pc = "rename" /\ indexBin' = indexTmp /\ indexTmp' = NoIndex
          /\ flushed' = flushed \cup DOMAIN indexTmp /\ dirtyIdx' = FALSE
          /\ worker' = [worker EXCEPT !.pc = "ended"]
    /\ UNCHANGED <<brain, linesRead, jobQ, resQ, printer, answered, vectors, texts, unread>>

\* A flush that stops between removing and renaming loses the index: no start
\* looks for the second file.
LostInGap == flushed' = IF worker.pc = "rename" THEN {} ELSE flushed

\* Each step of the flush may fail, and ends it.
FlushFails ==
    /\ worker.pc \in InFlush /\ LostInGap
    /\ worker' = [worker EXCEPT !.pc = "ended"]
    /\ UNCHANGED <<brain, linesRead, jobQ, resQ, printer, answered, vectors, dirtyIdx, texts,
                   indexBin, indexTmp, unread>>

-----------------------------------------------------------------------------
(* The stdout task, and the end *)

PrintResult ==
    /\ brain.state # "down" /\ printer = "up" /\ resQ # <<>>
    /\ resQ' = Tail(resQ)
    /\ \/ answered' = answered \cup {Head(resQ)} /\ UNCHANGED printer
       \/ printer' = "joining" /\ UNCHANGED answered
    /\ UNCHANGED <<brain, linesRead, jobQ, worker, vectors, dirtyIdx, texts,
                   indexBin, indexTmp, unread, flushed>>

Stopped ==
    /\ brain' = [brain EXCEPT !.state = "down", !.backend = "none"]
    /\ worker' = [AtRest EXCEPT !.pc = "ended"] /\ jobQ' = <<>> /\ resQ' = <<>>
    /\ vectors' = <<>> /\ dirtyIdx' = FALSE /\ texts' = {} /\ printer' = "up"
    /\ unread' = FALSE /\ UNCHANGED <<linesRead, answered, indexBin, indexTmp>>

\* main has returned: the runtime drops its tasks where they wait.  Code that
\* does not wait, as the flush, still runs to its end.
MainReturns ==
    /\ brain.state = "returning" \/ (brain.state = "up" /\ worker.pc = "ended" /\ resQ = <<>>)
    /\ worker.pc \notin InFlush
    /\ Stopped /\ UNCHANGED flushed

\* The supervisor's kill, or a crash.
KillBrain ==
    /\ brain.state # "down"
    /\ Stopped /\ LostInGap

BrainNext ==
    \/ \E present, loads, reads \in BOOLEAN : StartBrain(present, loads, reads)
    \/ \E N \in SUBSET BrainNodes : \E items \in [N -> BrainTexts] : ReadBrainJob("embed", items)
    \/ ReadBrainJob("other", <<>>)
    \/ BrainEof \/ TakeBrainJob \/ SendBrainResult \/ FlushStep \/ FlushFails
    \/ \E ok \in BOOLEAN : HandleJob(ok)
    \/ PrintResult \/ MainReturns \/ KillBrain

BrainSpec == BrainInit /\ [][BrainNext]_brainVars

-----------------------------------------------------------------------------
\* A node that was in an index once put in place is in index.bin ever after,
\* through kills at any step, failing file operations and restarts, except while
\* a flush is between remove and rename.  The index is lost in two ways only: a
\* flush stopped in that gap, or a process that started empty because it could not
\* read it got as far as removing it in a flush; a process that could not read it
\* and does not flush leaves it.  What is put in place after a loss is kept again.
FlushedIsKept ==
    worker.pc = "rename" \/ (flushed # {} => indexBin # NoIndex /\ flushed \subseteq DOMAIN indexBin)

\* The inductive strengthening of FlushedIsKept: a running process has every
\* flushed node in memory, unless it could not read the index and has not removed
\* it, so the file that replaces the index has them too.
BrainJob == [id : Nat, kind : {"embed", "other", "shutdown"},
             items : UNION {[N -> BrainTexts] : N \in SUBSET BrainNodes}]
BrainTypeOK ==
    /\ brain \in [state : {"down", "up", "returning"}, backend : {"none", "real", "hash"}, runs : Nat]
    /\ worker \in [pc : {"recv", "work", "send", "ended"} \cup InFlush, job : BrainJob, ok : BOOLEAN]
    /\ jobQ \in Seq(BrainJob) /\ linesRead \in Nat /\ unread \in BOOLEAN
    /\ DOMAIN vectors \subseteq BrainNodes /\ flushed \subseteq BrainNodes
    /\ indexBin = NoIndex \/ DOMAIN indexBin \subseteq BrainNodes
    /\ indexTmp = NoIndex \/ DOMAIN indexTmp \subseteq BrainNodes

FlushInv ==
    /\ BrainTypeOK /\ FlushedIsKept
    /\ brain.state = "down" => worker.pc = "ended"
    /\ worker.pc \in {"remove", "rename"} => indexTmp = vectors
    /\ brain.state # "down" /\ (~unread \/ worker.pc = "rename") => flushed \subseteq DOMAIN vectors
=============================================================================
