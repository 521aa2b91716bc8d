----------------------------- MODULE ScanWorker -----------------------------
(***************************************************************************)
(* The scan-worker process in its supervised mode (scanners/src/main.rs,   *)
(* worker.rs, registry.rs, store_ipc.rs): scan tasks share one receiver of *)
(* jobs behind a mutex, run the applicable scanners, try to tap the result *)
(* for the completion report and send it to the batcher, which groups      *)
(* results and forwards the groups to stdout.                              *)
(*                                                                         *)
(* A file is the set of scanners that apply to it; what a scanner finds in *)
(* a file is one finding, or a panic that the worker isolates, as in a     *)
(* build that unwinds; with panic = "abort" (the release profile) a panic  *)
(* ends the process instead.                                               *)
(***************************************************************************)
EXTENDS Naturals, Sequences, FiniteSets

CONSTANTS
    ScanTasks,    \* the worker tasks (2 * cpus in the code, or what MNEME_SCAN_WORKERS says)
    Scanners,     \* scanner names
    Filters,      \* scanner_filter values a job may carry; {} means all
    ScanChanCap,  \* capacity of every channel of the process (1024 in the code)
    BatchJobs,    \* jobs that force a flush (64 in the code)
    BatchFinds,   \* findings that force a flush (256 in the code)
    MaxScanJobs   \* bound on the lines read from stdin

ASSUME ScanAssumption ==
    /\ {ScanChanCap, BatchJobs, BatchFinds} \subseteq Nat \ {0}
    /\ IsFiniteSet(ScanTasks) /\ "none" \notin ScanTasks
    /\ \A f \in Filters : f \subseteq Scanners

VARIABLES
    jobsRead,   \* number of jobs read from stdin, which are their ids
    pipeOpen,   \* stdin has not reached its end
    jobsCh,     \* the channel of jobs
    holder,     \* the task that holds the receiver's mutex, or "none"
    scan,       \* [task -> what it is doing]
    tapCh,      \* results tapped for the completion report
    resultsCh,  \* results on their way to the batcher
    batch,      \* the batch being filled: a sequence of results
    batcher,    \* "run", "done" or "error"
    batchesCh,  \* full batches on their way to stdout
    scanPrinter, \* "run", "done" or "broken"
    forwarded   \* results written to stdout, in order

scanVars == <<jobsRead, pipeOpen, jobsCh, holder, scan, tapCh, resultsCh, batch,
              batcher, batchesCh, scanPrinter, forwarded>>

Asleep == [pc |-> "lock", res |-> [id |-> 0, found |-> {}, failed |-> {}]]
Ended == [Asleep EXCEPT !.pc = "ended"]

ScanInit ==
    /\ jobsRead = 0 /\ pipeOpen = TRUE /\ jobsCh = <<>> /\ holder = "none"
    /\ scan = [t \in ScanTasks |-> Asleep]
    /\ tapCh = <<>> /\ resultsCh = <<>> /\ batch = <<>> /\ batcher = "run"
    /\ batchesCh = <<>> /\ scanPrinter = "run" /\ forwarded = <<>>

----------------------------------------------------------------------------
(* The stdin task.  A line that is not a job is skipped. *)

\* jobs_tx.send().await.  main keeps a handle of the shared receiver, so the
\* channel stays open, and fills up, when every task has ended.
ReadScanJob(applies, filter) ==
    /\ pipeOpen /\ jobsRead < MaxScanJobs
    /\ Len(jobsCh) < ScanChanCap
    /\ jobsCh' = Append(jobsCh, [id |-> jobsRead + 1, applies |-> applies,
                                 filter |-> filter])
    /\ jobsRead' = jobsRead + 1
    /\ UNCHANGED <<pipeOpen, holder, scan, tapCh, resultsCh, batch, batcher,
                   batchesCh, scanPrinter, forwarded>>

EndOfJobs ==
    /\ pipeOpen
    /\ pipeOpen' = FALSE
    /\ UNCHANGED <<jobsRead, jobsCh, holder, scan, tapCh, resultsCh, batch,
                   batcher, batchesCh, scanPrinter, forwarded>>

----------------------------------------------------------------------------
(* A scan task *)

\* jobs.lock().await: the holder waits for a job with the mutex in its hands.
LockReceiver(t) ==
    /\ scan[t].pc = "lock" /\ holder = "none"
    /\ holder' = t
    /\ scan' = [scan EXCEPT ![t].pc = "recv"]
    /\ UNCHANGED <<jobsRead, pipeOpen, jobsCh, tapCh, resultsCh, batch, batcher,
                   batchesCh, scanPrinter, forwarded>>

\* allows_scanner and applicable_scanners.
ToRun(j) == {s \in j.applies : j.filter = {} \/ s \in j.filter}

\* Receive a job, release the mutex and run its scanners: some panic, the
\* others' findings are kept.
RunOne(t, panics) ==
    /\ scan[t].pc = "recv" /\ jobsCh # <<>>
    /\ panics \subseteq ToRun(Head(jobsCh))
    /\ scan' = [scan EXCEPT ![t] = [pc |-> "tap",
           res |-> [id |-> Head(jobsCh).id, found |-> ToRun(Head(jobsCh)) \ panics,
                    failed |-> panics]]]
    /\ jobsCh' = Tail(jobsCh)
    /\ holder' = "none"
    /\ UNCHANGED <<jobsRead, pipeOpen, tapCh, resultsCh, batch, batcher,
                   batchesCh, scanPrinter, forwarded>>

\* The channel is closed and empty.
EndScanTask(t) ==
    /\ scan[t].pc = "recv" /\ jobsCh = <<>> /\ ~pipeOpen
    /\ scan' = [scan EXCEPT ![t] = Ended]
    /\ holder' = "none"
    /\ UNCHANGED <<jobsRead, pipeOpen, jobsCh, tapCh, resultsCh, batch, batcher,
                   batchesCh, scanPrinter, forwarded>>

\* ipc_tap.try_send: a full channel loses the report, not the result.
Tap(t) ==
    /\ scan[t].pc = "tap"
    /\ tapCh' = IF Len(tapCh) < ScanChanCap THEN Append(tapCh, scan[t].res.id) ELSE tapCh
    /\ scan' = [scan EXCEPT ![t].pc = "send"]
    /\ UNCHANGED <<jobsRead, pipeOpen, jobsCh, holder, resultsCh, batch, batcher,
                   batchesCh, scanPrinter, forwarded>>

SendScan(t) ==
    /\ scan[t].pc = "send"
    /\ \/ /\ batcher = "run" /\ Len(resultsCh) < ScanChanCap
          /\ resultsCh' = Append(resultsCh, scan[t].res)
          /\ scan' = [scan EXCEPT ![t] = Asleep]
       \/ /\ batcher = "error"
          /\ scan' = [scan EXCEPT ![t] = Ended]
          /\ UNCHANGED resultsCh
    /\ UNCHANGED <<jobsRead, pipeOpen, jobsCh, holder, tapCh, batch, batcher,
                   batchesCh, scanPrinter, forwarded>>

\* The tap's consumer: report_complete, whose failure is only logged.
TellSupervisor ==
    /\ tapCh # <<>> /\ tapCh' = Tail(tapCh)
    /\ UNCHANGED <<jobsRead, pipeOpen, jobsCh, holder, scan, resultsCh, batch,
                   batcher, batchesCh, scanPrinter, forwarded>>

----------------------------------------------------------------------------
(* The batcher and the stdout task *)

\* Number of findings in a batch.
FindingsIn(b) ==
    Cardinality({p \in (DOMAIN b) \X Scanners : p[2] \in b[p[1]].found})

Full(b) == FindingsIn(b) >= BatchFinds \/ Len(b) >= BatchJobs

\* flush: hand the batch over and start an empty one, or end with an error
\* when the stdout task is gone.
Flush(b, then) ==
    \/ /\ scanPrinter = "run" /\ Len(batchesCh) < ScanChanCap
       /\ batchesCh' = Append(batchesCh, b)
       /\ batch' = <<>> /\ batcher' = then
    \/ /\ scanPrinter = "broken"
       /\ batcher' = "error" /\ batch' = <<>>
       /\ UNCHANGED batchesCh

TakeResult ==
    /\ batcher = "run" /\ resultsCh # <<>> /\ ~Full(batch)
    /\ batch' = Append(batch, Head(resultsCh))
    /\ resultsCh' = Tail(resultsCh)
    /\ UNCHANGED <<jobsRead, pipeOpen, jobsCh, holder, scan, tapCh, batcher,
                   batchesCh, scanPrinter, forwarded>>

\* A full batch at once, any other when its deadline passes.
FlushBatch ==
    /\ batcher = "run" /\ batch # <<>>
    /\ Flush(batch, "run")
    /\ UNCHANGED <<jobsRead, pipeOpen, jobsCh, holder, scan, tapCh, resultsCh,
                   scanPrinter, forwarded>>

ResultsClosed == resultsCh = <<>> /\ \A t \in ScanTasks : scan[t].pc = "ended"

EndBatcher_Unflushed ==
    /\ batcher = "run" /\ ResultsClosed
    /\ batcher' = "done" /\ batch' = <<>>
    /\ UNCHANGED <<jobsRead, pipeOpen, jobsCh, holder, scan, tapCh, resultsCh,
                   batchesCh, scanPrinter, forwarded>>

\* The result channel closed: flush what is left and return.
EndBatcher ==
    /\ batcher = "run" /\ ResultsClosed
    /\ IF batch # <<>> THEN Flush(batch, "done")
         ELSE batcher' = "done" /\ UNCHANGED <<batch, batchesCh>>
    /\ UNCHANGED <<jobsRead, pipeOpen, jobsCh, holder, scan, tapCh, resultsCh,
                   scanPrinter, forwarded>>

PrintBatch ==
    /\ scanPrinter = "run" /\ batchesCh # <<>>
    /\ \/ /\ forwarded' = forwarded \o Head(batchesCh)
          /\ batchesCh' = Tail(batchesCh)
          /\ UNCHANGED scanPrinter
       \/ /\ scanPrinter' = "broken" /\ batchesCh' = <<>>
          /\ UNCHANGED forwarded
    /\ UNCHANGED <<jobsRead, pipeOpen, jobsCh, holder, scan, tapCh, resultsCh,
                   batch, batcher>>

EndPrinter ==
    /\ scanPrinter = "run" /\ batchesCh = <<>> /\ batcher \in {"done", "error"}
    /\ scanPrinter' = "done"
    /\ UNCHANGED <<jobsRead, pipeOpen, jobsCh, holder, scan, tapCh, resultsCh,
                   batch, batcher, batchesCh, forwarded>>

----------------------------------------------------------------------------
ScanTaskStep(t) ==
    \/ LockReceiver(t)
    \/ \E panics \in SUBSET Scanners : RunOne(t, panics)
    \/ EndScanTask(t) \/ Tap(t) \/ SendScan(t)

ScannerSteps ==
    \/ \E t \in ScanTasks : ScanTaskStep(t)
    \/ TellSupervisor
    \/ TakeResult \/ FlushBatch \/ EndBatcher \/ PrintBatch \/ EndPrinter

ScanNext ==
    \/ \E applies \in SUBSET Scanners, filter \in Filters : ReadScanJob(applies, filter)
    \/ EndOfJobs
    \/ ScannerSteps

ScanSpec == ScanInit /\ [][ScanNext]_scanVars

----------------------------------------------------------------------------
(* Properties *)

\* What each part waits for when it cannot go on.
TaskWaits(t) ==
    \/ scan[t].pc = "lock" /\ holder # "none"
    \/ scan[t].pc = "recv" /\ jobsCh = <<>> /\ pipeOpen
    \/ scan[t].pc = "send" /\ (batcher = "run" => Len(resultsCh) >= ScanChanCap) /\ batcher # "error"
    \/ scan[t].pc = "ended"
FlushWaits == scanPrinter = "done" \/ (scanPrinter = "run" /\ Len(batchesCh) >= ScanChanCap)
BatcherWaits ==
    batcher = "run" =>
        /\ resultsCh # <<>> => Full(batch)
        /\ batch # <<>> => FlushWaits
        /\ batch = <<>> => ~ResultsClosed
PrinterWaits == scanPrinter = "run" => batchesCh = <<>> /\ batcher = "run"

\* Nothing in the process can go on: ~ENABLED ScannerSteps, spelled out.
ScanAtRest == tapCh = <<>> /\ (\A t \in ScanTasks : TaskWaits(t)) /\ BatcherWaits /\ PrinterWaits

\* Where the job with an id is in a sequence of jobs or results.
PlacesIn(s, id) == {i \in DOMAIN s : s[i].id = id}

\* When the pipeline has come to rest, every job that was read has gone to
\* stdout in exactly one batch: through the shared receiver, the flushes by
\* size, by deadline and by close, and the isolation of panics, no result is
\* lost, repeated or stuck in a half-filled batch, and no task, channel or flush
\* waits for another in a circle.  Only a broken stdout excuses a loss, or a
\* MNEME_SCAN_WORKERS of 0, with which no job is ever taken.
RestMeansForwardedOnce ==
    ScanAtRest /\ scanPrinter # "broken" /\ ScanTasks # {} =>
        \A id \in 1 .. jobsRead : Cardinality(PlacesIn(forwarded, id)) = 1

\* The inductive strengthening.  A job that was read is in one place of the
\* process or on stdout, and no other id is anywhere.
PlacesInAll(bs, id) == UNION {{i} \X PlacesIn(bs[i], id) : i \in DOMAIN bs}
AtWork(id) == {t \in ScanTasks : scan[t].pc \in {"tap", "send"} /\ scan[t].res.id = id}
CopiesOf(id) ==
    Cardinality(PlacesIn(jobsCh, id)) + Cardinality(AtWork(id))
    + Cardinality(PlacesIn(resultsCh, id)) + Cardinality(PlacesIn(batch, id))
    + Cardinality(PlacesInAll(batchesCh, id)) + Cardinality(PlacesIn(forwarded, id))

ScanJob == [id : Nat, applies : SUBSET Scanners, filter : Filters]
ScanResult == [id : Nat, found : SUBSET Scanners, failed : SUBSET Scanners]
ScanTypeOK ==
    /\ jobsRead \in Nat /\ pipeOpen \in BOOLEAN /\ holder \in ScanTasks \cup {"none"}
    /\ jobsCh \in Seq(ScanJob)
    /\ scan \in [ScanTasks -> [pc : {"lock", "recv", "tap", "send", "ended"}, res : ScanResult]]
    /\ resultsCh \in Seq(ScanResult) /\ batch \in Seq(ScanResult)
    /\ batchesCh \in Seq(Seq(ScanResult)) /\ forwarded \in Seq(ScanResult)
    /\ batcher \in {"run", "done", "error"} /\ scanPrinter \in {"run", "done", "broken"}

ScanInv ==
    /\ ScanTypeOK
    /\ \A t \in ScanTasks : scan[t].pc = "recv" <=> holder = t
    /\ scanPrinter # "broken" =>
         /\ \A id \in Nat \ {0} : CopiesOf(id) = IF id <= jobsRead THEN 1 ELSE 0
         /\ batcher # "error"
         /\ \A t \in ScanTasks : scan[t].pc = "ended" => ~pipeOpen /\ jobsCh = <<>>
    /\ batcher = "done" => ResultsClosed /\ batch = <<>>
    /\ scanPrinter = "done" => batcher # "run" /\ batchesCh = <<>>
=============================================================================
