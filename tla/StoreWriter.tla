---------------------------- MODULE StoreWriter ----------------------------
(***************************************************************************)
(* Writes of the store worker: query.rs (one lazily spawned writer task    *)
(* for each shard, behind a bounded channel) and inject.rs (idempotency    *)
(* check, write with a timeout, audit entry, idempotency record).          *)
(*                                                                         *)
(* A caller is one IPC connection: it runs one request at a time.  Its     *)
(* request is an inject with an idempotency key on the data shard, or a    *)
(* batch that touches every shard.  SQL is abstract: a write adds one to   *)
(* applied[key], a batch to batched[shard]; audit_log is auditLog and      *)
(* records.  A statement may fail; a committed one survives a crash of the *)
(* process.                                                                *)
(***************************************************************************)
EXTENDS Naturals, Sequences, FiniteSets, Functions

CONSTANTS
    Callers, Keys,
    ChannelCap,     \* capacity of a writer's channel (256)
    MaxCalls,       \* bound: requests of all callers
    MaxCrashes,     \* bound: ends of the store process
    Faults          \* whether open, read and execute may fail

ASSUME StoreAssumption ==
    /\ IsFiniteSet(Callers)
    /\ ChannelCap \in Nat \ {0} /\ MaxCalls \in Nat /\ MaxCrashes \in Nat
    /\ Faults \in BOOLEAN

Shards == {"data", "audit"}
Kinds == {"write", "audit", "record", "batch"}

VARIABLES
    writer,     \* none, opening, running or dead: the task of each shard
    spawned,    \* writer tasks spawned for a shard by this process
    chan,       \* commands in each writer's channel
    call,       \* what each caller is doing
    calls,      \* requests made by each caller: numbers its reply channels
    applied, auditLog, records, batched,    \* the databases
    acked,      \* history: successes returned for each key (cache hits excluded)
    batchAcks,  \* history: successful batches
    crashes

vars == <<writer, spawned, chan, call, calls, applied, auditLog, records,
          batched, acked, batchAcks, crashes>>

\* pc: check, lookup, slow (write lock wanted), send, reply; reply: what the
\* oneshot holds; left: shards a batch has still to visit.
Resting == [pc |-> "idle", kind |-> "none", key |-> "none", shard |-> "data",
            reply |-> "none", left |-> {}]

NoWriters == [s \in Shards |-> "none"]
NoneSpawned == [s \in Shards |-> 0]
NothingSent == [s \in Shards |-> <<>>]
NobodyCalls == [c \in Callers |-> Resting]

Init ==
    /\ writer = NoWriters /\ spawned = NoneSpawned
    /\ chan = NothingSent /\ call = NobodyCalls
    /\ calls = [c \in Callers |-> 0]
    /\ applied = [k \in Keys |-> 0] /\ auditLog = [k \in Keys |-> 0]
    /\ records = {} /\ batched = [s \in Shards |-> 0]
    /\ acked = [k \in Keys |-> 0] /\ batchAcks = 0 /\ crashes = 0

dbVars == <<applied, auditLog, records, batched>>
ackVars == <<acked, batchAcks>>

-----------------------------------------------------------------------------
(* Callers. *)

Budget == FoldFunction(+, 0, calls) < MaxCalls

Goes(c, next) == call' = [call EXCEPT ![c] = next]

Inject(c, k) ==
    /\ call[c].pc = "idle" /\ Budget
    /\ calls' = [calls EXCEPT ![c] = @ + 1]
    /\ Goes(c, [Resting EXCEPT !.pc = "check", !.kind = "write", !.key = k])
    /\ UNCHANGED <<writer, spawned, chan, dbVars, ackVars, crashes>>

\* by_layer is a HashMap: its shards come in any order.
BatchVisits(c, left) == \E s \in left :
    Goes(c, [Resting EXCEPT !.pc = "lookup", !.kind = "batch", !.shard = s,
                            !.left = left \ {s}])

Batch(c) ==
    /\ call[c].pc = "idle" /\ Budget
    /\ calls' = [calls EXCEPT ![c] = @ + 1]
    /\ BatchVisits(c, Shards)
    /\ UNCHANGED <<writer, spawned, chan, dbVars, ackVars, crashes>>

\* "already applied; return synthetic OK".
CheckHit(c) ==
    /\ call[c].pc = "check" /\ call[c].key \in records
    /\ Goes(c, Resting)
    /\ UNCHANGED <<writer, spawned, chan, calls, dbVars, ackVars, crashes>>

\* A failed query counts as a miss.
CheckMiss(c) ==
    /\ call[c].pc = "check" /\ (call[c].key \notin records \/ Faults)
    /\ Goes(c, [call[c] EXCEPT !.pc = "lookup"])
    /\ UNCHANGED <<writer, spawned, chan, calls, dbVars, ackVars, crashes>>

\* writer(): the map under the read lock, then again under the write lock.
Lookup(c) ==
    /\ call[c].pc = "lookup"
    /\ Goes(c, [call[c] EXCEPT !.pc =
                  IF writer[call[c].shard] = "none" THEN "slow" ELSE "send"])
    /\ UNCHANGED <<writer, spawned, chan, calls, dbVars, ackVars, crashes>>

Spawns(s) ==
    /\ writer' = [writer EXCEPT ![s] = "opening"]
    /\ spawned' = [spawned EXCEPT ![s] = @ + 1]

LookupSlow_NoRecheck(c) ==
    /\ call[c].pc = "slow"
    /\ Spawns(call[c].shard)
    /\ Goes(c, [call[c] EXCEPT !.pc = "send"])
    /\ UNCHANGED <<chan, calls, dbVars, ackVars, crashes>>
LookupSlow(c) ==
    /\ call[c].pc = "slow"
    /\ IF writer[call[c].shard] = "none" THEN Spawns(call[c].shard)
       ELSE UNCHANGED <<writer, spawned>>
    /\ Goes(c, [call[c] EXCEPT !.pc = "send"])
    /\ UNCHANGED <<chan, calls, dbVars, ackVars, crashes>>

\* tx.send(..).await waits for room.
Send(c) == LET s == call[c].shard IN
    /\ call[c].pc = "send" /\ writer[s] # "dead" /\ Len(chan[s]) < ChannelCap
    /\ chan' = [chan EXCEPT ![s] = Append(@, [from |-> c, n |-> calls[c],
                                               kind |-> call[c].kind, key |-> call[c].key])]
    /\ Goes(c, [call[c] EXCEPT !.pc = "reply"])
    /\ UNCHANGED <<writer, spawned, calls, dbVars, ackVars, crashes>>

-----------------------------------------------------------------------------
(* What a caller does with the outcome of one write. *)

NextPhase(c, kind) == [call[c] EXCEPT !.pc = "lookup", !.kind = kind,
                                      !.shard = "audit", !.reply = "none"]

\* `let _ =`: the outcomes of the audit entry and of the record are ignored.
Succeeds(c) ==
    CASE call[c].kind = "write" -> Goes(c, NextPhase(c, "audit")) /\ UNCHANGED ackVars
      [] call[c].kind = "audit" -> Goes(c, NextPhase(c, "record")) /\ UNCHANGED ackVars
      [] call[c].kind = "record" ->
            /\ acked' = [acked EXCEPT ![call[c].key] = @ + 1]
            /\ Goes(c, Resting) /\ UNCHANGED batchAcks
      [] call[c].kind = "batch" /\ call[c].left # {} ->
            BatchVisits(c, call[c].left) /\ UNCHANGED ackVars
      [] OTHER -> Goes(c, Resting) /\ batchAcks' = batchAcks + 1 /\ UNCHANGED acked

Fails_Ignored(c) == Succeeds(c)
Fails(c) ==
    IF call[c].kind \in {"audit", "record"} THEN Succeeds(c)
    ELSE Goes(c, Resting) /\ UNCHANGED ackVars

ReplyOk(c) ==
    /\ call[c].pc = "reply" /\ call[c].reply = "ok"
    /\ Succeeds(c)
    /\ UNCHANGED <<writer, spawned, chan, calls, dbVars, crashes>>

\* An error of the statement, or the writer dropped the reply.
ReplyErr(c) ==
    /\ call[c].pc = "reply" /\ call[c].reply \in {"err", "dropped"}
    /\ Fails(c)
    /\ UNCHANGED <<writer, spawned, chan, calls, dbVars, crashes>>

\* "writer channel closed".
SendClosed(c) ==
    /\ call[c].pc = "send" /\ writer[call[c].shard] = "dead"
    /\ Fails(c)
    /\ UNCHANGED <<writer, spawned, chan, calls, dbVars, crashes>>

\* tokio::time::timeout around the first write only: the future is dropped,
\* the command, if it was sent, is not.
Timeout(c) ==
    /\ call[c].kind = "write" /\ call[c].pc \in {"lookup", "slow", "send", "reply"}
    /\ call[c].reply = "none"
    /\ Goes(c, Resting)
    /\ UNCHANGED <<writer, spawned, chan, calls, dbVars, ackVars, crashes>>

-----------------------------------------------------------------------------
(* Writer tasks. *)

\* A reply reaches a caller that still waits for it.
Waits(c, cmd) == call[c].pc = "reply" /\ cmd.from = c /\ cmd.n = calls[c]
Replies(cmds, what) ==
    call' = [c \in Callers |-> IF \E cmd \in cmds : Waits(c, cmd)
                               THEN [call[c] EXCEPT !.reply = what] ELSE call[c]]

WriterOpens(s) ==
    /\ writer[s] = "opening" /\ writer' = [writer EXCEPT ![s] = "running"]
    /\ UNCHANGED <<spawned, chan, call, calls, dbVars, ackVars, crashes>>

\* The task returns: its receiver and every queued reply channel are dropped,
\* the sender stays in the map.
WriterOpenFails_Holds(s) ==
    /\ Faults /\ writer[s] = "opening" /\ writer' = [writer EXCEPT ![s] = "dead"]
    /\ UNCHANGED <<spawned, chan, call, calls, dbVars, ackVars, crashes>>
WriterOpenFails(s) ==
    /\ Faults /\ writer[s] = "opening" /\ writer' = [writer EXCEPT ![s] = "dead"]
    /\ chan' = [chan EXCEPT ![s] = <<>>]
    /\ Replies({chan[s][i] : i \in DOMAIN chan[s]}, "dropped")
    /\ UNCHANGED <<spawned, calls, dbVars, ackVars, crashes>>

\* One statement, or one transaction, commits.
Commits(s, cmd) ==
    /\ applied' = IF cmd.kind = "write" THEN [applied EXCEPT ![cmd.key] = @ + 1] ELSE applied
    /\ auditLog' = IF cmd.kind = "audit" THEN [auditLog EXCEPT ![cmd.key] = @ + 1] ELSE auditLog
    /\ records' = IF cmd.kind = "record" THEN records \cup {cmd.key} ELSE records
    /\ batched' = IF cmd.kind = "batch" THEN [batched EXCEPT ![s] = @ + 1] ELSE batched

Takes(s) ==
    /\ writer[s] = "running" /\ chan[s] # <<>>
    /\ chan' = [chan EXCEPT ![s] = Tail(@)]

WriterApplies(s) == Takes(s) /\ LET cmd == Head(chan[s]) IN
    /\ Commits(s, cmd) /\ Replies({cmd}, "ok")
    /\ UNCHANGED <<writer, spawned, calls, ackVars, crashes>>

WriterErrs(s) == Takes(s) /\ Faults
    /\ Replies({Head(chan[s])}, "err")
    /\ UNCHANGED <<writer, spawned, calls, dbVars, ackVars, crashes>>

\* Request::Shutdown, or a crash: what is on disk stays.
ProcessEnds ==
    /\ crashes < MaxCrashes /\ crashes' = crashes + 1
    /\ writer' = NoWriters /\ spawned' = NoneSpawned
    /\ chan' = NothingSent /\ call' = NobodyCalls
    /\ UNCHANGED <<calls, dbVars, ackVars>>

-----------------------------------------------------------------------------
CallerStep(c) ==
    \/ CheckHit(c) \/ CheckMiss(c) \/ Lookup(c) \/ LookupSlow(c)
    \/ Send(c) \/ SendClosed(c) \/ ReplyOk(c) \/ ReplyErr(c)
WriterStep(s) ==
    WriterOpens(s) \/ WriterOpenFails(s) \/ WriterApplies(s) \/ WriterErrs(s)

Next ==
    \/ \E c \in Callers : (\E k \in Keys : Inject(c, k)) \/ Batch(c) \/ CallerStep(c) \/ Timeout(c)
    \/ \E s \in Shards : WriterStep(s)
    \/ ProcessEnds

Spec == Init /\ [][Next]_vars

\* A woken task runs, a blocking thread runs, a statement ends; a channel with
\* room serves its waiters in turn.  Nothing obliges a timeout or a crash.
FairSpec ==
    /\ Spec
    /\ \A c \in Callers :
         /\ WF_vars(CheckHit(c) \/ CheckMiss(c) \/ Lookup(c) \/ LookupSlow(c))
         /\ WF_vars(SendClosed(c) \/ ReplyOk(c) \/ ReplyErr(c)) /\ SF_vars(Send(c))
    /\ \A s \in Shards : WF_vars(WriterStep(s))

-----------------------------------------------------------------------------
(* Properties. *)

Command == [from : Callers, n : Nat, kind : Kinds, key : Keys \cup {"none"}]
Call == [pc : {"idle", "check", "lookup", "slow", "send", "reply"},
         kind : Kinds \cup {"none"}, key : Keys \cup {"none"}, shard : Shards,
         reply : {"none", "ok", "err", "dropped"}, left : SUBSET Shards]

\* Every variable has the shape its comment gives it.
TypeOK ==
    /\ writer \in [Shards -> {"none", "opening", "running", "dead"}]
    /\ spawned \in [Shards -> Nat] /\ calls \in [Callers -> Nat] /\ crashes \in Nat
    /\ chan \in [Shards -> Seq(Command)] /\ \A s \in Shards : Len(chan[s]) <= ChannelCap
    /\ call \in [Callers -> Call]
    /\ applied \in [Keys -> Nat] /\ auditLog \in [Keys -> Nat] /\ records \subseteq Keys
    /\ batched \in [Shards -> Nat] /\ acked \in [Keys -> Nat] /\ batchAcks \in Nat

\* The Single-Writer Invariant: whatever callers race for a shard that nobody
\* has written to, one writer task is spawned for it (writer's second look
\* under the write lock), and no command waits on a shard that has none.
SingleWriter ==
    \A s \in Shards :
        /\ spawned[s] = (IF writer[s] = "none" THEN 0 ELSE 1)
        /\ writer[s] \in {"none", "dead"} => chan[s] = <<>>

\* An idempotency record, which turns retries into no-ops, exists only for a
\* key whose write is in the database; likewise no audit entry without a write
\* of its own (the early return of write_with_audit, the order of its steps).
RecordMeansApplied ==
    \A k \in Keys : (k \in records => applied[k] >= 1) /\ auditLog[k] <= applied[k]

\* Every success a caller was given stands for a write of its own in the data
\* shard, and a successful batch has committed in every shard it touches,
\* though other requests, timeouts and crashes come in between.
SuccessMeansApplied ==
    /\ \A k \in Keys : acked[k] <= applied[k]
    /\ \A s \in Shards : batchAcks <= batched[s]

\* Nothing stands for a write that did not happen: neither what the store
\* remembers of a key nor what it told a caller (write_with_audit, write_batch).
NothingWithoutItsWrite == RecordMeansApplied /\ SuccessMeansApplied

-----------------------------------------------------------------------------
(***************************************************************************)
(* The inductive strengthening of SingleWriter and NothingWithoutItsWrite. *)
(* Only a write may outlive its caller's interest (the timeout); every     *)
(* other command in a channel belongs to the caller that still waits for   *)
(* it.  So a caller past its write stands for a write that is applied and  *)
(* has not been audited, acknowledged or counted yet.                      *)
(***************************************************************************)
CallOk(c) ==
    /\ call[c].pc = "idle" <=> call[c].kind = "none"
    /\ call[c].pc = "check" => call[c].kind = "write"
    /\ call[c].pc = "send" => writer[call[c].shard] # "none"
    /\ call[c].reply # "none" => call[c].pc = "reply"
    /\ call[c].kind \in {"write", "audit", "record"} => call[c].key \in Keys
    /\ call[c].shard \notin call[c].left
    /\ call[c].kind # "batch" => call[c].left = {}

CallInv == \A c \in Callers : CallOk(c)

\* c waits for the outcome of cmd, sent to shard s.
Awaits(c, cmd, s) ==
    /\ cmd.from = c /\ cmd.n = calls[c]
    /\ call[c].pc = "reply" /\ call[c].reply = "none" /\ call[c].shard = s
    /\ call[c].kind = cmd.kind /\ call[c].key = cmd.key

\* cmd is a write whose caller timed out, and may be running another request.
Abandoned(cmd) ==
    /\ cmd.kind = "write" /\ cmd.key \in Keys /\ cmd.n <= calls[cmd.from]
    /\ cmd.n = calls[cmd.from] => call[cmd.from].pc = "idle"

CommandInv ==
    /\ \A s \in Shards : \A i \in DOMAIN chan[s] :
        LET cmd == chan[s][i] IN Awaits(cmd.from, cmd, s) \/ Abandoned(cmd)
    /\ \A s, t \in Shards : \A i \in DOMAIN chan[s] : \A j \in DOMAIN chan[t] :
        chan[s][i].from = chan[t][j].from /\ chan[s][i].n = chan[t][j].n => s = t /\ i = j

WroteOk(c, k) == call[c].key = k /\ call[c].kind = "write" /\ call[c].reply = "ok"

\* Callers whose write is applied, and not yet audited or not yet acknowledged.
ToAudit(k) == {c \in Callers :
    \/ WroteOk(c, k)
    \/ call[c].key = k /\ call[c].kind = "audit" /\ call[c].reply = "none"}
ToAck(k) == {c \in Callers :
    \/ WroteOk(c, k)
    \/ call[c].key = k /\ call[c].kind \in {"audit", "record"}}

\* Callers whose running batch has committed in shard s.
Committed(s) == {c \in Callers :
    /\ call[c].kind = "batch" /\ s \notin call[c].left
    /\ call[c].shard = s => call[c].reply = "ok"}

BooksBalance ==
    /\ \A k \in Keys :
        /\ auditLog[k] + Cardinality(ToAudit(k)) <= applied[k]
        /\ acked[k] + Cardinality(ToAck(k)) <= applied[k]
        /\ k \in records => applied[k] >= 1
    /\ \A s \in Shards : batchAcks + Cardinality(Committed(s)) <= batched[s]

StoreInv == TypeOK /\ SingleWriter /\ CallInv /\ CommandInv /\ BooksBalance

\* Every request is answered: a writer that cannot open its shard drops the
\* queued replies, a full channel is drained (write, write_batch).
EveryCallEnds == \A c \in Callers : call[c].pc # "idle" ~> call[c].pc = "idle"

\* Claim of inject.rs ("insert/update/delete with idempotency"; "already
\* applied; return synthetic OK"): a key is applied at most once.
AppliedOncePerKey == \A k \in Keys : applied[k] <= 1
=============================================================================
