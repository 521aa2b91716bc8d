------------------------- MODULE StoreWriterProofs -------------------------
(***************************************************************************)
(* TLAPS proofs about StoreWriter, for any finite set of callers, any keys *)
(* and channel capacity, any number of requests and crashes, with or       *)
(* without failing statements.                                             *)
(***************************************************************************)
EXTENDS StoreWriter, FiniteSetTheorems, TLAPS

\* Counting callers: a set that lost one has one less, a set that gained at most
\* one has at most one more.
LEMMA CountCallers ==
    ASSUME NEW S \in SUBSET Callers, NEW T \in SUBSET Callers, NEW c
    PROVE  /\ Cardinality(S) \in Nat /\ Cardinality(T) \in Nat
           /\ T \subseteq S => Cardinality(T) <= Cardinality(S)
           /\ T \subseteq S \cup {c} => Cardinality(T) <= Cardinality(S) + 1
           /\ c \in S /\ T \subseteq S \ {c} => Cardinality(T) + 1 <= Cardinality(S)
           /\ c \in S => Cardinality(S) >= 1
<1>1. IsFiniteSet(S) /\ IsFiniteSet(T)
    BY StoreAssumption, FS_Subset
<1>2. Cardinality(S) \in Nat /\ Cardinality(T) \in Nat
    BY <1>1, FS_CardinalityType
<1>3. T \subseteq S => Cardinality(T) <= Cardinality(S)
    BY <1>1, FS_Subset
<1>4. ASSUME T \subseteq S \cup {c} PROVE Cardinality(T) <= Cardinality(S) + 1
  <2>1. IsFiniteSet(S \cup {c}) /\ Cardinality(S \cup {c}) =
            IF c \in S THEN Cardinality(S) ELSE Cardinality(S) + 1
      BY <1>1, FS_AddElement
  <2>2. Cardinality(T) <= Cardinality(S \cup {c})
      BY <1>4, <2>1, FS_Subset
  <2> QED
      BY <1>2, <2>1, <2>2
<1>5. ASSUME c \in S
      PROVE  /\ T \subseteq S \ {c} => Cardinality(T) + 1 <= Cardinality(S)
             /\ Cardinality(S) >= 1
  <2>1. IsFiniteSet(S \ {c}) /\ Cardinality(S \ {c}) = Cardinality(S) - 1
      BY <1>1, <1>5, FS_RemoveElement
  <2>2. Cardinality(S \ {c}) \in Nat
      BY <2>1, FS_CardinalityType
  <2>3. T \subseteq S \ {c} => Cardinality(T) <= Cardinality(S \ {c})
      BY <2>1, FS_Subset
  <2> QED
      BY <1>2, <2>1, <2>2, <2>3
<1> QED
    BY <1>2, <1>3, <1>4, <1>5

-----------------------------------------------------------------------------
\* A step of one caller leaves the other callers where they are.
LEMMA CallerMoves ==
    ASSUME TypeOK, NEW c \in Callers, NEW next \in Call, Goes(c, next)
    PROVE  /\ call' \in [Callers -> Call] /\ call'[c] = next
           /\ \A d \in Callers : d # c => call'[d] = call[d]
    BY DEF TypeOK, Goes

\* Another program counter, all else as it was.
LEMMA CallerAdvances ==
    ASSUME TypeOK, NEW c \in Callers,
           NEW pc \in {"idle", "check", "lookup", "slow", "send", "reply"},
           Goes(c, [call[c] EXCEPT !.pc = pc])
    PROVE  /\ call' \in [Callers -> Call]
           /\ \A d \in Callers : d # c => call'[d] = call[d]
           /\ call'[c].pc = pc /\ call'[c].kind = call[c].kind /\ call'[c].key = call[c].key
           /\ call'[c].shard = call[c].shard /\ call'[c].reply = call[c].reply
           /\ call'[c].left = call[c].left
<1>1. call[c] \in Call
    BY DEF TypeOK
<1>2. LET n == [call[c] EXCEPT !.pc = pc]
      IN  /\ n \in Call /\ n.pc = pc /\ n.kind = call[c].kind /\ n.key = call[c].key
          /\ n.shard = call[c].shard /\ n.reply = call[c].reply /\ n.left = call[c].left
    BY <1>1 DEF Call
<1> QED
    BY <1>2, CallerMoves

\* A request ends.
LEMMA CallerRests ==
    ASSUME TypeOK, NEW c \in Callers, Goes(c, Resting)
    PROVE  /\ call' \in [Callers -> Call]
           /\ \A d \in Callers : d # c => call'[d] = call[d]
           /\ call'[c].pc = "idle" /\ call'[c].kind = "none" /\ call'[c].reply = "none"
           /\ call'[c].left = {}
<1>1. Resting \in Call /\ Resting.pc = "idle" /\ Resting.kind = "none"
      /\ Resting.reply = "none" /\ Resting.left = {}
    BY DEF Resting, Call, Shards
<1> QED
    BY <1>1, CallerMoves

\* A batch turns to the next shard.
LEMMA CallerVisits ==
    ASSUME TypeOK, NEW c \in Callers, NEW left \in SUBSET Shards, BatchVisits(c, left)
    PROVE  /\ call' \in [Callers -> Call]
           /\ \A d \in Callers : d # c => call'[d] = call[d]
           /\ call'[c].pc = "lookup" /\ call'[c].kind = "batch" /\ call'[c].reply = "none"
           /\ call'[c].shard \in left /\ call'[c].left = left \ {call'[c].shard}
<1>1. PICK s \in left : Goes(c, [Resting EXCEPT !.pc = "lookup", !.kind = "batch", !.shard = s,
                                                !.left = left \ {s}])
    BY DEF BatchVisits
<1>2. LET n == [Resting EXCEPT !.pc = "lookup", !.kind = "batch", !.shard = s,
                               !.left = left \ {s}]
      IN  n \in Call /\ n.pc = "lookup" /\ n.kind = "batch" /\ n.reply = "none"
          /\ n.shard = s /\ n.left = left \ {s}
    BY DEF Resting, Call, Shards, Kinds
<1> QED
    BY <1>1, <1>2, CallerMoves

\* write_with_audit turns to its audit entry or to its idempotency record.
LEMMA CallerContinues ==
    ASSUME TypeOK, NEW c \in Callers, NEW kind \in Kinds, Goes(c, NextPhase(c, kind))
    PROVE  /\ call' \in [Callers -> Call]
           /\ \A d \in Callers : d # c => call'[d] = call[d]
           /\ call'[c].pc = "lookup" /\ call'[c].kind = kind /\ call'[c].key = call[c].key
           /\ call'[c].shard = "audit" /\ call'[c].reply = "none" /\ call'[c].left = call[c].left
<1>1. call[c] \in Call
    BY DEF TypeOK
<1>2. LET n == NextPhase(c, kind)
      IN  /\ n \in Call /\ n.pc = "lookup" /\ n.kind = kind /\ n.key = call[c].key
          /\ n.shard = "audit" /\ n.reply = "none" /\ n.left = call[c].left
    BY <1>1 DEF Call, NextPhase, Shards
<1> QED
    BY <1>2, CallerMoves

\* A reply reaches the callers that wait for one of the commands.
LEMMA ReplyFacts ==
    ASSUME TypeOK, NEW cmds, NEW what \in {"ok", "err", "dropped"}, Replies(cmds, what)
    PROVE  /\ call' \in [Callers -> Call]
           /\ \A c \in Callers :
                /\ call'[c].pc = call[c].pc /\ call'[c].kind = call[c].kind
                /\ call'[c].key = call[c].key /\ call'[c].shard = call[c].shard
                /\ call'[c].left = call[c].left
                /\ (\E cmd \in cmds : Waits(c, cmd)) => call'[c].reply = what
                /\ ~(\E cmd \in cmds : Waits(c, cmd)) => call'[c] = call[c]
<1>1. ASSUME NEW c \in Callers
      PROVE  LET n == [call[c] EXCEPT !.reply = what]
             IN  /\ n \in Call /\ n.pc = call[c].pc /\ n.kind = call[c].kind /\ n.key = call[c].key
                 /\ n.shard = call[c].shard /\ n.reply = what /\ n.left = call[c].left
                 /\ call[c] \in Call
    BY DEF TypeOK, Call
<1>2. \A c \in Callers : call'[c] = IF \E cmd \in cmds : Waits(c, cmd)
                                    THEN [call[c] EXCEPT !.reply = what] ELSE call[c]
    BY DEF Replies
<1>3. call' \in [Callers -> Call]
    BY <1>1 DEF Replies
<1> QED
    BY <1>1, <1>2, <1>3

-----------------------------------------------------------------------------
\* A step of caller c that leaves c in order and takes no writer away.
LEMMA CallFrame ==
    ASSUME TypeOK, CallInv, NEW c \in Callers, CallOk(c)',
           \A d \in Callers : d # c => call'[d] = call[d],
           \A s \in Shards : writer'[s] = "none" => writer[s] = "none"
    PROVE  CallInv'
<1> SUFFICES ASSUME NEW d \in Callers, d # c PROVE CallOk(d)'
    BY DEF CallInv
<1>1. call'[d] = call[d] /\ CallOk(d) /\ call[d].shard \in Shards
    BY DEF CallInv, TypeOK, Call
<1> QED
    BY <1>1 DEF CallOk

\* A step of caller c keeps the commands in their channels accounted for: c had
\* none in flight, or it abandons a write, or it starts a new request.
LEMMA CommandsKept ==
    ASSUME TypeOK, CommandInv, NEW c \in Callers, chan' = chan,
           \A d \in Callers : d # c => call'[d] = call[d] /\ calls'[d] = calls[d],
           \/ call[c].pc = "idle" /\ calls'[c] = calls[c] + 1
           \/ /\ call[c].pc # "idle" /\ calls'[c] = calls[c]
              /\ \/ call[c].pc # "reply" \/ call[c].reply # "none"
                 \/ call'[c].pc = "idle" /\ call[c].kind = "write" /\ call[c].key \in Keys
    PROVE  CommandInv'
<1> SUFFICES ASSUME NEW s \in Shards, NEW i \in DOMAIN chan[s]
             PROVE  LET cmd == chan[s][i] IN Awaits(cmd.from, cmd, s)' \/ Abandoned(cmd)'
    BY DEF CommandInv
<1> DEFINE cmd == chan[s][i]
<1>1. cmd' = cmd /\ cmd.from \in Callers /\ cmd.n \in Nat /\ calls[c] \in Nat
  <2>1. chan[s] \in Seq(Command) /\ calls[c] \in Nat
      BY DEF TypeOK
  <2>2. cmd \in Command
      BY <2>1
  <2> QED
      BY <2>1, <2>2 DEF Command
<1>2. Awaits(cmd.from, cmd, s) \/ Abandoned(cmd)
    BY DEF CommandInv
<1> HIDE DEF cmd
<1>3. CASE cmd.from # c
    BY <1>1, <1>2, <1>3 DEF Awaits, Abandoned, cmd
<1>4. CASE cmd.from = c
    BY <1>1, <1>2, <1>4 DEF Awaits, Abandoned, cmd
<1> QED
    BY <1>3, <1>4

\* Fewer callers stand for a write than before, and the databases are as they
\* were.
LEMMA BooksFrame ==
    ASSUME TypeOK, BooksBalance,
           UNCHANGED <<applied, auditLog, records, batched, acked, batchAcks>>,
           \A k \in Keys : ToAudit(k)' \subseteq ToAudit(k) /\ ToAck(k)' \subseteq ToAck(k),
           \A s \in Shards : Committed(s)' \subseteq Committed(s)
    PROVE  BooksBalance'
<1>1. ASSUME NEW k \in Keys
      PROVE  /\ auditLog[k] + Cardinality(ToAudit(k)') <= applied[k]
             /\ acked[k] + Cardinality(ToAck(k)') <= applied[k]
             /\ k \in records => applied[k] >= 1
  <2>1. ToAudit(k) \in SUBSET Callers /\ ToAudit(k)' \in SUBSET Callers
        /\ ToAck(k) \in SUBSET Callers /\ ToAck(k)' \in SUBSET Callers
      BY DEF ToAudit, ToAck
  <2>2. /\ Cardinality(ToAudit(k)) \in Nat /\ Cardinality(ToAudit(k)') \in Nat
        /\ Cardinality(ToAudit(k)') <= Cardinality(ToAudit(k))
      BY <2>1, CountCallers
  <2>3. /\ Cardinality(ToAck(k)) \in Nat /\ Cardinality(ToAck(k)') \in Nat
        /\ Cardinality(ToAck(k)') <= Cardinality(ToAck(k))
      BY <2>1, CountCallers
  <2>4. auditLog[k] \in Nat /\ acked[k] \in Nat /\ applied[k] \in Nat
      BY DEF TypeOK
  <2> QED
      BY <2>2, <2>3, <2>4 DEF BooksBalance
<1>2. ASSUME NEW s \in Shards PROVE batchAcks + Cardinality(Committed(s)') <= batched[s]
  <2>1. Committed(s) \in SUBSET Callers /\ Committed(s)' \in SUBSET Callers
      BY DEF Committed
  <2>2. /\ Cardinality(Committed(s)) \in Nat /\ Cardinality(Committed(s)') \in Nat
        /\ Cardinality(Committed(s)') <= Cardinality(Committed(s))
      BY <2>1, CountCallers
  <2>3. batchAcks \in Nat /\ batched[s] \in Nat
      BY DEF TypeOK
  <2> QED
      BY <2>2, <2>3 DEF BooksBalance
<1> QED
    BY <1>1, <1>2 DEF BooksBalance

\* A step of caller c after which c stands for no write it did not stand for.
LEMMA BooksKept ==
    ASSUME TypeOK, BooksBalance, NEW c \in Callers,
           UNCHANGED <<applied, auditLog, records, batched, acked, batchAcks>>,
           \A d \in Callers : d # c => call'[d] = call[d],
           \A k \in Keys : /\ c \in ToAudit(k)' => c \in ToAudit(k)
                           /\ c \in ToAck(k)' => c \in ToAck(k),
           \A s \in Shards : c \in Committed(s)' => c \in Committed(s)
    PROVE  BooksBalance'
<1>1. ASSUME NEW k \in Keys
      PROVE  ToAudit(k)' \subseteq ToAudit(k) /\ ToAck(k)' \subseteq ToAck(k)
    BY DEF ToAudit, ToAck, WroteOk
<1>2. ASSUME NEW s \in Shards PROVE Committed(s)' \subseteq Committed(s)
    BY DEF Committed
<1> QED
    BY <1>1, <1>2, BooksFrame

\* The invariant holds when the store process starts on empty databases.
LEMMA StoreInit == Init => StoreInv
<1> USE StoreAssumption
<1> SUFFICES ASSUME Init PROVE StoreInv
    OBVIOUS
<1>1. Resting \in Call /\ Resting.pc = "idle" /\ Resting.kind = "none"
      /\ Resting.reply = "none" /\ Resting.left = {}
    BY DEF Resting, Call, Shards
<1>2. \A c \in Callers : call[c] = Resting
    BY DEF Init, NobodyCalls
<1>3. TypeOK
  <2>1. chan \in [Shards -> Seq(Command)] /\ \A s \in Shards : Len(chan[s]) = 0
      BY DEF Init, NothingSent
  <2>2. call \in [Callers -> Call]
      BY <1>1 DEF Init, NobodyCalls
  <2> QED
      BY <2>1, <2>2 DEF Init, TypeOK, NoWriters, NoneSpawned
<1>4. SingleWriter
    BY DEF Init, SingleWriter, NoWriters, NoneSpawned, NothingSent
<1>5. CallInv
    BY <1>1, <1>2 DEF CallInv, CallOk
<1>6. CommandInv
    BY DEF Init, CommandInv, NothingSent
<1>7. BooksBalance
  <2>1. \A k \in Keys : ToAudit(k) = {} /\ ToAck(k) = {}
      BY <1>1, <1>2 DEF ToAudit, ToAck, WroteOk
  <2>2. \A s \in Shards : Committed(s) = {}
      BY <1>1, <1>2 DEF Committed
  <2> QED
      BY <2>1, <2>2, FS_EmptySet DEF Init, BooksBalance
<1> QED
    BY <1>3, <1>4, <1>5, <1>6, <1>7 DEF StoreInv

-----------------------------------------------------------------------------
\* What a caller does with a success, one disjunct for each kind of write.
LEMMA SuccessCases ==
    ASSUME TypeOK, NEW c \in Callers, call[c].kind # "none", Succeeds(c)
    PROVE  \/ call[c].kind = "write" /\ Goes(c, NextPhase(c, "audit")) /\ UNCHANGED ackVars
           \/ call[c].kind = "audit" /\ Goes(c, NextPhase(c, "record")) /\ UNCHANGED ackVars
           \/ /\ call[c].kind = "record" /\ Goes(c, Resting) /\ UNCHANGED batchAcks
              /\ acked' = [acked EXCEPT ![call[c].key] = @ + 1]
           \/ /\ call[c].kind = "batch" /\ call[c].left # {}
              /\ BatchVisits(c, call[c].left) /\ UNCHANGED ackVars
           \/ /\ call[c].kind = "batch" /\ call[c].left = {} /\ Goes(c, Resting)
              /\ batchAcks' = batchAcks + 1 /\ UNCHANGED acked
<1>1. call[c].kind \in Kinds
    BY DEF TypeOK, Call
<1> QED
    BY <1>1 DEF Succeeds, Kinds

\* A caller that got the outcome of its write moves on in order: an outcome that
\* counts was given for a write that is in the database.
LEMMA OutcomeKeeps ==
    ASSUME StoreInv, NEW c \in Callers, call[c].pc \in {"send", "reply"},
           call[c].pc = "reply" => call[c].reply # "none",
           \/ Succeeds(c) /\ call[c].pc = "reply" /\ call[c].reply = "ok"
           \/ Fails(c),
           UNCHANGED <<writer, spawned, chan, calls, dbVars, crashes>>
    PROVE  StoreInv'
<1> USE StoreAssumption
<1>t. TypeOK /\ SingleWriter /\ CallInv /\ CallOk(c) /\ CommandInv /\ BooksBalance
      /\ call[c].kind \in Kinds
    BY DEF StoreInv, CallInv, CallOk, TypeOK, Call
<1>u. writer' = writer /\ spawned' = spawned /\ chan' = chan /\ calls' = calls
      /\ crashes' = crashes /\ applied' = applied /\ auditLog' = auditLog
      /\ records' = records /\ batched' = batched
    BY DEF dbVars
<1>s. SingleWriter'
    BY <1>t, <1>u DEF SingleWriter
<1>q. ASSUME call' \in [Callers -> Call], \A d \in Callers : d # c => call'[d] = call[d],
             acked' \in [Keys -> Nat], batchAcks' \in Nat, CallOk(c)', BooksBalance'
      PROVE  StoreInv'
  <2>1. TypeOK'
      BY <1>t, <1>u, <1>q DEF TypeOK
  <2>2. CallInv'
      BY <1>t, <1>u, <1>q, CallFrame
  <2>3. call[c].pc # "idle" /\ (call[c].pc # "reply" \/ call[c].reply # "none")
      OBVIOUS
  <2>4. CommandInv'
      BY <1>t, <1>u, <1>q, <2>3, CommandsKept
  <2> QED
      BY <1>s, <1>q, <2>1, <2>2, <2>4 DEF StoreInv
<1>r. ASSUME Goes(c, Resting), UNCHANGED ackVars PROVE StoreInv'
  <2>1. /\ call' \in [Callers -> Call] /\ \A d \in Callers : d # c => call'[d] = call[d]
        /\ call'[c].pc = "idle" /\ call'[c].kind = "none" /\ call'[c].reply = "none"
        /\ call'[c].left = {}
      BY <1>t, <1>r, CallerRests
  <2>2. BooksBalance'
    <3>1. \A k \in Keys : c \notin ToAudit(k)' /\ c \notin ToAck(k)'
        BY <2>1 DEF ToAudit, ToAck, WroteOk
    <3>2. \A s \in Shards : c \notin Committed(s)'
        BY <2>1 DEF Committed
    <3> QED
        BY <1>t, <1>u, <1>r, <2>1, <3>1, <3>2, BooksKept DEF ackVars
  <2>3. CallOk(c)'
      BY <2>1 DEF CallOk
  <2> QED
      BY <1>t, <1>r, <1>q, <2>1, <2>2, <2>3 DEF ackVars, TypeOK
<1>1. ASSUME call[c].kind = "write", call[c].reply = "ok",
             Goes(c, NextPhase(c, "audit")), UNCHANGED ackVars
      PROVE  StoreInv'
  <2>1. /\ call' \in [Callers -> Call] /\ \A d \in Callers : d # c => call'[d] = call[d]
        /\ call'[c].pc = "lookup" /\ call'[c].kind = "audit" /\ call'[c].key = call[c].key
        /\ call'[c].shard = "audit" /\ call'[c].reply = "none" /\ call'[c].left = call[c].left
      BY <1>t, <1>1, CallerContinues DEF Kinds
  <2>2. BooksBalance'
    <3>1. \A k \in Keys : (c \in ToAudit(k)' => c \in ToAudit(k)) /\ (c \in ToAck(k)' => c \in ToAck(k))
        BY <1>1, <2>1 DEF ToAudit, ToAck, WroteOk
    <3>2. \A s \in Shards : c \notin Committed(s)'
        BY <2>1 DEF Committed
    <3> QED
        BY <1>t, <1>u, <1>1, <2>1, <3>1, <3>2, BooksKept DEF ackVars
  <2>3. CallOk(c)'
      BY <1>t, <1>1, <2>1 DEF CallOk
  <2> QED
      BY <1>t, <1>1, <1>q, <2>1, <2>2, <2>3 DEF ackVars, TypeOK
<1>2. ASSUME call[c].kind = "audit", Goes(c, NextPhase(c, "record")), UNCHANGED ackVars
      PROVE  StoreInv'
  <2>1. /\ call' \in [Callers -> Call] /\ \A d \in Callers : d # c => call'[d] = call[d]
        /\ call'[c].pc = "lookup" /\ call'[c].kind = "record" /\ call'[c].key = call[c].key
        /\ call'[c].shard = "audit" /\ call'[c].reply = "none" /\ call'[c].left = call[c].left
      BY <1>t, <1>2, CallerContinues DEF Kinds
  <2>2. BooksBalance'
    <3>1. \A k \in Keys : c \notin ToAudit(k)' /\ (c \in ToAck(k)' => c \in ToAck(k))
        BY <1>2, <2>1 DEF ToAudit, ToAck, WroteOk
    <3>2. \A s \in Shards : c \notin Committed(s)'
        BY <2>1 DEF Committed
    <3> QED
        BY <1>t, <1>u, <1>2, <2>1, <3>1, <3>2, BooksKept DEF ackVars
  <2>3. CallOk(c)'
      BY <1>t, <1>2, <2>1 DEF CallOk
  <2> QED
      BY <1>t, <1>2, <1>q, <2>1, <2>2, <2>3 DEF ackVars, TypeOK
<1>3. ASSUME call[c].kind = "record", Goes(c, Resting), UNCHANGED batchAcks,
             acked' = [acked EXCEPT ![call[c].key] = @ + 1]
      PROVE  StoreInv'
  <2>1. /\ call' \in [Callers -> Call] /\ \A d \in Callers : d # c => call'[d] = call[d]
        /\ call'[c].pc = "idle" /\ call'[c].kind = "none" /\ call'[c].reply = "none"
        /\ call'[c].left = {}
      BY <1>t, <1>3, CallerRests
  <2>2. call[c].key \in Keys /\ acked' \in [Keys -> Nat] /\ acked'[call[c].key] = acked[call[c].key] + 1
        /\ \A k \in Keys : k # call[c].key => acked'[k] = acked[k]
      BY <1>t, <1>3 DEF CallOk, TypeOK
  <2>3. BooksBalance'
    <3>1. ASSUME NEW k \in Keys
          PROVE  /\ auditLog[k] + Cardinality(ToAudit(k)') <= applied[k]
                 /\ acked'[k] + Cardinality(ToAck(k)') <= applied[k]
      <4>1. ToAudit(k) \in SUBSET Callers /\ ToAudit(k)' \in SUBSET Callers
            /\ ToAck(k) \in SUBSET Callers /\ ToAck(k)' \in SUBSET Callers
          BY DEF ToAudit, ToAck
      <4>2. ToAudit(k)' \subseteq ToAudit(k) /\ ToAck(k)' \subseteq ToAck(k) \ {c}
          BY <2>1 DEF ToAudit, ToAck, WroteOk
      <4>3. k = call[c].key => c \in ToAck(k)
          BY <1>3 DEF ToAck
      <4>4. /\ Cardinality(ToAudit(k)) \in Nat /\ Cardinality(ToAudit(k)') \in Nat
            /\ Cardinality(ToAudit(k)') <= Cardinality(ToAudit(k))
          BY <4>1, <4>2, CountCallers
      <4>5. /\ Cardinality(ToAck(k)) \in Nat /\ Cardinality(ToAck(k)') \in Nat
            /\ Cardinality(ToAck(k)') <= Cardinality(ToAck(k))
            /\ k = call[c].key => Cardinality(ToAck(k)') + 1 <= Cardinality(ToAck(k))
          BY <4>1, <4>2, <4>3, CountCallers
      <4>6. auditLog[k] \in Nat /\ acked[k] \in Nat /\ applied[k] \in Nat
          BY <1>t DEF TypeOK
      <4>7. auditLog[k] + Cardinality(ToAudit(k)) <= applied[k]
            /\ acked[k] + Cardinality(ToAck(k)) <= applied[k]
          BY <1>t DEF BooksBalance
      <4> QED
          BY <2>2, <4>4, <4>5, <4>6, <4>7
    <3>2. ASSUME NEW s \in Shards PROVE batchAcks + Cardinality(Committed(s)') <= batched[s]
      <4>1. Committed(s) \in SUBSET Callers /\ Committed(s)' \in SUBSET Callers
            /\ Committed(s)' \subseteq Committed(s)
          BY <2>1 DEF Committed
      <4>2. /\ Cardinality(Committed(s)) \in Nat /\ Cardinality(Committed(s)') \in Nat
            /\ Cardinality(Committed(s)') <= Cardinality(Committed(s))
          BY <4>1, CountCallers
      <4>3. batchAcks \in Nat /\ batched[s] \in Nat
          BY <1>t DEF TypeOK
      <4> QED
          BY <1>t, <4>2, <4>3 DEF BooksBalance
    <3> QED
        BY <1>t, <1>u, <1>3, <3>1, <3>2 DEF BooksBalance
  <2>4. CallOk(c)'
      BY <2>1 DEF CallOk
  <2> QED
      BY <1>t, <1>3, <1>q, <2>1, <2>2, <2>3, <2>4 DEF TypeOK
<1>4. ASSUME call[c].kind = "batch", call[c].reply = "ok", call[c].left # {},
             BatchVisits(c, call[c].left), UNCHANGED ackVars
      PROVE  StoreInv'
  <2>0. call[c].left \in SUBSET Shards /\ call[c].shard \notin call[c].left
      BY <1>t DEF TypeOK, Call, CallOk
  <2>1. /\ call' \in [Callers -> Call] /\ \A d \in Callers : d # c => call'[d] = call[d]
        /\ call'[c].pc = "lookup" /\ call'[c].kind = "batch" /\ call'[c].reply = "none"
        /\ call'[c].shard \in call[c].left /\ call'[c].left = call[c].left \ {call'[c].shard}
      BY <1>t, <1>4, <2>0, CallerVisits
  <2>2. BooksBalance'
    <3>1. \A k \in Keys : c \notin ToAudit(k)' /\ c \notin ToAck(k)'
        BY <2>1 DEF ToAudit, ToAck, WroteOk
    <3>2. \A s \in Shards : c \in Committed(s)' => c \in Committed(s)
        BY <1>4, <2>0, <2>1 DEF Committed
    <3> QED
        BY <1>t, <1>u, <1>4, <2>1, <3>1, <3>2, BooksKept DEF ackVars
  <2>3. CallOk(c)'
      BY <2>1 DEF CallOk
  <2> QED
      BY <1>t, <1>4, <1>q, <2>1, <2>2, <2>3 DEF ackVars, TypeOK
<1>5. ASSUME call[c].kind = "batch", call[c].reply = "ok", call[c].left = {}, Goes(c, Resting),
             batchAcks' = batchAcks + 1, UNCHANGED acked
      PROVE  StoreInv'
  <2>1. /\ call' \in [Callers -> Call] /\ \A d \in Callers : d # c => call'[d] = call[d]
        /\ call'[c].pc = "idle" /\ call'[c].kind = "none" /\ call'[c].reply = "none"
        /\ call'[c].left = {}
      BY <1>t, <1>5, CallerRests
  <2>2. BooksBalance'
    <3>1. ASSUME NEW k \in Keys
          PROVE  /\ auditLog[k] + Cardinality(ToAudit(k)') <= applied[k]
                 /\ acked[k] + Cardinality(ToAck(k)') <= applied[k]
      <4>1. ToAudit(k) \in SUBSET Callers /\ ToAudit(k)' \in SUBSET Callers
            /\ ToAck(k) \in SUBSET Callers /\ ToAck(k)' \in SUBSET Callers
          BY DEF ToAudit, ToAck
      <4>2. ToAudit(k)' \subseteq ToAudit(k) /\ ToAck(k)' \subseteq ToAck(k)
          BY <2>1 DEF ToAudit, ToAck, WroteOk
      <4>3. /\ Cardinality(ToAudit(k)) \in Nat /\ Cardinality(ToAudit(k)') \in Nat
            /\ Cardinality(ToAudit(k)') <= Cardinality(ToAudit(k))
            /\ Cardinality(ToAck(k)) \in Nat /\ Cardinality(ToAck(k)') \in Nat
            /\ Cardinality(ToAck(k)') <= Cardinality(ToAck(k))
          BY <4>1, <4>2, CountCallers
      <4>4. auditLog[k] \in Nat /\ acked[k] \in Nat /\ applied[k] \in Nat
          BY <1>t DEF TypeOK
      <4>5. auditLog[k] + Cardinality(ToAudit(k)) <= applied[k]
            /\ acked[k] + Cardinality(ToAck(k)) <= applied[k]
          BY <1>t DEF BooksBalance
      <4> QED
          BY <4>3, <4>4, <4>5
    <3>2. ASSUME NEW s \in Shards PROVE batchAcks' + Cardinality(Committed(s)') <= batched[s]
      <4>1. Committed(s) \in SUBSET Callers /\ Committed(s)' \in SUBSET Callers
            /\ Committed(s)' \subseteq Committed(s) \ {c} /\ c \in Committed(s)
          BY <1>5, <2>1 DEF Committed
      <4>2. /\ Cardinality(Committed(s)) \in Nat /\ Cardinality(Committed(s)') \in Nat
            /\ Cardinality(Committed(s)') + 1 <= Cardinality(Committed(s))
          BY <4>1, CountCallers
      <4>3. batchAcks \in Nat /\ batched[s] \in Nat
          BY <1>t DEF TypeOK
      <4>4. batchAcks + Cardinality(Committed(s)) <= batched[s]
          BY <1>t DEF BooksBalance
      <4> QED
          BY <1>5, <4>2, <4>3, <4>4
    <3> QED
        BY <1>t, <1>u, <1>5, <3>1, <3>2 DEF BooksBalance
  <2>3. CallOk(c)'
      BY <2>1 DEF CallOk
  <2>4. acked' \in [Keys -> Nat] /\ batchAcks' \in Nat
      BY <1>t, <1>5 DEF TypeOK
  <2> QED
      BY <1>q, <2>1, <2>2, <2>3, <2>4
<1>6. CASE Succeeds(c) /\ call[c].reply = "ok"
    BY <1>t, <1>1, <1>2, <1>3, <1>4, <1>5, <1>6, SuccessCases DEF Kinds
<1>7. CASE Fails(c)
  <2>1. CASE call[c].kind \in {"audit", "record"}
    <3>1. Succeeds(c) /\ call[c].kind # "none"
        BY <1>7, <2>1 DEF Fails
    <3> QED
        BY <1>t, <1>2, <1>3, <2>1, <3>1, SuccessCases
  <2>2. CASE call[c].kind \notin {"audit", "record"}
      BY <1>7, <1>r, <2>2 DEF Fails
  <2> QED
      BY <2>1, <2>2
<1> QED
    BY <1>6, <1>7

-----------------------------------------------------------------------------
\* A command in a channel is well formed, and a caller that waits for it by
\* number waits for exactly this command.
LEMMA QueuedFacts ==
    ASSUME StoreInv, NEW s \in Shards, NEW i \in DOMAIN chan[s]
    PROVE  /\ chan[s][i] \in Command /\ chan[s][i].from \in Callers /\ chan[s][i].n \in Nat
           /\ chan[s][i].kind \in Kinds
           /\ Awaits(chan[s][i].from, chan[s][i], s) \/ Abandoned(chan[s][i])
           /\ \A c \in Callers : Waits(c, chan[s][i]) => Awaits(c, chan[s][i], s)
<1>1. chan[s] \in Seq(Command)
    BY DEF StoreInv, TypeOK
<1>2. chan[s][i] \in Command
    BY <1>1
<1>3. chan[s][i].from \in Callers /\ chan[s][i].n \in Nat /\ chan[s][i].kind \in Kinds
    BY <1>2 DEF Command
<1>4. Awaits(chan[s][i].from, chan[s][i], s) \/ Abandoned(chan[s][i])
    BY DEF StoreInv, CommandInv
<1>5. ASSUME NEW c \in Callers, Waits(c, chan[s][i]) PROVE Awaits(c, chan[s][i], s)
    BY <1>4, <1>5 DEF Waits, Awaits, Abandoned
<1> QED
    BY <1>2, <1>3, <1>4, <1>5

\* A command left in a channel stood there before, at place pos, and is none of
\* cmds.
Left(pos, cmds) ==
    \A t \in Shards : \A j \in DOMAIN chan'[t] :
        /\ j \in Nat
        /\ pos[t][j] \in DOMAIN chan[t] /\ chan'[t][j] = chan[t][pos[t][j]]
        /\ \A cmd \in cmds : cmd.from # chan'[t][j].from \/ cmd.n # chan'[t][j].n

\* Different commands stood at different places.
Places(pos) == \A t \in Shards : \A i, j \in Nat : pos[t][i] = pos[t][j] => i = j

\* Channels that lost commands, and replies to callers that waited for the lost
\* ones: what is left is accounted for.
LEMMA ChannelsDrain ==
    ASSUME StoreInv, NEW cmds, NEW what \in {"ok", "err", "dropped"}, Replies(cmds, what),
           calls' = calls, NEW pos, Places(pos), Left(pos, cmds)
    PROVE  CommandInv'
<1>a. \A c \in Callers :
        /\ call'[c].pc = call[c].pc
        /\ (\A d \in cmds : ~Waits(c, d)) => call'[c] = call[c]
  <2>1. TypeOK
      BY DEF StoreInv
  <2> QED
      BY <2>1, ReplyFacts
<1>b. ASSUME NEW s \in Shards, NEW t \in Shards, NEW i \in DOMAIN chan[s], NEW j \in DOMAIN chan[t],
             chan[s][i].from = chan[t][j].from, chan[s][i].n = chan[t][j].n
      PROVE  s = t /\ i = j
  <2>1. CommandInv
      BY DEF StoreInv
  <2> QED
      BY <1>b, <2>1 DEF CommandInv
<1>1. ASSUME NEW t \in Shards, NEW j \in DOMAIN chan'[t], NEW cmd, cmd = chan'[t][j]
      PROVE  Awaits(cmd.from, cmd, t)' \/ Abandoned(cmd)'
  <2>1. /\ cmd.from \in Callers
        /\ Awaits(cmd.from, cmd, t) \/ Abandoned(cmd)
    <3>1. pos[t][j] \in DOMAIN chan[t] /\ cmd = chan[t][pos[t][j]]
        BY <1>1 DEF Left
    <3> QED
        BY <3>1, QueuedFacts
  <2>2. /\ call'[cmd.from].pc = call[cmd.from].pc
        /\ (\A d \in cmds : ~Waits(cmd.from, d)) => call'[cmd.from] = call[cmd.from]
      BY <1>a, <2>1
  <2>3. \A d \in cmds : d.from # cmd.from \/ d.n # cmd.n
      BY <1>1 DEF Left
  <2>4. CASE Awaits(cmd.from, cmd, t)
    <3>1. call'[cmd.from] = call[cmd.from]
        BY <2>2, <2>3, <2>4 DEF Awaits, Waits
    <3> QED
        BY <2>4, <3>1 DEF Awaits
  <2>5. CASE Abandoned(cmd)
      BY <2>2, <2>5 DEF Abandoned
  <2> QED
      BY <2>1, <2>4, <2>5
<1>2. ASSUME NEW t \in Shards, NEW u \in Shards,
             NEW i \in DOMAIN chan'[t], NEW j \in DOMAIN chan'[u],
             chan'[t][i].from = chan'[u][j].from, chan'[t][i].n = chan'[u][j].n
      PROVE  t = u /\ i = j
  <2>1. pos[t][i] \in DOMAIN chan[t] /\ pos[u][j] \in DOMAIN chan[u] /\ i \in Nat /\ j \in Nat
        /\ chan[t][pos[t][i]].from = chan[u][pos[u][j]].from
        /\ chan[t][pos[t][i]].n = chan[u][pos[u][j]].n
      BY <1>2 DEF Left
  <2>2. t = u /\ pos[t][i] = pos[u][j]
      BY <1>b, <2>1
  <2> QED
      BY <2>1, <2>2 DEF Places
<1>3. \A t \in Shards : \A j \in DOMAIN chan'[t] :
        (LET cmd == chan[t][j] IN Awaits(cmd.from, cmd, t) \/ Abandoned(cmd))'
    BY <1>1 DEF Awaits, Abandoned
<1> QED
    BY <1>2, <1>3 DEF CommandInv

\* Replies leave every caller in order.
LEMMA RepliesKeepCalls ==
    ASSUME StoreInv, NEW cmds, NEW what \in {"ok", "err", "dropped"}, Replies(cmds, what),
           \A s \in Shards : writer'[s] = "none" => writer[s] = "none"
    PROVE  CallInv'
<1> SUFFICES ASSUME NEW c \in Callers PROVE CallOk(c)'
    BY DEF CallInv
<1>1. /\ call'[c].pc = call[c].pc /\ call'[c].kind = call[c].kind
      /\ call'[c].key = call[c].key /\ call'[c].shard = call[c].shard
      /\ call'[c].left = call[c].left
      /\ (\E cmd \in cmds : Waits(c, cmd)) => call'[c].reply = what
      /\ ~(\E cmd \in cmds : Waits(c, cmd)) => call'[c] = call[c]
    BY ReplyFacts DEF StoreInv
<1>2. CallOk(c) /\ call[c].shard \in Shards
    BY DEF StoreInv, CallInv, TypeOK, Call
<1> QED
    BY <1>1, <1>2 DEF CallOk, Waits

\* A writer takes the front command off its channel and replies to whoever waits
\* for it.
LEMMA TakeKeeps ==
    ASSUME StoreInv, NEW s \in Shards, NEW what \in {"ok", "err"}, Takes(s),
           Replies({Head(chan[s])}, what), UNCHANGED <<writer, spawned, calls>>
    PROVE  /\ chan' \in [Shards -> Seq(Command)] /\ \A t \in Shards : Len(chan'[t]) <= ChannelCap
           /\ call' \in [Callers -> Call]
           /\ SingleWriter' /\ CallInv' /\ CommandInv'
           /\ 1 \in DOMAIN chan[s] /\ Head(chan[s]) = chan[s][1]
<1> USE StoreAssumption
<1>1. chan \in [Shards -> Seq(Command)] /\ chan[s] \in Seq(Command) /\ chan[s] # <<>>
      /\ writer[s] = "running" /\ \A t \in Shards : Len(chan[t]) <= ChannelCap
    BY DEF StoreInv, TypeOK, Takes
<1>2. /\ Len(chan[s]) \in Nat /\ Len(chan[s]) >= 1 /\ DOMAIN chan[s] = 1..Len(chan[s])
      /\ Tail(chan[s]) \in Seq(Command) /\ Len(Tail(chan[s])) = Len(chan[s]) - 1
      /\ DOMAIN Tail(chan[s]) = 1..(Len(chan[s]) - 1) /\ Head(chan[s]) = chan[s][1]
      /\ \A j \in 1..(Len(chan[s]) - 1) : Tail(chan[s])[j] = chan[s][j + 1]
    BY <1>1
<1>3. chan'[s] = Tail(chan[s]) /\ \A t \in Shards : t # s => chan'[t] = chan[t]
    BY <1>1 DEF Takes
<1>4. chan' \in [Shards -> Seq(Command)] /\ \A t \in Shards : Len(chan'[t]) <= ChannelCap
  <2>1. chan' \in [Shards -> Seq(Command)]
      BY <1>1, <1>2 DEF Takes
  <2>2. Len(chan'[s]) <= ChannelCap
      BY <1>1, <1>2, <1>3
  <2> QED
      BY <1>1, <1>3, <2>1, <2>2
<1>5. 1 \in DOMAIN chan[s] /\ Head(chan[s]) = chan[s][1]
    BY <1>2
<1>6. CommandInv'
  <2> DEFINE pos == [t \in Shards |-> [j \in Nat |-> IF t = s THEN j + 1 ELSE j]]
  <2>1. Places(pos)
      BY DEF Places
  <2>2. ASSUME NEW t \in Shards, NEW j \in DOMAIN chan'[t]
        PROVE  /\ j \in Nat
               /\ pos[t][j] \in DOMAIN chan[t] /\ chan'[t][j] = chan[t][pos[t][j]]
               /\ Head(chan[s]).from # chan'[t][j].from \/ Head(chan[s]).n # chan'[t][j].n
    <3>1. chan[t] \in Seq(Command) /\ chan'[t] \in Seq(Command)
        BY <1>1, <1>4
    <3>2. j \in Nat
        BY <3>1
    <3>3. pos[t][j] \in DOMAIN chan[t] /\ chan'[t][j] = chan[t][pos[t][j]]
          /\ (t = s => pos[t][j] # 1)
      <4>1. CASE t = s
        <5>1. pos[t][j] = j + 1 /\ chan'[t] = Tail(chan[s]) /\ j \in 1..(Len(chan[s]) - 1)
            BY <1>2, <1>3, <3>2, <4>1
        <5> HIDE DEF pos
        <5> QED
            BY <1>2, <4>1, <5>1
      <4>2. CASE t # s
          BY <1>3, <3>2, <4>2
      <4> QED
          BY <4>1, <4>2
    <3>4. Head(chan[s]).from = chan'[t][j].from /\ Head(chan[s]).n = chan'[t][j].n
            => s = t /\ 1 = pos[t][j]
      <4> HIDE DEF pos
      <4> QED
          BY <1>5, <3>3 DEF StoreInv, CommandInv
    <3> QED
        BY <3>2, <3>3, <3>4
  <2> HIDE DEF pos
  <2>3. Left(pos, {Head(chan[s])})
      BY <2>2 DEF Left
  <2> QED
      BY <2>1, <2>3, ChannelsDrain
<1>7. CallInv'
    BY RepliesKeepCalls
<1>8. SingleWriter'
    BY <1>1, <1>3 DEF StoreInv, SingleWriter
<1> QED
    BY <1>4, <1>5, <1>6, <1>7, <1>8, ReplyFacts DEF StoreInv

\* An error or a dropped reply never makes a caller stand for a write.
LEMMA RefusalKeepsBooks ==
    ASSUME StoreInv, NEW cmds, NEW what \in {"err", "dropped"}, Replies(cmds, what),
           UNCHANGED <<applied, auditLog, records, batched, acked, batchAcks>>
    PROVE  BooksBalance'
<1>1. \A c \in Callers :
        /\ call'[c].kind = call[c].kind /\ call'[c].key = call[c].key
        /\ call'[c].shard = call[c].shard /\ call'[c].left = call[c].left
        /\ call'[c].reply = what \/ call'[c].reply = call[c].reply
    BY ReplyFacts DEF StoreInv
<1>2. ASSUME NEW k \in Keys
      PROVE  ToAudit(k)' \subseteq ToAudit(k) /\ ToAck(k)' \subseteq ToAck(k)
    BY <1>1 DEF ToAudit, ToAck, WroteOk
<1>3. ASSUME NEW s \in Shards PROVE Committed(s)' \subseteq Committed(s)
    BY <1>1 DEF Committed
<1> QED
    BY <1>2, <1>3, BooksFrame DEF StoreInv

-----------------------------------------------------------------------------
\* A commit of the front command keeps the books: a write adds to what is
\* applied, at most one caller comes to stand for it, and an audit entry, a record
\* or a batch is one its caller still stands for.
LEMMA CommitKeepsBooks ==
    ASSUME StoreInv, NEW s \in Shards, NEW cmd, 1 \in DOMAIN chan[s], cmd = chan[s][1],
           Commits(s, cmd), Replies({cmd}, "ok"), UNCHANGED <<acked, batchAcks>>
    PROVE  BooksBalance' /\ applied' \in [Keys -> Nat] /\ auditLog' \in [Keys -> Nat]
           /\ records' \subseteq Keys /\ batched' \in [Shards -> Nat]
<1> DEFINE o == cmd.from
<1>t. TypeOK /\ BooksBalance /\ CallInv
    BY DEF StoreInv
<1>a. /\ o \in Callers /\ cmd.kind \in Kinds
      /\ Awaits(o, cmd, s) \/ Abandoned(cmd)
      /\ \A c \in Callers : Waits(c, cmd) => Awaits(c, cmd, s)
    BY QueuedFacts
<1>b. \A c \in Callers :
        /\ call'[c].kind = call[c].kind /\ call'[c].key = call[c].key
        /\ call'[c].shard = call[c].shard /\ call'[c].left = call[c].left
        /\ Waits(c, cmd) => call'[c].reply = "ok"
        /\ ~Waits(c, cmd) => call'[c] = call[c]
    BY <1>t, ReplyFacts
<1>c. \A c \in Callers : c # o => call'[c] = call[c]
    BY <1>b DEF Waits
<1>d. cmd.kind # "batch" => cmd.key \in Keys
  <2>1. Awaits(o, cmd, s) /\ cmd.kind # "batch" => cmd.key \in Keys
      BY <1>a, <1>t DEF Awaits, CallInv, CallOk, Kinds
  <2> QED
      BY <1>a, <2>1 DEF Abandoned
<1>e. cmd.kind # "write" => Awaits(o, cmd, s) /\ Waits(o, cmd)
    BY <1>a DEF Abandoned, Awaits, Waits
<1>n. \A k \in Keys :
        /\ ToAudit(k) \in SUBSET Callers /\ ToAudit(k)' \in SUBSET Callers
        /\ ToAck(k) \in SUBSET Callers /\ ToAck(k)' \in SUBSET Callers
        /\ auditLog[k] \in Nat /\ acked[k] \in Nat /\ applied[k] \in Nat
        /\ auditLog[k] + Cardinality(ToAudit(k)) <= applied[k]
        /\ acked[k] + Cardinality(ToAck(k)) <= applied[k]
        /\ k \in records => applied[k] >= 1
    BY <1>t DEF ToAudit, ToAck, TypeOK, BooksBalance
<1>m. \A t \in Shards :
        /\ Committed(t) \in SUBSET Callers /\ Committed(t)' \in SUBSET Callers
        /\ batchAcks \in Nat /\ batched[t] \in Nat
        /\ batchAcks + Cardinality(Committed(t)) <= batched[t]
    BY <1>t DEF Committed, TypeOK, BooksBalance
<1> HIDE DEF o
\* A commit that is no batch changes no batch, and no batch changes no key.
<1>k. ASSUME cmd.kind # "batch", batched' = batched
      PROVE  \A t \in Shards : batchAcks' + Cardinality(Committed(t)') <= batched'[t]
  <2> SUFFICES ASSUME NEW t \in Shards
               PROVE  batchAcks + Cardinality(Committed(t)') <= batched[t]
      BY <1>k
  <2>1. Committed(t)' \subseteq Committed(t)
    <3>1. ~Waits(o, cmd) \/ call[o].kind # "batch"
        BY <1>a, <1>k DEF Awaits
    <3> QED
        BY <1>b, <1>c, <3>1 DEF Committed
  <2>2. Cardinality(Committed(t)') <= Cardinality(Committed(t))
        /\ Cardinality(Committed(t)') \in Nat /\ Cardinality(Committed(t)) \in Nat
      BY <1>m, <2>1, CountCallers
  <2> QED
      BY <1>m, <2>2
<1>1. CASE cmd.kind = "write"
  <2>1. /\ applied' = [applied EXCEPT ![cmd.key] = @ + 1]
        /\ auditLog' = auditLog /\ records' = records /\ batched' = batched
      BY <1>1 DEF Commits
  <2>2. cmd.key \in Keys /\ applied' \in [Keys -> Nat] /\ applied'[cmd.key] = applied[cmd.key] + 1
        /\ \A k \in Keys : k # cmd.key => applied'[k] = applied[k]
      BY <1>1, <1>d, <1>t, <2>1 DEF TypeOK
  <2>3. ASSUME NEW k \in Keys
        PROVE  /\ auditLog[k] + Cardinality(ToAudit(k)') <= applied'[k]
               /\ acked[k] + Cardinality(ToAck(k)') <= applied'[k]
               /\ k \in records => applied'[k] >= 1
    <3>1. /\ ToAudit(k)' \subseteq ToAudit(k) \cup {o} /\ ToAck(k)' \subseteq ToAck(k) \cup {o}
        BY <1>c DEF ToAudit, ToAck, WroteOk
    <3>2. ASSUME k # cmd.key
          PROVE  ToAudit(k)' \subseteq ToAudit(k) /\ ToAck(k)' \subseteq ToAck(k)
      <4>1. ~Waits(o, cmd) \/ call[o].key = cmd.key
          BY <1>a DEF Awaits
      <4> QED
          BY <1>a, <1>b, <1>c, <3>2, <4>1 DEF ToAudit, ToAck, WroteOk
    <3>3. /\ Cardinality(ToAudit(k)') <= Cardinality(ToAudit(k)) + 1
          /\ k # cmd.key => Cardinality(ToAudit(k)') <= Cardinality(ToAudit(k))
          /\ Cardinality(ToAudit(k)') \in Nat /\ Cardinality(ToAudit(k)) \in Nat
        BY <1>n, <3>1, <3>2, CountCallers
    <3>4. /\ Cardinality(ToAck(k)') <= Cardinality(ToAck(k)) + 1
          /\ k # cmd.key => Cardinality(ToAck(k)') <= Cardinality(ToAck(k))
          /\ Cardinality(ToAck(k)') \in Nat /\ Cardinality(ToAck(k)) \in Nat
        BY <1>n, <3>1, <3>2, CountCallers
    <3> QED
        BY <1>n, <2>2, <3>3, <3>4
  <2>4. batched' = batched /\ cmd.kind # "batch"
      BY <1>1, <2>1
  <2> QED
      BY <1>k, <1>t, <2>1, <2>2, <2>3, <2>4 DEF BooksBalance, TypeOK
<1>2. CASE cmd.kind = "audit"
  <2>1. /\ auditLog' = [auditLog EXCEPT ![cmd.key] = @ + 1]
        /\ applied' = applied /\ records' = records /\ batched' = batched
      BY <1>2 DEF Commits
  <2>2. cmd.key \in Keys /\ auditLog' \in [Keys -> Nat] /\ auditLog'[cmd.key] = auditLog[cmd.key] + 1
        /\ \A k \in Keys : k # cmd.key => auditLog'[k] = auditLog[k]
      BY <1>2, <1>d, <1>t, <2>1 DEF TypeOK
  <2>3. /\ call[o].key = cmd.key /\ call[o].kind = "audit" /\ call[o].reply = "none"
        /\ call'[o].kind = "audit" /\ call'[o].key = cmd.key /\ call'[o].reply = "ok"
      BY <1>2, <1>a, <1>b, <1>e DEF Awaits
  <2>4. ASSUME NEW k \in Keys
        PROVE  /\ auditLog'[k] + Cardinality(ToAudit(k)') <= applied[k]
               /\ acked[k] + Cardinality(ToAck(k)') <= applied[k]
    <3>1. /\ ToAudit(k)' \subseteq ToAudit(k) \ {o} /\ ToAck(k)' \subseteq ToAck(k)
          /\ k = cmd.key => o \in ToAudit(k)
        BY <1>a, <1>c, <2>3 DEF ToAudit, ToAck, WroteOk
    <3>2. /\ Cardinality(ToAudit(k)') <= Cardinality(ToAudit(k))
          /\ k = cmd.key => Cardinality(ToAudit(k)') + 1 <= Cardinality(ToAudit(k))
          /\ Cardinality(ToAudit(k)') \in Nat /\ Cardinality(ToAudit(k)) \in Nat
        BY <1>n, <3>1, CountCallers
    <3>3. /\ Cardinality(ToAck(k)') <= Cardinality(ToAck(k))
          /\ Cardinality(ToAck(k)') \in Nat /\ Cardinality(ToAck(k)) \in Nat
        BY <1>n, <3>1, CountCallers
    <3> QED
        BY <1>n, <2>2, <3>2, <3>3
  <2>5. batched' = batched /\ cmd.kind # "batch"
      BY <1>2, <2>1
  <2> QED
      BY <1>k, <1>n, <1>t, <2>1, <2>2, <2>4, <2>5 DEF BooksBalance, TypeOK
<1>3. CASE cmd.kind = "record"
  <2>1. /\ records' = records \cup {cmd.key} /\ cmd.key \in Keys
        /\ applied' = applied /\ auditLog' = auditLog /\ batched' = batched
      BY <1>3, <1>d DEF Commits
  <2>2. /\ call[o].key = cmd.key /\ call[o].kind = "record" /\ call[o].reply = "none"
        /\ call'[o].kind = "record" /\ call'[o].key = cmd.key
      BY <1>3, <1>a, <1>b, <1>e DEF Awaits
  <2>3. ASSUME NEW k \in Keys
        PROVE  /\ auditLog[k] + Cardinality(ToAudit(k)') <= applied[k]
               /\ acked[k] + Cardinality(ToAck(k)') <= applied[k]
               /\ k \in records' => applied[k] >= 1
    <3>1. /\ ToAudit(k)' \subseteq ToAudit(k) /\ ToAck(k)' \subseteq ToAck(k)
          /\ k = cmd.key => o \in ToAck(k)
        BY <1>a, <1>c, <2>2 DEF ToAudit, ToAck, WroteOk
    <3>2. /\ Cardinality(ToAudit(k)') <= Cardinality(ToAudit(k))
          /\ Cardinality(ToAudit(k)') \in Nat /\ Cardinality(ToAudit(k)) \in Nat
        BY <1>n, <3>1, CountCallers
    <3>3. /\ Cardinality(ToAck(k)') <= Cardinality(ToAck(k))
          /\ k = cmd.key => Cardinality(ToAck(k)) >= 1
          /\ Cardinality(ToAck(k)') \in Nat /\ Cardinality(ToAck(k)) \in Nat
        BY <1>n, <3>1, CountCallers
    <3> QED
        BY <1>n, <2>1, <3>2, <3>3
  <2>4. batched' = batched /\ cmd.kind # "batch"
      BY <1>3, <2>1
  <2> QED
      BY <1>k, <1>t, <2>1, <2>3, <2>4 DEF BooksBalance, TypeOK
<1>4. CASE cmd.kind = "batch"
  <2>1. /\ batched' = [batched EXCEPT ![s] = @ + 1]
        /\ applied' = applied /\ auditLog' = auditLog /\ records' = records
      BY <1>4 DEF Commits
  <2>2. batched' \in [Shards -> Nat] /\ batched'[s] = batched[s] + 1
        /\ \A t \in Shards : t # s => batched'[t] = batched[t]
      BY <1>t, <2>1 DEF TypeOK
  <2>3. /\ call[o].kind = "batch" /\ call[o].shard = s
        /\ call'[o].kind = "batch" /\ call'[o].shard = s /\ call'[o].left = call[o].left
      BY <1>4, <1>a, <1>b, <1>e DEF Awaits
  <2>4. ASSUME NEW k \in Keys
        PROVE  /\ auditLog[k] + Cardinality(ToAudit(k)') <= applied[k]
               /\ acked[k] + Cardinality(ToAck(k)') <= applied[k]
    <3>1. ToAudit(k)' \subseteq ToAudit(k) /\ ToAck(k)' \subseteq ToAck(k)
        BY <1>c, <2>3 DEF ToAudit, ToAck, WroteOk
    <3>2. /\ Cardinality(ToAudit(k)') <= Cardinality(ToAudit(k))
          /\ Cardinality(ToAudit(k)') \in Nat /\ Cardinality(ToAudit(k)) \in Nat
        BY <1>n, <3>1, CountCallers
    <3>3. /\ Cardinality(ToAck(k)') <= Cardinality(ToAck(k))
          /\ Cardinality(ToAck(k)') \in Nat /\ Cardinality(ToAck(k)) \in Nat
        BY <1>n, <3>1, CountCallers
    <3> QED
        BY <1>n, <3>2, <3>3
  <2>5. ASSUME NEW t \in Shards PROVE batchAcks + Cardinality(Committed(t)') <= batched'[t]
    <3>1. /\ Committed(t)' \subseteq Committed(t) \cup {o}
          /\ t # s => Committed(t)' \subseteq Committed(t)
        BY <1>c, <2>3 DEF Committed
    <3>2. /\ Cardinality(Committed(t)') <= Cardinality(Committed(t)) + 1
          /\ t # s => Cardinality(Committed(t)') <= Cardinality(Committed(t))
          /\ Cardinality(Committed(t)') \in Nat /\ Cardinality(Committed(t)) \in Nat
        BY <1>m, <3>1, CountCallers
    <3> QED
        BY <1>m, <2>2, <3>2
  <2> QED
      BY <1>n, <1>t, <2>1, <2>2, <2>4, <2>5 DEF BooksBalance, TypeOK
<1> QED
    BY <1>1, <1>2, <1>3, <1>4, <1>a DEF Kinds

-----------------------------------------------------------------------------
\* A step of caller c that sends nothing, writes nothing and leaves c in order,
\* standing for no write it did not stand for.
LEMMA MoveKeeps ==
    ASSUME StoreInv, NEW c \in Callers,
           call' \in [Callers -> Call], calls' \in [Callers -> Nat],
           \A d \in Callers : d # c => call'[d] = call[d] /\ calls'[d] = calls[d],
           \/ call[c].pc = "idle" /\ calls'[c] = calls[c] + 1
           \/ /\ call[c].pc # "idle" /\ calls'[c] = calls[c]
              /\ \/ call[c].pc # "reply" \/ call[c].reply # "none"
                 \/ call'[c].pc = "idle" /\ call[c].kind = "write" /\ call[c].key \in Keys,
           \A s \in Shards : writer'[s] = "none" => writer[s] = "none",
           writer' \in [Shards -> {"none", "opening", "running", "dead"}],
           spawned' \in [Shards -> Nat], SingleWriter', CallOk(c)',
           \A k \in Keys : /\ c \in ToAudit(k)' => c \in ToAudit(k)
                           /\ c \in ToAck(k)' => c \in ToAck(k),
           \A s \in Shards : c \in Committed(s)' => c \in Committed(s),
           UNCHANGED <<chan, dbVars, ackVars, crashes>>
    PROVE  StoreInv'
<1>1. TypeOK /\ CallInv /\ CommandInv /\ BooksBalance
    BY DEF StoreInv
<1>2. chan' = chan /\ crashes' = crashes
      /\ UNCHANGED <<applied, auditLog, records, batched, acked, batchAcks>>
    BY DEF dbVars, ackVars
<1>3. TypeOK'
    BY <1>1, <1>2 DEF TypeOK
<1>4. CallInv'
    BY <1>1, CallFrame
<1>5. CommandInv'
    BY <1>1, <1>2, CommandsKept
<1>6. BooksBalance'
    BY <1>1, <1>2, BooksKept
<1> QED
    BY <1>3, <1>4, <1>5, <1>6 DEF StoreInv

\* A caller's new request stands for no write.
StartsClean(c) ==
    /\ call' \in [Callers -> Call] /\ \A d \in Callers : d # c => call'[d] = call[d]
    /\ CallOk(c)'
    /\ \A k \in Keys : c \notin ToAudit(k)' /\ c \notin ToAck(k)'
    /\ \A s \in Shards : c \notin Committed(s)'

\* A caller starts a request.
LEMMA StartKeeps ==
    ASSUME StoreInv, NEW c \in Callers, (\E k \in Keys : Inject(c, k)) \/ Batch(c)
    PROVE  StoreInv'
<1>t. TypeOK /\ SingleWriter
    BY DEF StoreInv
<1>1. /\ call[c].pc = "idle" /\ calls' = [calls EXCEPT ![c] = @ + 1]
      /\ writer' = writer /\ spawned' = spawned /\ UNCHANGED <<chan, dbVars, ackVars, crashes>>
    BY DEF Inject, Batch
<1>2. /\ calls' \in [Callers -> Nat] /\ calls'[c] = calls[c] + 1
      /\ \A d \in Callers : d # c => calls'[d] = calls[d]
    BY <1>1, <1>t DEF TypeOK
<1>3. SingleWriter' /\ writer' \in [Shards -> {"none", "opening", "running", "dead"}]
      /\ spawned' \in [Shards -> Nat]
    BY <1>1, <1>t DEF SingleWriter, TypeOK
<1>4. StartsClean(c)
  <2>1. ASSUME NEW k \in Keys, Inject(c, k)
        PROVE  StartsClean(c)
    <3>1. LET n == [Resting EXCEPT !.pc = "check", !.kind = "write", !.key = k]
          IN  /\ n \in Call /\ n.pc = "check" /\ n.kind = "write" /\ n.key = k
              /\ n.reply = "none" /\ n.left = {}
        BY DEF Resting, Call, Shards, Kinds
    <3>2. Goes(c, [Resting EXCEPT !.pc = "check", !.kind = "write", !.key = k])
        BY <2>1 DEF Inject
    <3>3. /\ call' \in [Callers -> Call] /\ \A d \in Callers : d # c => call'[d] = call[d]
          /\ call'[c].pc = "check" /\ call'[c].kind = "write" /\ call'[c].key = k
          /\ call'[c].reply = "none" /\ call'[c].left = {}
        BY <1>t, <3>1, <3>2, CallerMoves
    <3> QED
        BY <3>3 DEF StartsClean, CallOk, ToAudit, ToAck, WroteOk, Committed
  <2>2. ASSUME Batch(c) PROVE StartsClean(c)
    <3>1. BatchVisits(c, Shards)
        BY <2>2 DEF Batch
    <3>2. /\ call' \in [Callers -> Call] /\ \A d \in Callers : d # c => call'[d] = call[d]
          /\ call'[c].pc = "lookup" /\ call'[c].kind = "batch" /\ call'[c].reply = "none"
          /\ call'[c].shard \in Shards /\ call'[c].left = Shards \ {call'[c].shard}
        BY <1>t, <3>1, CallerVisits
    <3> QED
        BY <3>2 DEF StartsClean, CallOk, ToAudit, ToAck, WroteOk, Committed
  <2> QED
      BY <2>1, <2>2
<1> QED
    BY <1>1, <1>2, <1>3, <1>4, MoveKeeps DEF StartsClean

\* A request ends early: its key has a record, or its write timed out.
LEMMA EndKeeps ==
    ASSUME StoreInv, NEW c \in Callers, CheckHit(c) \/ Timeout(c)
    PROVE  StoreInv'
<1>t. TypeOK /\ SingleWriter /\ CallOk(c)
    BY DEF StoreInv, CallInv
<1>1. /\ Goes(c, Resting) /\ calls' = calls /\ writer' = writer /\ spawned' = spawned
      /\ UNCHANGED <<chan, dbVars, ackVars, crashes>>
    BY DEF CheckHit, Timeout
<1>2. call[c].pc # "idle" /\ call[c].kind = "write" /\ call[c].key \in Keys
    BY <1>t DEF CheckHit, Timeout, CallOk
<1>3. SingleWriter' /\ writer' \in [Shards -> {"none", "opening", "running", "dead"}]
      /\ spawned' \in [Shards -> Nat] /\ calls' \in [Callers -> Nat]
    BY <1>1, <1>t DEF SingleWriter, TypeOK
<1>4. /\ call' \in [Callers -> Call] /\ \A d \in Callers : d # c => call'[d] = call[d]
      /\ call'[c].pc = "idle" /\ call'[c].kind = "none" /\ call'[c].reply = "none"
      /\ call'[c].left = {}
    BY <1>1, <1>t, CallerRests
<1>5. CallOk(c)'
    BY <1>4 DEF CallOk
<1>6. /\ \A k \in Keys : c \notin ToAudit(k)' /\ c \notin ToAck(k)'
      /\ \A s \in Shards : c \notin Committed(s)'
    BY <1>4 DEF ToAudit, ToAck, WroteOk, Committed
<1> QED
    BY <1>1, <1>2, <1>3, <1>4, <1>5, <1>6, MoveKeeps

\* A caller on its way to its writer stands for what it stood for.
LEMMA AdvanceKeeps ==
    ASSUME StoreInv, NEW c \in Callers, NEW pc \in {"lookup", "slow", "send"},
           call[c].pc \in {"check", "lookup", "slow"}, Goes(c, [call[c] EXCEPT !.pc = pc]),
           UNCHANGED <<chan, calls, dbVars, ackVars, crashes>>,
           \A s \in Shards : writer'[s] = "none" => writer[s] = "none",
           writer' \in [Shards -> {"none", "opening", "running", "dead"}],
           spawned' \in [Shards -> Nat], SingleWriter',
           pc = "send" => writer'[call[c].shard] # "none"
    PROVE  StoreInv'
<1>t. TypeOK /\ CallOk(c)
    BY DEF StoreInv, CallInv
<1>1. /\ call' \in [Callers -> Call] /\ \A d \in Callers : d # c => call'[d] = call[d]
      /\ call'[c].pc = pc /\ call'[c].kind = call[c].kind /\ call'[c].key = call[c].key
      /\ call'[c].shard = call[c].shard /\ call'[c].reply = call[c].reply
      /\ call'[c].left = call[c].left
    BY <1>t, CallerAdvances
<1>2. CallOk(c)'
    BY <1>1, <1>t DEF CallOk
<1>3. /\ \A k \in Keys : /\ c \in ToAudit(k)' => c \in ToAudit(k)
                         /\ c \in ToAck(k)' => c \in ToAck(k)
      /\ \A s \in Shards : c \in Committed(s)' => c \in Committed(s)
    BY <1>1 DEF ToAudit, ToAck, WroteOk, Committed
<1>4. calls' = calls /\ calls' \in [Callers -> Nat]
    BY <1>t DEF TypeOK
<1>5. call[c].pc # "idle" /\ call[c].pc # "reply"
    OBVIOUS
<1> QED
    BY <1>1, <1>2, <1>3, <1>4, <1>5, MoveKeeps

\* The miss of the idempotency check and the two looks at the writer map: the
\* second one spawns a writer for a shard that has none, and no other.
LEMMA LooksKeep ==
    ASSUME StoreInv, NEW c \in Callers, CheckMiss(c) \/ Lookup(c) \/ LookupSlow(c)
    PROVE  StoreInv'
<1>t. TypeOK /\ SingleWriter /\ call[c].shard \in Shards
    BY DEF StoreInv, TypeOK, Call
<1>1. ASSUME writer' = writer, spawned' = spawned, chan' = chan
      PROVE  SingleWriter'
             /\ writer' \in [Shards -> {"none", "opening", "running", "dead"}]
             /\ spawned' \in [Shards -> Nat]
             /\ \A s \in Shards : writer'[s] = "none" => writer[s] = "none"
    BY <1>1, <1>t DEF SingleWriter, TypeOK
<1>2. CASE CheckMiss(c)
    BY <1>1, <1>2, <1>t, AdvanceKeeps DEF CheckMiss
<1>3. CASE Lookup(c)
  <2> DEFINE pc == IF writer[call[c].shard] = "none" THEN "slow" ELSE "send"
  <2>1. pc \in {"lookup", "slow", "send"} /\ (pc = "send" => writer[call[c].shard] # "none")
      OBVIOUS
  <2>2. Goes(c, [call[c] EXCEPT !.pc = pc]) /\ call[c].pc = "lookup"
        /\ writer' = writer /\ spawned' = spawned
        /\ UNCHANGED <<chan, calls, dbVars, ackVars, crashes>>
      BY <1>3 DEF Lookup
  <2> HIDE DEF pc
  <2> QED
      BY <1>1, <1>t, <2>1, <2>2, AdvanceKeeps
<1>4. CASE LookupSlow(c)
  <2>1. Goes(c, [call[c] EXCEPT !.pc = "send"]) /\ call[c].pc = "slow"
        /\ UNCHANGED <<chan, calls, dbVars, ackVars, crashes>> /\ chan' = chan
      BY <1>4 DEF LookupSlow
  <2>2. /\ SingleWriter' /\ writer' \in [Shards -> {"none", "opening", "running", "dead"}]
        /\ spawned' \in [Shards -> Nat] /\ writer'[call[c].shard] # "none"
        /\ \A t \in Shards : writer'[t] = "none" => writer[t] = "none"
    <3>1. CASE writer[call[c].shard] # "none"
      <4>1. writer' = writer /\ spawned' = spawned
          BY <1>4, <3>1 DEF LookupSlow
      <4> QED
          BY <1>1, <1>t, <2>1, <3>1, <4>1
    <3>2. CASE writer[call[c].shard] = "none"
      <4>1. PICK s \in Shards : s = call[c].shard
          BY <1>t
      <4>2. writer' = [writer EXCEPT ![s] = "opening"] /\ spawned' = [spawned EXCEPT ![s] = @ + 1]
          BY <1>4, <3>2, <4>1 DEF LookupSlow, Spawns
      <4>3. /\ writer'[s] = "opening" /\ spawned'[s] = spawned[s] + 1
            /\ \A t \in Shards : t # s => writer'[t] = writer[t] /\ spawned'[t] = spawned[t]
            /\ writer' \in [Shards -> {"none", "opening", "running", "dead"}]
            /\ spawned' \in [Shards -> Nat]
          BY <4>2, <1>t DEF TypeOK
      <4>4. SingleWriter'
          BY <4>1, <4>3, <2>1, <3>2, <1>t DEF SingleWriter
      <4>5. \A t \in Shards : writer'[t] = "none" => writer[t] = "none"
          BY <4>3
      <4>6. writer'[call[c].shard] # "none"
          BY <4>1, <4>3
      <4> QED
          BY <4>3, <4>4, <4>5, <4>6
    <3> QED
        BY <3>1, <3>2
  <2> DEFINE pc == "send"
  <2>3. pc \in {"lookup", "slow", "send"} /\ Goes(c, [call[c] EXCEPT !.pc = pc])
      BY <2>1
  <2> HIDE DEF pc
  <2> QED
      BY <2>1, <2>2, <2>3, AdvanceKeeps
<1> QED
    BY <1>2, <1>3, <1>4

-----------------------------------------------------------------------------
\* A command is sent: its caller had none in flight for this request, so it is
\* told apart from every command in every channel.
LEMMA SendKeeps ==
    ASSUME StoreInv, NEW c \in Callers, Send(c)
    PROVE  StoreInv'
<1> USE StoreAssumption
<1>t. TypeOK /\ SingleWriter /\ CallInv /\ CallOk(c) /\ CommandInv /\ BooksBalance
    BY DEF StoreInv, CallInv
<1>a. PICK s \in Shards : s = call[c].shard
    BY <1>t DEF TypeOK, Call
<1>b. PICK cmd : cmd = [from |-> c, n |-> calls[c], kind |-> call[c].kind, key |-> call[c].key]
    OBVIOUS
<1>c. cmd \in Command /\ cmd.from = c /\ cmd.n = calls[c] /\ cmd.kind = call[c].kind
      /\ cmd.key = call[c].key
  <2>1. call[c].kind \in Kinds /\ call[c].key \in Keys \cup {"none"} /\ calls[c] \in Nat
      BY <1>t DEF Send, CallOk, TypeOK, Call
  <2> QED
      BY <1>b, <2>1 DEF Command
<1>1. /\ call[c].pc = "send" /\ writer[s] # "dead" /\ writer[s] # "none"
      /\ Len(chan[s]) < ChannelCap
      /\ chan' = [chan EXCEPT ![s] = Append(@, cmd)]
      /\ Goes(c, [call[c] EXCEPT !.pc = "reply"])
      /\ call[c].reply = "none"
      /\ writer' = writer /\ spawned' = spawned /\ calls' = calls /\ crashes' = crashes
      /\ UNCHANGED <<applied, auditLog, records, batched, acked, batchAcks>>
    BY <1>a, <1>b, <1>t DEF Send, CallOk, dbVars, ackVars
<1>2. /\ call' \in [Callers -> Call] /\ \A d \in Callers : d # c => call'[d] = call[d]
      /\ call'[c].pc = "reply" /\ call'[c].kind = call[c].kind /\ call'[c].key = call[c].key
      /\ call'[c].shard = call[c].shard /\ call'[c].reply = call[c].reply
      /\ call'[c].left = call[c].left
    BY <1>1, <1>t, CallerAdvances
<1>3. /\ chan[s] \in Seq(Command) /\ Len(chan[s]) \in Nat /\ DOMAIN chan[s] = 1..Len(chan[s])
      /\ chan'[s] = Append(chan[s], cmd) /\ chan' \in [Shards -> Seq(Command)]
      /\ \A t \in Shards : t # s => chan'[t] = chan[t]
    BY <1>1, <1>c, <1>t DEF TypeOK
<1>4. /\ Len(chan'[s]) = Len(chan[s]) + 1 /\ DOMAIN chan'[s] = 1..(Len(chan[s]) + 1)
      /\ chan'[s][Len(chan[s]) + 1] = cmd
      /\ \A i \in 1..Len(chan[s]) : chan'[s][i] = chan[s][i]
    BY <1>3, <1>c
<1>5. TypeOK'
  <2>1. \A t \in Shards : Len(chan'[t]) <= ChannelCap
      BY <1>1, <1>3, <1>4, <1>t DEF TypeOK
  <2> QED
      BY <1>1, <1>2, <1>3, <2>1, <1>t DEF TypeOK
<1>6. SingleWriter'
    BY <1>1, <1>3, <1>t DEF SingleWriter
<1>7. CallInv'
  <2>1. CallOk(c)'
      BY <1>1, <1>2, <1>t DEF CallOk
  <2> QED
      BY <1>1, <1>2, <1>t, <2>1, CallFrame
<1>8. CommandInv'
  <2>1. ASSUME NEW t \in Shards, NEW j \in DOMAIN chan'[t]
        PROVE  /\ j \in Nat
               /\ \/ j \in DOMAIN chan[t] /\ chan'[t][j] = chan[t][j]
                  \/ t = s /\ j = Len(chan[s]) + 1 /\ chan'[t][j] = cmd
    <3>1. j \in Nat
      <4>1. chan'[t] \in Seq(Command)
          BY <1>3
      <4> QED
          BY <4>1
    <3> QED
        BY <3>1, <1>3, <1>4
  <2>2. ASSUME NEW t \in Shards, NEW j \in DOMAIN chan[t], NEW e, e = chan[t][j]
        PROVE  /\ e.from # c \/ e.n # calls[c]
               /\ Awaits(e.from, e, t)' \/ Abandoned(e)'
    <3>1. e.from \in Callers /\ (Awaits(e.from, e, t) \/ Abandoned(e))
        BY <2>2, QueuedFacts
    <3>2. e.from # c \/ e.n # calls[c]
        BY <3>1, <1>1 DEF Awaits, Abandoned
    <3>3. CASE e.from # c
        BY <3>1, <3>3, <1>1, <1>2 DEF Awaits, Abandoned
    <3>4. CASE e.from = c
        BY <3>1, <3>2, <3>4, <1>1 DEF Awaits, Abandoned
    <3> QED
        BY <3>2, <3>3, <3>4
  <2>3. Awaits(c, cmd, s)'
      BY <1>a, <1>c, <1>1, <1>2 DEF Awaits
  <2>4. ASSUME NEW t \in Shards, NEW j \in DOMAIN chan'[t], NEW e, e = chan'[t][j]
        PROVE  Awaits(e.from, e, t)' \/ Abandoned(e)'
      BY <2>1, <2>2, <2>3, <2>4, <1>c
  <2>5. ASSUME NEW t \in Shards, NEW u \in Shards,
               NEW i \in DOMAIN chan'[t], NEW j \in DOMAIN chan'[u],
               chan'[t][i].from = chan'[u][j].from, chan'[t][i].n = chan'[u][j].n
        PROVE  t = u /\ i = j
    <3>1. CASE i \in DOMAIN chan[t] /\ chan'[t][i] = chan[t][i]
               /\ j \in DOMAIN chan[u] /\ chan'[u][j] = chan[u][j]
        BY <2>5, <3>1, <1>t DEF CommandInv
    <3>2. CASE ~(i \in DOMAIN chan[t] /\ chan'[t][i] = chan[t][i]
                 /\ j \in DOMAIN chan[u] /\ chan'[u][j] = chan[u][j])
        BY <2>1, <2>2, <2>5, <3>2, <1>c
    <3> QED
        BY <3>1, <3>2
  <2>6. \A t \in Shards : \A j \in DOMAIN chan'[t] :
          (LET e == chan[t][j] IN Awaits(e.from, e, t) \/ Abandoned(e))'
      BY <2>4 DEF Awaits, Abandoned
  <2> QED
      BY <2>5, <2>6 DEF CommandInv
<1>9. BooksBalance'
  <2>1. /\ \A k \in Keys : /\ c \in ToAudit(k)' => c \in ToAudit(k)
                           /\ c \in ToAck(k)' => c \in ToAck(k)
        /\ \A t \in Shards : c \in Committed(t)' => c \in Committed(t)
      BY <1>2 DEF ToAudit, ToAck, WroteOk, Committed
  <2> QED
      BY <1>1, <1>2, <1>t, <2>1, BooksKept
<1> QED
    BY <1>5, <1>6, <1>7, <1>8, <1>9 DEF StoreInv

\* A writer opens its shard, takes a command, or fails to open: then its channel
\* is closed and whoever waits in it gets a dropped reply.
LEMMA WriterKeeps ==
    ASSUME StoreInv, NEW s \in Shards, WriterStep(s)
    PROVE  StoreInv'
<1> USE StoreAssumption
<1>t. TypeOK /\ SingleWriter /\ CallInv /\ CommandInv /\ BooksBalance
    BY DEF StoreInv
<1>1. CASE WriterOpens(s)
  <2>1. /\ writer[s] = "opening" /\ writer' = [writer EXCEPT ![s] = "running"]
        /\ UNCHANGED <<spawned, chan, call, calls, crashes>>
        /\ UNCHANGED <<applied, auditLog, records, batched, acked, batchAcks>>
      BY <1>1 DEF WriterOpens, dbVars, ackVars
  <2>2. TypeOK'
      BY <2>1, <1>t DEF TypeOK
  <2>3. SingleWriter'
      BY <2>1, <1>t DEF SingleWriter, TypeOK
  <2>4. CallInv'
    <3> SUFFICES ASSUME NEW c \in Callers PROVE CallOk(c)'
        BY DEF CallInv
    <3>1. CallOk(c) /\ call[c].shard \in Shards
        BY <1>t DEF CallInv, TypeOK, Call
    <3> QED
        BY <2>1, <3>1, <1>t DEF CallOk, TypeOK
  <2>5. CommandInv'
      BY <2>1, <1>t DEF CommandInv, Awaits, Abandoned
  <2>6. BooksBalance'
    <3>1. \A k \in Keys : ToAudit(k)' \subseteq ToAudit(k) /\ ToAck(k)' \subseteq ToAck(k)
        BY <2>1 DEF ToAudit, ToAck, WroteOk
    <3>2. \A t \in Shards : Committed(t)' \subseteq Committed(t)
        BY <2>1 DEF Committed
    <3> QED
        BY <2>1, <3>1, <3>2, <1>t, BooksFrame
  <2> QED
      BY <2>2, <2>3, <2>4, <2>5, <2>6 DEF StoreInv
<1>2. CASE WriterOpenFails(s)
  <2> DEFINE cmds == {chan[s][i] : i \in DOMAIN chan[s]}
             what == "dropped"
  <2>1. /\ writer[s] = "opening" /\ writer' = [writer EXCEPT ![s] = "dead"]
        /\ chan' = [chan EXCEPT ![s] = <<>>] /\ Replies(cmds, what)
        /\ what \in {"ok", "err", "dropped"} /\ what \in {"err", "dropped"}
        /\ UNCHANGED <<spawned, calls, crashes>> /\ calls' = calls
        /\ UNCHANGED <<applied, auditLog, records, batched, acked, batchAcks>>
      BY <1>2 DEF WriterOpenFails, dbVars, ackVars
  <2>2. /\ chan'[s] = <<>> /\ \A t \in Shards : t # s => chan'[t] = chan[t]
        /\ writer'[s] = "dead" /\ \A t \in Shards : t # s => writer'[t] = writer[t]
      BY <2>1, <1>t DEF TypeOK
  <2>3. /\ chan' \in [Shards -> Seq(Command)] /\ \A t \in Shards : Len(chan'[t]) <= ChannelCap
        /\ writer' \in [Shards -> {"none", "opening", "running", "dead"}]
    <3>1. <<>> \in Seq(Command) /\ Len(<<>>) = 0
        OBVIOUS
    <3> QED
        BY <2>1, <2>2, <3>1, <1>t DEF TypeOK
  <2>4. \A t \in Shards : writer'[t] = "none" => writer[t] = "none"
      BY <2>2
  <2>5. CommandInv'
    <3> DEFINE pos == [t \in Shards |-> [j \in Nat |-> j]]
    <3>1. Places(pos)
        BY DEF Places
    <3>2. ASSUME NEW t \in Shards, NEW j \in DOMAIN chan'[t]
          PROVE  /\ j \in Nat /\ pos[t][j] \in DOMAIN chan[t] /\ chan'[t][j] = chan[t][pos[t][j]]
                 /\ \A cmd \in cmds : cmd.from # chan'[t][j].from \/ cmd.n # chan'[t][j].n
      <4>1. t # s /\ chan'[t] = chan[t]
          BY <2>2
      <4>2. j \in Nat /\ j \in DOMAIN chan[t]
        <5>1. chan[t] \in Seq(Command)
            BY <1>t DEF TypeOK
        <5> QED
            BY <4>1, <5>1
      <4>3. ASSUME NEW i \in DOMAIN chan[s]
            PROVE  chan[s][i].from # chan[t][j].from \/ chan[s][i].n # chan[t][j].n
          BY <4>1, <4>2, <1>t DEF CommandInv
      <4> QED
          BY <4>1, <4>2, <4>3
    <3> HIDE DEF pos, cmds
    <3>3. Left(pos, cmds)
        BY <3>2 DEF Left
    <3> HIDE DEF what
    <3> QED
        BY <2>1, <3>1, <3>3, ChannelsDrain
  <2> HIDE DEF cmds, what
  <2>6. CallInv'
      BY <2>1, <2>4, RepliesKeepCalls
  <2>7. BooksBalance'
      BY <2>1, RefusalKeepsBooks
  <2>8. SingleWriter'
      BY <2>1, <2>2, <1>t DEF SingleWriter, TypeOK
  <2>9. TypeOK'
    <3>1. call' \in [Callers -> Call]
        BY <2>1, <1>t, ReplyFacts
    <3> QED
        BY <2>1, <2>3, <3>1, <1>t DEF TypeOK
  <2> QED
      BY <2>5, <2>6, <2>7, <2>8, <2>9 DEF StoreInv
<1>3. CASE WriterApplies(s)
  <2> DEFINE cmd == Head(chan[s])
             what == "ok"
  <2>1. /\ Takes(s) /\ Commits(s, cmd) /\ Replies({cmd}, what) /\ what \in {"ok", "err"}
        /\ what = "ok"
        /\ UNCHANGED <<writer, spawned, calls>> /\ UNCHANGED <<acked, batchAcks>>
        /\ crashes' = crashes
      BY <1>3 DEF WriterApplies, ackVars
  <2>2. /\ chan' \in [Shards -> Seq(Command)] /\ \A t \in Shards : Len(chan'[t]) <= ChannelCap
        /\ call' \in [Callers -> Call]
        /\ SingleWriter' /\ CallInv' /\ CommandInv'
        /\ 1 \in DOMAIN chan[s] /\ cmd = chan[s][1]
    <3> HIDE DEF what
    <3> QED
        BY <2>1, TakeKeeps
  <2>3. /\ BooksBalance' /\ applied' \in [Keys -> Nat] /\ auditLog' \in [Keys -> Nat]
        /\ records' \subseteq Keys /\ batched' \in [Shards -> Nat]
    <3> HIDE DEF cmd
    <3> QED
        BY <2>1, <2>2, CommitKeepsBooks
  <2>4. TypeOK'
      BY <2>1, <2>2, <2>3, <1>t DEF TypeOK
  <2> QED
      BY <2>2, <2>3, <2>4 DEF StoreInv
<1>4. CASE WriterErrs(s)
  <2> DEFINE cmd == Head(chan[s])
             what == "err"
  <2>1. /\ Takes(s) /\ Replies({cmd}, what) /\ what \in {"ok", "err"}
        /\ what \in {"err", "dropped"} /\ UNCHANGED <<writer, spawned, calls>>
        /\ UNCHANGED <<applied, auditLog, records, batched, acked, batchAcks>>
        /\ crashes' = crashes
      BY <1>4 DEF WriterErrs, ackVars, dbVars
  <2> HIDE DEF what
  <2>2. /\ chan' \in [Shards -> Seq(Command)] /\ \A t \in Shards : Len(chan'[t]) <= ChannelCap
        /\ call' \in [Callers -> Call]
        /\ SingleWriter' /\ CallInv' /\ CommandInv'
      BY <2>1, TakeKeeps
  <2>3. BooksBalance'
    <3> HIDE DEF cmd
    <3> QED
        BY <2>1, RefusalKeepsBooks
  <2>4. TypeOK'
      BY <2>1, <2>2, <1>t DEF TypeOK
  <2> QED
      BY <2>2, <2>3, <2>4 DEF StoreInv
<1> QED
    BY <1>1, <1>2, <1>3, <1>4 DEF WriterStep

\* The process ends: no caller is left to stand for anything, and the databases
\* are as they were.
LEMMA EndOfProcessKeeps == StoreInv /\ ProcessEnds => StoreInv'
<1> USE StoreAssumption
<1> SUFFICES ASSUME StoreInv, ProcessEnds PROVE StoreInv'
    OBVIOUS
<1>t. TypeOK /\ BooksBalance
    BY DEF StoreInv
<1>1. Resting \in Call /\ Resting.pc = "idle" /\ Resting.kind = "none"
      /\ Resting.reply = "none" /\ Resting.left = {}
    BY DEF Resting, Call, Shards
<1>2. \A c \in Callers : call'[c] = Resting
    BY DEF ProcessEnds, NobodyCalls
<1>3. UNCHANGED <<applied, auditLog, records, batched, acked, batchAcks>>
    BY DEF ProcessEnds, dbVars, ackVars
<1>4. TypeOK'
  <2>1. chan' \in [Shards -> Seq(Command)] /\ \A s \in Shards : Len(chan'[s]) = 0
      BY DEF ProcessEnds, NothingSent
  <2>2. call' \in [Callers -> Call]
      BY <1>1 DEF ProcessEnds, NobodyCalls
  <2>3. /\ writer' \in [Shards -> {"none", "opening", "running", "dead"}]
        /\ spawned' \in [Shards -> Nat] /\ crashes' \in Nat /\ calls' = calls
      BY <1>t DEF TypeOK, ProcessEnds, NoWriters, NoneSpawned
  <2> QED
      BY <1>3, <1>t, <2>1, <2>2, <2>3 DEF TypeOK
<1>5. SingleWriter'
    BY DEF ProcessEnds, SingleWriter, NoWriters, NoneSpawned, NothingSent
<1>6. CallInv'
    BY <1>1, <1>2 DEF CallInv, CallOk
<1>7. CommandInv'
    BY DEF ProcessEnds, CommandInv, NothingSent
<1>8. BooksBalance'
  <2>1. \A k \in Keys : ToAudit(k)' \subseteq ToAudit(k) /\ ToAck(k)' \subseteq ToAck(k)
      BY <1>1, <1>2 DEF ToAudit, ToAck, WroteOk
  <2>2. \A s \in Shards : Committed(s)' \subseteq Committed(s)
      BY <1>1, <1>2 DEF Committed
  <2> QED
      BY <1>3, <1>t, <2>1, <2>2, BooksFrame
<1> QED
    BY <1>4, <1>5, <1>6, <1>7, <1>8 DEF StoreInv

\* Every step keeps the invariant.
LEMMA StoreNext == StoreInv /\ [Next]_vars => StoreInv'
<1> SUFFICES ASSUME StoreInv, [Next]_vars PROVE StoreInv'
    OBVIOUS
<1>1. ASSUME NEW c \in Callers, (\E k \in Keys : Inject(c, k)) \/ Batch(c) PROVE StoreInv'
    BY <1>1, StartKeeps
<1>2. ASSUME NEW c \in Callers, CheckHit(c) \/ Timeout(c) PROVE StoreInv'
    BY <1>2, EndKeeps
<1>3. ASSUME NEW c \in Callers, CheckMiss(c) \/ Lookup(c) \/ LookupSlow(c) PROVE StoreInv'
    BY <1>3, LooksKeep
<1>4. ASSUME NEW c \in Callers, Send(c) PROVE StoreInv'
    BY <1>4, SendKeeps
<1>5. ASSUME NEW c \in Callers, SendClosed(c) \/ ReplyOk(c) \/ ReplyErr(c) PROVE StoreInv'
  <2>1. /\ call[c].pc \in {"send", "reply"} /\ (call[c].pc = "reply" => call[c].reply # "none")
        /\ UNCHANGED <<writer, spawned, chan, calls, dbVars, crashes>>
        /\ \/ Succeeds(c) /\ call[c].pc = "reply" /\ call[c].reply = "ok"
           \/ Fails(c)
      BY <1>5 DEF SendClosed, ReplyOk, ReplyErr
  <2> QED
      BY <2>1, OutcomeKeeps
<1>6. ASSUME NEW s \in Shards, WriterStep(s) PROVE StoreInv'
    BY <1>6, WriterKeeps
<1>7. CASE ProcessEnds
    BY <1>7, EndOfProcessKeeps
<1>8. CASE UNCHANGED vars
  <2>1. UNCHANGED <<writer, spawned, chan, call, calls, crashes>>
        /\ UNCHANGED <<applied, auditLog, records, batched, acked, batchAcks>>
      BY <1>8 DEF vars
  <2>2. TypeOK' /\ SingleWriter'
      BY <2>1 DEF StoreInv, TypeOK, SingleWriter
  <2>3. CallInv' /\ CommandInv'
      BY <2>1 DEF StoreInv, CallInv, CallOk, CommandInv, Awaits, Abandoned
  <2>4. BooksBalance'
      BY <2>1 DEF StoreInv, BooksBalance, ToAudit, ToAck, WroteOk, Committed
  <2> QED
      BY <2>2, <2>3, <2>4 DEF StoreInv
<1> QED
    BY <1>1, <1>2, <1>3, <1>4, <1>5, <1>6, <1>7, <1>8 DEF Next, CallerStep

-----------------------------------------------------------------------------
\* StoreInv, the strengthening, holds in every reachable state.
LEMMA StoreInvariant == Spec => []StoreInv
    BY StoreInit, StoreNext, PTL DEF Spec

\* Every variable keeps its shape, a writer's channel its capacity (query.rs).
THEOREM StoreTypeCorrect == Spec => []TypeOK
<1>1. StoreInv => TypeOK
    BY DEF StoreInv
<1> QED
    BY <1>1, StoreInvariant, PTL

\* Whatever callers race for a shard, one writer task is spawned for it, and no
\* command waits on a shard that has none (writer's second look, query.rs).
THEOREM OneWriterPerShard == Spec => []SingleWriter
<1>1. StoreInv => SingleWriter
    BY DEF StoreInv
<1> QED
    BY <1>1, StoreInvariant, PTL

\* Nothing the store remembers of a key, and nothing it told a caller, stands for
\* a write that did not happen (write_with_audit, write_batch).
THEOREM BooksAreTrue == Spec => []NothingWithoutItsWrite
<1>1. ASSUME StoreInv PROVE NothingWithoutItsWrite
  <2>1. ASSUME NEW k \in Keys
        PROVE  (k \in records => applied[k] >= 1) /\ auditLog[k] <= applied[k]
               /\ acked[k] <= applied[k]
    <3>1. /\ auditLog[k] + Cardinality(ToAudit(k)) <= applied[k]
          /\ acked[k] + Cardinality(ToAck(k)) <= applied[k]
          /\ k \in records => applied[k] >= 1
        BY <1>1 DEF StoreInv, BooksBalance
    <3>2. ToAudit(k) \in SUBSET Callers /\ ToAck(k) \in SUBSET Callers
        BY DEF ToAudit, ToAck
    <3>3. Cardinality(ToAudit(k)) \in Nat /\ Cardinality(ToAck(k)) \in Nat
        BY <3>2, CountCallers
    <3>4. auditLog[k] \in Nat /\ acked[k] \in Nat /\ applied[k] \in Nat
        BY <1>1 DEF StoreInv, TypeOK
    <3> QED
        BY <3>1, <3>3, <3>4
  <2>2. ASSUME NEW s \in Shards PROVE batchAcks <= batched[s]
    <3>1. batchAcks + Cardinality(Committed(s)) <= batched[s]
        BY <1>1 DEF StoreInv, BooksBalance
    <3>2. Committed(s) \in SUBSET Callers
        BY DEF Committed
    <3>3. Cardinality(Committed(s)) \in Nat
        BY <3>2, CountCallers
    <3>4. batchAcks \in Nat /\ batched[s] \in Nat
        BY <1>1 DEF StoreInv, TypeOK
    <3> QED
        BY <3>1, <3>3, <3>4
  <2> QED
      BY <2>1, <2>2 DEF NothingWithoutItsWrite, RecordMeansApplied, SuccessMeansApplied
<1> QED
    BY <1>1, StoreInvariant, PTL

=============================================================================
