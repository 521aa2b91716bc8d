--------------------------- MODULE WaitingProofs ----------------------------
(***************************************************************************)
(* Proofs about two of the parts MCWaiting runs.  The build lock, for any  *)
(* number of processes: its type invariant, and that builds exclude one    *)
(* another until the first of them removes the lock file.  The watcher,    *)
(* for any files, table size and number of overlapping jobs: its type      *)
(* invariant, that no save is forgotten, and that a user who waits for     *)
(* each change to be indexed finds the graph up to date.                   *)
(***************************************************************************)
EXTENDS Watcher, BuildLock, FiniteSetTheorems, SequenceTheorems, TLAPS

-----------------------------------------------------------------------------
(* The build lock. *)

\* NoFile is not the number of a file.
LEMMA InodesFacts == NoFile \notin Inodes /\ Inodes \subseteq Nat
<1>1. Cardinality(Builds) \in Nat
  BY FS_CardinalityType, BuildLockAssumption
<1> QED BY <1>1 DEF Inodes, NoFile

\* LockTypeOK and the facts about handles it needs: a process about to try the lock,
\* or inside it, has an open file.
HandleInv ==
    /\ LockTypeOK
    /\ \A b \in Builds :
        pc[b] \in {"opened", "dropping", "writing"} => fd[b] \in Inodes

\* Until the first removal the name refers to the only file there is: every
\* handle refers to it, and whoever is inside holds its lock.
OneFile ==
    \A b \in Builds :
        /\ fd[b] \in {NoFile, path}
        /\ Inside(b) => locked[path] = b

LockInv == HandleInv /\ ((\A c \in Builds : pc[c] # "done") => OneFile)

-----------------------------------------------------------------------------
\* HandleInv holds initially and is kept by every action.
LEMMA HandleInvInductive == (LockInit => HandleInv) /\ (HandleInv /\ [LockNext]_lockVars => HandleInv')
<1>1. LockInit => HandleInv
  BY DEF LockInit, HandleInv, LockTypeOK
<1>2. ASSUME HandleInv, NEW b \in Builds, Step(b) PROVE HandleInv'
  <2> USE <1>2, InodesFacts DEF HandleInv, LockTypeOK, Goes
  <2>1. CASE OpenExisting(b) BY <2>1 DEF OpenExisting
  <2>2. CASE OpenCreates(b)
    <3>1. PICK i \in Inodes : /\ path' = i /\ created' = created \cup {i}
                              /\ fd' = [fd EXCEPT ![b] = i]
      BY <2>2 DEF OpenCreates
    <3> QED BY <2>2, <3>1 DEF OpenCreates
  <2>3. CASE TryLock(b) BY <2>3 DEF TryLock, Work
  <2>4. CASE TryLockBusy(b)
    <3>1. PICK at \in {"failed", "sleeping"} : pc' = [pc EXCEPT ![b] = at]
      BY <2>4 DEF TryLockBusy
    <3> QED BY <2>4, <3>1 DEF TryLockBusy
  <2>5. CASE Wakes(b) BY <2>5 DEF Wakes
  <2>6. CASE DropsShards(b) BY <2>6 DEF DropsShards
  <2>7. CASE Unlock(b) BY <2>7 DEF Unlock
  <2>8. CASE Remove(b) BY <2>8 DEF Remove
  <2> QED BY <1>2, <2>1, <2>2, <2>3, <2>4, <2>5, <2>6, <2>7, <2>8 DEF Step
<1>3. ASSUME HandleInv, NEW b \in Builds, Killed(b) PROVE HandleInv'
  BY <1>3 DEF HandleInv, LockTypeOK, Goes, Killed
<1>4. ASSUME HandleInv, UNCHANGED lockVars PROVE HandleInv'
  BY <1>4 DEF HandleInv, LockTypeOK, lockVars
<1> QED BY <1>1, <1>2, <1>3, <1>4 DEF LockNext

\* One step of one process keeps OneFile unless it is, or comes after, a removal.
LEMMA OneFileStep ==
    ASSUME HandleInv, OneFile, NEW b \in Builds, Step(b) \/ Killed(b),
           \A c \in Builds : pc'[c] # "done"
    PROVE  OneFile'
<1> USE InodesFacts DEF HandleInv, LockTypeOK, OneFile, Inside, Goes
<1>1. CASE OpenExisting(b) BY <1>1 DEF OpenExisting
<1>2. CASE OpenCreates(b)
  <2>1. PICK i \in Inodes : path' = i /\ fd' = [fd EXCEPT ![b] = i]
    BY <1>2 DEF OpenCreates
  <2>2. \A c \in Builds : fd[c] = NoFile /\ ~Inside(c)
    BY <1>2 DEF OpenCreates
  <2> QED BY <1>2, <2>1, <2>2 DEF OpenCreates
<1>3. CASE TryLock(b)
  <2>1. fd[b] = path /\ path \in Inodes /\ locked[path] = Nobody
    BY <1>3 DEF TryLock
  <2>2. \A c \in Builds : ~Inside(c)
    BY <2>1, BuildLockAssumption
  <2> QED BY <1>3, <2>1, <2>2 DEF TryLock, Work
<1>4. CASE TryLockBusy(b)
  <2>1. PICK at \in {"failed", "sleeping"} : pc' = [pc EXCEPT ![b] = at]
    BY <1>4 DEF TryLockBusy
  <2> QED BY <1>4, <2>1 DEF TryLockBusy
<1>5. CASE Wakes(b) BY <1>5 DEF Wakes
<1>6. CASE DropsShards(b) BY <1>6 DEF DropsShards
<1>7. CASE Unlock(b) BY <1>7 DEF Unlock
<1>8. CASE Remove(b) BY <1>8 DEF Remove
<1>9. CASE Killed(b) BY <1>9 DEF Killed
<1> QED BY <1>1, <1>2, <1>3, <1>4, <1>5, <1>6, <1>7, <1>8, <1>9 DEF Step

\* LockInv is an inductive invariant.
THEOREM LockInvariant == LockSpec => []LockInv
<1>1. LockInit => LockInv
  BY HandleInvInductive, InodesFacts DEF LockInit, LockInv, OneFile, Inside
<1>2. LockInv /\ [LockNext]_lockVars => LockInv'
  <2> SUFFICES ASSUME LockInv, [LockNext]_lockVars PROVE LockInv'
    OBVIOUS
  <2>1. HandleInv'
    BY HandleInvInductive DEF LockInv
  <2>2. ASSUME \A c \in Builds : pc'[c] # "done" PROVE OneFile'
    <3>1. \A c \in Builds : pc[c] # "done"
      BY <2>2 DEF LockInv, HandleInv, LockTypeOK, LockNext, Step, Killed, OpenExisting,
         OpenCreates, TryLock, TryLockBusy, Wakes, DropsShards, Unlock, Remove, Goes, lockVars
    <3>2. CASE UNCHANGED lockVars
      BY <3>1, <3>2 DEF LockInv, OneFile, Inside, lockVars
    <3>3. CASE LockNext
      BY <2>2, <3>1, <3>3, OneFileStep DEF LockInv, LockNext
    <3> QED BY <3>2, <3>3
  <2> QED BY <2>1, <2>2 DEF LockInv
<1> QED BY <1>1, <1>2, PTL DEF LockSpec

\* LockTypeOK of the build lock holds for any set of processes.
THEOREM LockTypeCorrect == LockSpec => []LockTypeOK
<1>1. LockInv => LockTypeOK
  BY DEF LockInv, HandleInv
<1> QED BY <1>1, LockInvariant, PTL

\* Until the first removal of the lock file at most one build is inside.
THEOREM LockExclusion == LockSpec => []ExclusiveUntilRemoval
<1>1. LockInv => ExclusiveUntilRemoval
  BY DEF LockInv, OneFile, ExclusiveUntilRemoval
<1> QED BY <1>1, LockInvariant, PTL

-----------------------------------------------------------------------------
(* The watcher: sequences that grow at the end and shrink at the front. *)

\* The elements of a concatenation are those of the two parts, in order.
LEMMA Joined ==
    ASSUME NEW S, NEW s \in Seq(S), NEW t \in Seq(S)
    PROVE  /\ s \o t \in Seq(S)
           /\ Len(s) \in Nat /\ Len(t) \in Nat
           /\ DOMAIN (s \o t) = 1 .. Len(s) + Len(t)
           /\ DOMAIN s = 1 .. Len(s) /\ DOMAIN t = 1 .. Len(t)
           /\ \A i \in DOMAIN s : (s \o t)[i] = s[i]
           /\ \A i \in DOMAIN t : (s \o t)[Len(s) + i] = t[i]
<1>1. /\ s \o t \in Seq(S) /\ Len(s \o t) = Len(s) + Len(t)
      /\ \A i \in 1 .. Len(s) + Len(t) :
            (s \o t)[i] = IF i <= Len(s) THEN s[i] ELSE t[i - Len(s)]
  BY ConcatProperties
<1>2. Len(s) \in Nat /\ Len(t) \in Nat /\ DOMAIN s = 1 .. Len(s) /\ DOMAIN t = 1 .. Len(t)
  BY LenProperties
<1>3. DOMAIN (s \o t) = 1 .. Len(s) + Len(t)
  BY <1>1, LenProperties
<1>4. ASSUME NEW i \in DOMAIN s PROVE (s \o t)[i] = s[i]
  BY <1>1, <1>2, <1>4
<1>5. ASSUME NEW i \in DOMAIN t PROVE (s \o t)[Len(s) + i] = t[i]
  <2>1. Len(s) + i \in 1 .. Len(s) + Len(t) /\ ~(Len(s) + i <= Len(s)) /\ Len(s) + i - Len(s) = i
    BY <1>2, <1>5
  <2> QED BY <1>1, <2>1
<1> QED BY <1>1, <1>2, <1>3, <1>4, <1>5

\* Without its head a sequence holds what it held, one place further on.
LEMMA Shifted ==
    ASSUME NEW S, NEW s \in Seq(S), s # <<>>
    PROVE  /\ Tail(s) \in Seq(S) /\ Head(s) \in S
           /\ 1 \in DOMAIN s /\ s[1] = Head(s)
           /\ DOMAIN s \subseteq Nat
           /\ \A i \in DOMAIN Tail(s) : i \in Nat /\ i + 1 \in DOMAIN s /\ Tail(s)[i] = s[i + 1]
           /\ \A i \in DOMAIN s : i > 1 => i - 1 \in DOMAIN Tail(s) /\ Tail(s)[i - 1] = s[i]
<1>1. /\ Head(s) \in S /\ Tail(s) \in Seq(S) /\ Head(s) = s[1]
      /\ Len(Tail(s)) = Len(s) - 1
      /\ \A i \in 1 .. Len(Tail(s)) : Tail(s)[i] = s[i + 1]
  BY HeadTailProperties
<1>2. Len(s) \in Nat /\ Len(s) # 0 /\ DOMAIN s = 1 .. Len(s) /\ DOMAIN Tail(s) = 1 .. Len(s) - 1
  BY <1>1, LenProperties, EmptySeq
<1> QED BY <1>1, <1>2


-----------------------------------------------------------------------------
(* The watcher: what each kind of step keeps. *)

Reported == (Files \cup {"ignored"}) \X Kinds

\* A change of the user's appends its events.  Each saved file is one that was
\* on its way already, untouched by the new events, or has its upsert among them
\* after any delete.
LEMMA UserStep ==
    ASSUME SaveInv, NEW t \in Seq(Reported), raw' = raw \o t, UNCHANGED userVars,
           \A f \in unread' :
             \/ /\ f \in unread /\ (f \in lost => f \in lost')
                /\ \A i \in DOMAIN t : t[i] # <<f, "delete">>
             \/ \E i \in DOMAIN t : /\ t[i] = <<f, "upsert">>
                                    /\ \A k \in DOMAIN t : t[k] = <<f, "delete">> => k < i
    PROVE  QueueOK' /\ JobsOK' /\ SavesOnTheirWay' /\ DeletesAreOlder'
<1>1. raw \in Seq(Reported)
  BY DEF SaveInv, QueueOK, Reported
<1>2. /\ raw' \in Seq(Reported)
      /\ Len(raw) \in Nat /\ Len(t) \in Nat
      /\ DOMAIN raw' = 1 .. Len(raw) + Len(t)
      /\ DOMAIN raw = 1 .. Len(raw) /\ DOMAIN t = 1 .. Len(t)
      /\ \A i \in DOMAIN raw : raw'[i] = raw[i]
      /\ \A i \in DOMAIN t : raw'[Len(raw) + i] = t[i]
  BY <1>1, Joined
<1>3. UNCHANGED <<pending, job>>
  BY DEF userVars
<1>4. QueueOK' /\ JobsOK'
  BY <1>2, <1>3 DEF SaveInv, QueueOK, JobsOK, Reported
<1>5. ASSUME NEW f \in unread', f \notin lost' PROVE OnItsWay(f)'
  <2>1. CASE f \in unread /\ (f \in lost => f \in lost')
    <3>1. OnItsWay(f)
      BY <1>5, <2>1 DEF SaveInv, SavesOnTheirWay
    <3>2. DOMAIN raw \subseteq DOMAIN raw'
      BY <1>2
    <3> QED BY <1>2, <1>3, <3>1, <3>2 DEF OnItsWay
  <2>2. CASE \E i \in DOMAIN t : t[i] = <<f, "upsert">>
    <3>1. PICK i \in DOMAIN t : t[i] = <<f, "upsert">>
      BY <2>2
    <3>2. Len(raw) + i \in DOMAIN raw' /\ raw'[Len(raw) + i] = <<f, "upsert">>
      BY <1>2, <3>1
    <3> QED BY <3>2 DEF OnItsWay
  <2> QED BY <1>5, <2>1, <2>2
<1>6. ASSUME NEW f \in unread', NEW i \in DOMAIN raw', raw'[i] = <<f, "delete">>
      PROVE  \E k \in DOMAIN raw' : k > i /\ raw'[k] = <<f, "upsert">>
  <2>1. CASE \E m \in DOMAIN t : /\ t[m] = <<f, "upsert">>
                                 /\ \A k \in DOMAIN t : t[k] = <<f, "delete">> => k < m
    <3>1. PICK m \in DOMAIN t : /\ t[m] = <<f, "upsert">>
                                /\ \A k \in DOMAIN t : t[k] = <<f, "delete">> => k < m
      BY <2>1
    <3>2. Len(raw) + m \in DOMAIN raw' /\ raw'[Len(raw) + m] = <<f, "upsert">>
      BY <1>2, <3>1
    <3>3. i < Len(raw) + m
      <4>1. CASE i \in DOMAIN raw
        BY <1>2, <3>1, <4>1
      <4>2. CASE i \notin DOMAIN raw
        <5>1. i - Len(raw) \in DOMAIN t /\ Len(raw) + (i - Len(raw)) = i
          BY <1>2, <4>2
        <5>2. t[i - Len(raw)] = <<f, "delete">>
          BY <1>2, <1>6, <5>1
        <5>3. i - Len(raw) < m
          BY <3>1, <5>1, <5>2
        <5> QED BY <1>2, <3>1, <5>3
      <4> QED BY <4>1, <4>2
    <3> QED BY <3>2, <3>3, <1>2
  <2>2. CASE f \in unread /\ \A m \in DOMAIN t : t[m] # <<f, "delete">>
    <3>1. i \in DOMAIN raw
      <4> SUFFICES ASSUME i \notin DOMAIN raw PROVE FALSE
        OBVIOUS
      <4>1. i - Len(raw) \in DOMAIN t /\ Len(raw) + (i - Len(raw)) = i
        BY <1>2
      <4> QED BY <1>2, <1>6, <2>2, <4>1
    <3>2. raw[i] = <<f, "delete">>
      BY <1>2, <1>6, <3>1
    <3>3. PICK k \in DOMAIN raw : k > i /\ raw[k] = <<f, "upsert">>
      BY <2>2, <3>1, <3>2 DEF SaveInv, DeletesAreOlder
    <3> QED BY <1>2, <3>3
  <2> QED BY <1>6, <2>1, <2>2
<1> QED BY <1>4, <1>5, <1>6 DEF SavesOnTheirWay, DeletesAreOlder

\* The debouncer takes the oldest event.  If it was the upsert of a saved file,
\* it is in the table now, or the file is lost; if it was a delete that turns a
\* pending upsert into a delete, the upsert of the save is still to come.
LEMMA DebounceStep ==
    ASSUME SaveInv, Debounce
    PROVE  QueueOK' /\ SavesOnTheirWay' /\ DeletesAreOlder'
<1> DEFINE h == Head(raw)[1]
           kind == Head(raw)[2]
<1>1. raw \in Seq(Reported) /\ raw # <<>> /\ raw' = Tail(raw)
  BY DEF SaveInv, QueueOK, Reported, Debounce
<1>2. /\ Tail(raw) \in Seq(Reported) /\ Head(raw) \in Reported
      /\ 1 \in DOMAIN raw /\ raw[1] = Head(raw)
      /\ DOMAIN raw \subseteq Nat
      /\ \A i \in DOMAIN raw' : i \in Nat /\ i + 1 \in DOMAIN raw /\ raw'[i] = raw[i + 1]
      /\ \A i \in DOMAIN raw : i > 1 => i - 1 \in DOMAIN raw' /\ raw'[i - 1] = raw[i]
  BY <1>1, Shifted
<1>3. h \in Files /\ kind \in Kinds /\ Head(raw) = <<h, kind>>
  BY <1>2 DEF Debounce, Reported
<1>4. /\ pending' = IF Full THEN pending ELSE Pends(h, kind)
      /\ lost' = IF Full \/ kind # Coalesce(h, kind) THEN lost \cup {h} ELSE lost
      /\ UNCHANGED <<job, unread>>
  BY DEF Debounce
<1>5. QueueOK
  BY DEF SaveInv
<1> HIDE DEF h, kind
<1>6. QueueOK'
  <2>1. CASE Full
    BY <1>1, <1>2, <1>4, <1>5, <2>1 DEF QueueOK, Reported
  <2>2. CASE ~Full
    <3>1. pending' = Pends(h, kind)
      BY <1>4, <2>2
    <3>2. Coalesce(h, kind) \in Kinds
      BY <1>3 DEF Coalesce, Kinds
    <3>3. DOMAIN pending' = DOMAIN pending \cup {h} /\ pending' \in [DOMAIN pending' -> Kinds]
      BY <1>5, <3>1, <3>2 DEF Pends, QueueOK
    <3>4. IsFiniteSet(DOMAIN pending') /\ Cardinality(DOMAIN pending') <= MaxPending
      <4>1. /\ IsFiniteSet(DOMAIN pending \cup {h})
            /\ \/ Cardinality(DOMAIN pending \cup {h}) = Cardinality(DOMAIN pending)
               \/ Cardinality(DOMAIN pending \cup {h}) = Cardinality(DOMAIN pending) + 1
        BY <1>5, FS_AddElement DEF QueueOK
      <4>2. Cardinality(DOMAIN pending) \in Nat /\ ~(Cardinality(DOMAIN pending) >= MaxPending)
        BY <1>5, <2>2, FS_CardinalityType DEF QueueOK, Full
      <4> QED BY <3>3, <4>1, <4>2, WatcherAssumption
    <3> QED BY <1>1, <1>2, <1>3, <1>5, <3>3, <3>4 DEF QueueOK, Reported
  <2> QED BY <2>1, <2>2
<1>7. ASSUME NEW f \in unread', f \notin lost' PROVE OnItsWay(f)'
  <2>1. f \in unread /\ f \notin lost /\ OnItsWay(f)
    BY <1>4, <1>7 DEF SaveInv, SavesOnTheirWay
  <2>2. CASE \E i \in DOMAIN raw : raw[i] = <<f, "upsert">> /\ i > 1
    BY <1>2, <2>2 DEF OnItsWay
  <2>3. CASE raw[1] = <<f, "upsert">>
    <3>1. f = h /\ kind = "upsert"
      BY <1>2, <1>3, <2>3
    <3>2. ~Full /\ Coalesce(h, kind) = "upsert"
      BY <1>4, <1>7, <3>1
    <3> QED BY <1>4, <3>1, <3>2 DEF OnItsWay, Pends
  <2>4. CASE f \in DOMAIN pending /\ pending[f] = "upsert"
    <3>1. CASE Full \/ f # h
      BY <1>4, <2>4, <3>1 DEF OnItsWay, Pends
    <3>2. CASE ~Full /\ f = h /\ kind = "upsert"
      BY <1>4, <2>4, <3>2 DEF OnItsWay, Pends, Coalesce
    <3>3. CASE f = h /\ kind = "delete"
      <4>1. PICK k \in DOMAIN raw : k > 1 /\ raw[k] = <<f, "upsert">>
        BY <1>2, <1>3, <2>1, <3>3 DEF SaveInv, DeletesAreOlder
      <4> QED BY <2>2, <4>1
    <3> QED BY <1>3, <3>1, <3>2, <3>3 DEF Kinds
  <2>5. CASE \E j \in Jobs : job[j].file = f /\ job[j].pc = "upsert"
    BY <1>4, <2>5 DEF OnItsWay
  <2>6. ASSUME NEW i \in DOMAIN raw PROVE i = 1 \/ i > 1
    <3>1. DOMAIN raw = 1 .. Len(raw) /\ Len(raw) \in Nat
      BY <1>1, LenProperties
    <3> QED BY <3>1
  <2> QED BY <2>1, <2>2, <2>3, <2>4, <2>5, <2>6 DEF OnItsWay
<1>8. ASSUME NEW f \in unread', NEW i \in DOMAIN raw', raw'[i] = <<f, "delete">>
      PROVE  \E k \in DOMAIN raw' : k > i /\ raw'[k] = <<f, "upsert">>
  <2>1. i \in Nat /\ i + 1 \in DOMAIN raw /\ raw[i + 1] = <<f, "delete">>
    BY <1>2, <1>8
  <2>2. PICK k \in DOMAIN raw : k > i + 1 /\ raw[k] = <<f, "upsert">>
    BY <1>4, <1>8, <2>1 DEF SaveInv, DeletesAreOlder
  <2>3. k \in Nat /\ k > 1 /\ k - 1 > i
    BY <1>2, <2>1, <2>2
  <2> QED BY <1>2, <2>2, <2>3
<1> QED BY <1>6, <1>7, <1>8 DEF SavesOnTheirWay, DeletesAreOlder


\* A step that leaves the channel and the table alone, and every job that is
\* about to read a file that stays unread, keeps the saves on their way.
LEMMA QuietStep ==
    ASSUME SaveInv, UNCHANGED <<raw, pending>>, lost \subseteq lost', unread' \subseteq unread,
           \A f \in unread' : \A j \in Jobs :
               job[j].file = f /\ job[j].pc = "upsert" => job'[j].file = f /\ job'[j].pc = "upsert"
    PROVE  QueueOK' /\ SavesOnTheirWay' /\ DeletesAreOlder'
<1>1. QueueOK'
  BY DEF SaveInv, QueueOK
<1>2. SavesOnTheirWay'
  BY DEF SaveInv, SavesOnTheirWay, OnItsWay
<1>3. DeletesAreOlder'
  BY DEF SaveInv, DeletesAreOlder
<1> QED BY <1>1, <1>2, <1>3

\* A free job is one that has nothing to do.
LEMMA FreeJobIsFree ==
    ASSUME \E j \in Jobs : job[j].pc = "none"
    PROVE  FreeJob \in Jobs /\ job[FreeJob].pc = "none"
BY DEF FreeJob

\* A tick moves a ripe path from the table to a job that is about to handle it.
LEMMA FlushStep ==
    ASSUME SaveInv, NEW g \in Files, Flush(g)
    PROVE  QueueOK' /\ JobsOK' /\ SavesOnTheirWay' /\ DeletesAreOlder'
<1>1. /\ g \in DOMAIN pending
      /\ pending' = [h \in DOMAIN pending \ {g} |-> pending[h]]
      /\ UNCHANGED <<raw, unread, lost>>
  BY DEF Flush
<1>2. QueueOK /\ JobsOK
  BY DEF SaveInv
<1>3. QueueOK'
  <2>1. DOMAIN pending' = DOMAIN pending \ {g} /\ pending' \in [DOMAIN pending' -> Kinds]
    BY <1>1, <1>2 DEF QueueOK
  <2>2. IsFiniteSet(DOMAIN pending') /\ Cardinality(DOMAIN pending') <= MaxPending
    <3>1. /\ IsFiniteSet(DOMAIN pending \ {g})
          /\ Cardinality(DOMAIN pending \ {g}) = Cardinality(DOMAIN pending) - 1
      BY <1>1, <1>2, FS_RemoveElement DEF QueueOK
    <3>2. Cardinality(DOMAIN pending) \in Nat
      BY <1>2, FS_CardinalityType DEF QueueOK
    <3> QED BY <1>2, <2>1, <3>1, <3>2, WatcherAssumption DEF QueueOK
  <2> QED BY <1>1, <1>2, <2>1, <2>2 DEF QueueOK
<1>4. FreeJob \in Jobs /\ job[FreeJob].pc = "none"
  BY FreeJobIsFree DEF Flush
<1>5. PICK n \in JobRecords :
        n.file = g /\ n.pc = pending[g] /\ job' = [job EXCEPT ![FreeJob] = n]
  <2>1. pending[g] \in Kinds
    BY <1>1, <1>2 DEF QueueOK
  <2>2. PICK n : n = [NoJob EXCEPT !.file = g, !.pc = pending[g]]
    OBVIOUS
  <2>3. n = [pc |-> pending[g], file |-> g, todo |-> {}, new |-> {}]
    BY <2>2 DEF NoJob
  <2>4. n \in JobRecords /\ n.file = g /\ n.pc = pending[g]
    BY <2>1, <2>3 DEF JobRecords, Kinds, Places
  <2>5. job' = [job EXCEPT ![FreeJob] = n]
    BY <2>2 DEF Flush
  <2> QED BY <2>4, <2>5
<1>6. JobsOK'
  BY <1>2, <1>4, <1>5 DEF JobsOK
<1>7. ASSUME NEW f \in unread', f \notin lost' PROVE OnItsWay(f)'
  <2>1. OnItsWay(f)
    BY <1>1, <1>7 DEF SaveInv, SavesOnTheirWay
  <2>2. CASE \E i \in DOMAIN raw : raw[i] = <<f, "upsert">>
    BY <1>1, <2>2 DEF OnItsWay
  <2>3. CASE f \in DOMAIN pending /\ pending[f] = "upsert"
    <3>1. CASE f = g
      BY <1>2, <1>4, <1>5, <2>3, <3>1 DEF OnItsWay, JobsOK
    <3>2. CASE f # g
      BY <1>1, <2>3, <3>2 DEF OnItsWay
    <3> QED BY <3>1, <3>2
  <2>4. CASE \E j \in Jobs : job[j].file = f /\ job[j].pc = "upsert"
    BY <1>2, <1>4, <1>5, <2>4 DEF OnItsWay, JobsOK
  <2> QED BY <2>1, <2>2, <2>3, <2>4 DEF OnItsWay
<1>8. DeletesAreOlder'
  BY <1>1 DEF SaveInv, DeletesAreOlder
<1> QED BY <1>3, <1>6, <1>7, <1>8 DEF SavesOnTheirWay

\* A job's record after it moves on keeps the shape and the file.
LEMMA TurnKeepsFile ==
    ASSUME JobsOK, NEW j \in Jobs, job[j].pc # "none", NEW place \in Places,
           NEW todo \in SUBSET Nodes, NEW new \in SUBSET Nodes,
           TurnsTo(j, place, todo, new)
    PROVE  /\ JobsOK' /\ job'[j].file = job[j].file /\ job'[j].pc = place
           /\ \A i \in Jobs \ {j} : job'[i] = job[i]
<1>1. job[j] \in JobRecords /\ job[j].file \in Files
  BY DEF JobsOK
<1>2. PICK n : n = [job[j] EXCEPT !.pc = place, !.todo = todo, !.new = new]
  OBVIOUS
<1>3. n \in JobRecords /\ n.file = job[j].file /\ n.pc = place
  BY <1>1, <1>2 DEF JobRecords
<1>4. job' = [job EXCEPT ![j] = n]
  BY <1>1, <1>2 DEF TurnsTo, JobsOK, JobRecords
<1> QED BY <1>1, <1>3, <1>4 DEF JobsOK

\* A job that works through a set of nodes keeps everything else.
LEMMA WorkKeepsFile ==
    ASSUME JobsOK, NEW j \in Jobs, NEW x, Without(<<j, x>>)
    PROVE  /\ JobsOK' /\ job'[j].file = job[j].file /\ job'[j].pc = job[j].pc
           /\ \A i \in Jobs \ {j} : job'[i] = job[i]
<1>1. job[j] \in JobRecords
  BY DEF JobsOK
<1>2. PICK n : n = [job[j] EXCEPT !.todo = @ \ {x}]
  OBVIOUS
<1>3. n \in JobRecords /\ n.file = job[j].file /\ n.pc = job[j].pc
  BY <1>1, <1>2 DEF JobRecords
<1>4. job' = [job EXCEPT ![j] = n]
  BY <1>1, <1>2 DEF Without, JobsOK, JobRecords
<1> QED BY <1>1, <1>3, <1>4 DEF JobsOK

\* A job that ends frees its place.
LEMMA EndsKeepsJobs ==
    ASSUME JobsOK, NEW j \in Jobs, job' = [job EXCEPT ![j] = NoJob]
    PROVE  /\ JobsOK' /\ job'[j].pc = "none"
           /\ \A i \in Jobs \ {j} : job'[i] = job[i]
<1>1. NoJob \in JobRecords /\ NoJob.pc = "none"
  BY DEF NoJob, JobRecords, Places
<1> QED BY <1>1 DEF JobsOK


\* What a step of a job notes in the two histories of what was lost: nothing, a
\* loss of its own file, or that the file is looked at anew.
Notes(j) ==
    \/ UNCHANGED <<missed, orphaned>>
    \/ Misses(j, TRUE) \/ Misses(j, FALSE)
    \/ missed' = missed \ {job[j].file} /\ UNCHANGED orphaned

\* Every step of a job is one of these.
LEMMA StepNotes ==
    ASSUME NEW j \in Jobs, JobStep(j)
    PROVE  Notes(j) /\ job[j].pc # "none"
<1> USE DEF At, Notes, graphVars
<1>1. CASE DeleteReads(j) BY <1>1 DEF DeleteReads, AsksNodes
<1>2. CASE DeleteUnlinks(j) BY <1>2 DEF DeleteUnlinks, Writes
<1>3. CASE DeleteNodes(j) BY <1>3 DEF DeleteNodes, Writes
<1>4. CASE UpsertUnsupported(j) BY <1>4 DEF UpsertUnsupported
<1>5. CASE UpsertReads(j) BY <1>5 DEF UpsertReads
<1>6. CASE UpsertFails(j) BY <1>6 DEF UpsertFails
<1>7. CASE UpsertParses(j) BY <1>7 DEF UpsertParses, AsksNodes
<1>8. CASE UpsertWipes(j) BY <1>8 DEF UpsertWipes, Writes
<1>9. CASE UpsertWiped(j) BY <1>9 DEF UpsertWiped
<1>10. CASE UpsertInsertsNode(j) BY <1>10 DEF UpsertInsertsNode, Writes
<1>11. CASE UpsertHasNodes(j) BY <1>11 DEF UpsertHasNodes
<1>12. CASE UpsertInsertsEdge(j) BY <1>12 DEF UpsertInsertsEdge, Writes
<1>13. CASE UpsertDone(j) BY <1>13 DEF UpsertDone
<1>14. CASE Records(j) BY <1>14 DEF Records
<1> QED BY <1>1, <1>2, <1>3, <1>4, <1>5, <1>6, <1>7, <1>8, <1>9, <1>10, <1>11, <1>12, <1>13,
           <1>14 DEF JobStep

\* Either way only the file at hand gains or loses a mark, and a mark of orphans
\* stays.
LEMMA NotesOfOne ==
    ASSUME NEW j \in Jobs, Notes(j)
    PROVE  /\ orphaned \subseteq orphaned'
           /\ \A g : g # job[j].file => /\ g \in missed' <=> g \in missed
                                        /\ g \in orphaned' <=> g \in orphaned
           /\ missed' \subseteq missed \cup {job[j].file}
           /\ orphaned' \subseteq orphaned \cup {job[j].file}
BY DEF Notes, Misses

\* What a step of a job writes: its own record, and rows of the two tables.
LEMMA JobStepKeeps ==
    ASSUME SaveInv, NEW j \in Jobs, JobStep(j)
    PROVE  /\ JobsOK' /\ TablesOK'
           /\ \A i \in Jobs \ {j} : job'[i] = job[i]
           /\ UNCHANGED <<raw, pending, lost>>
           /\ unread' \subseteq unread
           /\ job[j].pc = "upsert" => job[j].file \notin unread'
<1> USE DEF watchVars, At, graphVars
<1>1. /\ JobsOK /\ disk \in [Files -> (SUBSET Symbols) \cup {Absent}] /\ unread \subseteq Files
      /\ nodes \subseteq Nodes /\ edges \in [Nodes -> Nat]
  BY DEF SaveInv, TablesOK
<1>2. job[j] \in JobRecords /\ job[j].pc # "none" /\ job[j].file \in Files
  BY <1>1, StepNotes DEF JobsOK
<1>3. /\ job[j].todo \in SUBSET Nodes /\ job[j].new \in SUBSET Nodes
      /\ KnownNodes(job[j].file) \in SUBSET Nodes
      /\ {} \in SUBSET Nodes
  BY <1>1, <1>2 DEF JobRecords, KnownNodes
<1>4. Places = {"none", "delete", "unlink", "upsert", "parse", "wipe", "nodes", "edges",
                "record", "stuck"}
  BY DEF Places
<1>5. missed' \subseteq Files /\ orphaned' \subseteq Files
  BY <1>2, StepNotes, NotesOfOne DEF SaveInv, TablesOK
<1> DEFINE OnlyJ == /\ JobsOK' /\ \A i \in Jobs \ {j} : job'[i] = job[i]
                    /\ UNCHANGED <<disk, raw, pending, lost>>
                    /\ unread' \subseteq unread
                    /\ job[j].pc = "upsert" => job[j].file \notin unread'
<1>6. ASSUME OnlyJ, nodes' \subseteq Nodes, edges' \in [Nodes -> Nat]
      PROVE  OnlyJ /\ TablesOK'
  BY <1>1, <1>5, <1>6 DEF TablesOK
<1>7. ASSUME NEW place \in Places, NEW todo \in SUBSET Nodes, NEW new \in SUBSET Nodes,
             TurnsTo(j, place, todo, new)
      PROVE  JobsOK' /\ \A i \in Jobs \ {j} : job'[i] = job[i]
  BY <1>1, <1>2, <1>7, TurnKeepsFile
<1>8. ASSUME NEW x, Without(<<j, x>>)
      PROVE  JobsOK' /\ \A i \in Jobs \ {j} : job'[i] = job[i]
  BY <1>1, <1>8, WorkKeepsFile
<1>9. ASSUME UpsertSkips(j)
      PROVE  JobsOK' /\ \A i \in Jobs \ {j} : job'[i] = job[i]
  BY <1>1, <1>9, EndsKeepsJobs DEF UpsertSkips
<1>10. UNCHANGED <<nodes, edges>> => nodes' \subseteq Nodes /\ edges' \in [Nodes -> Nat]
  BY <1>1
<1>11. CASE DeleteReads(j)
  <2>1. CASE TurnsTo(j, "unlink", KnownNodes(job[j].file), {})
    BY <1>3, <1>4, <1>6, <1>7, <1>10, <1>11, <2>1 DEF DeleteReads
  <2>2. CASE TurnsTo(j, "unlink", {}, {})
    BY <1>3, <1>4, <1>6, <1>7, <1>10, <1>11, <2>2 DEF DeleteReads
  <2> QED BY <1>11, <2>1, <2>2 DEF DeleteReads, AsksNodes
<1>12. CASE DeleteUnlinks(j)
  <2>1. PICK x \in job[j].todo : (Unlinks(x) \/ UNCHANGED <<nodes, edges>>) /\ Without(<<j, x>>)
    BY <1>12 DEF DeleteUnlinks, Writes
  <2>2. nodes' \subseteq Nodes /\ edges' \in [Nodes -> Nat]
    BY <1>1, <2>1 DEF Unlinks
  <2> QED BY <1>6, <1>8, <1>12, <2>1, <2>2 DEF DeleteUnlinks
<1>13. CASE DeleteNodes(j)
  <2>1. nodes' \subseteq Nodes /\ edges' \in [Nodes -> Nat]
    BY <1>1, <1>13 DEF DeleteNodes, Writes, Forgets
  <2> QED BY <1>3, <1>4, <1>6, <1>7, <1>13, <2>1 DEF DeleteNodes
<1>14. CASE UpsertUnsupported(j)
  BY <1>3, <1>4, <1>6, <1>7, <1>10, <1>14 DEF UpsertUnsupported
<1>15. CASE UpsertReads(j)
  <2>1. CASE UpsertSkips(j)
    BY <1>6, <1>9, <1>10, <1>15, <2>1 DEF UpsertReads
  <2>2. CASE disk[job[j].file] # Absent /\ TurnsTo(j, "parse", {}, NodesOf(job[j].file, disk[job[j].file]))
    <3>1. disk[job[j].file] \in SUBSET Symbols
      BY <1>1, <1>2, <2>2
    <3>2. NodesOf(job[j].file, disk[job[j].file]) \in SUBSET Nodes
      BY <1>2, <3>1 DEF NodesOf, Nodes
    <3> QED BY <1>3, <1>4, <1>6, <1>7, <1>10, <1>15, <2>2, <3>2 DEF UpsertReads
  <2> QED BY <1>15, <2>1, <2>2 DEF UpsertReads
<1>16. CASE UpsertFails(j)
  BY <1>6, <1>9, <1>10, <1>16 DEF UpsertFails
<1>17. CASE UpsertParses(j)
  <2>1. CASE TurnsTo(j, "wipe", KnownNodes(job[j].file), job[j].new)
    BY <1>3, <1>4, <1>6, <1>7, <1>10, <1>17, <2>1 DEF UpsertParses
  <2>2. CASE TurnsTo(j, "wipe", {}, job[j].new)
    BY <1>3, <1>4, <1>6, <1>7, <1>10, <1>17, <2>2 DEF UpsertParses
  <2> QED BY <1>17, <2>1, <2>2 DEF UpsertParses, AsksNodes
<1>18. CASE UpsertWipes(j)
  <2>1. PICK x \in job[j].todo : (Wipes(x) \/ UNCHANGED <<nodes, edges>>) /\ Without(<<j, x>>)
    BY <1>18 DEF UpsertWipes, Writes
  <2>2. nodes' \subseteq Nodes /\ edges' \in [Nodes -> Nat]
    BY <1>1, <2>1 DEF Wipes
  <2> QED BY <1>6, <1>8, <1>18, <2>1, <2>2 DEF UpsertWipes
<1>19. CASE UpsertWiped(j)
  BY <1>3, <1>4, <1>6, <1>7, <1>10, <1>19 DEF UpsertWiped
<1>20. CASE UpsertInsertsNode(j)
  <2>1. PICK x \in job[j].todo : (InsertsNode(x) \/ UNCHANGED <<nodes, edges>>) /\ Without(<<j, x>>)
    BY <1>20 DEF UpsertInsertsNode, Writes
  <2>2. nodes' \subseteq Nodes /\ edges' \in [Nodes -> Nat]
    BY <1>1, <1>3, <2>1 DEF InsertsNode
  <2> QED BY <1>6, <1>8, <1>20, <2>1, <2>2 DEF UpsertInsertsNode
<1>21. CASE UpsertHasNodes(j)
  BY <1>3, <1>4, <1>6, <1>7, <1>10, <1>21 DEF UpsertHasNodes
<1>22. CASE UpsertInsertsEdge(j)
  <2>1. PICK x \in job[j].todo : (InsertsEdge(x) \/ UNCHANGED <<nodes, edges>>) /\ Without(<<j, x>>)
    BY <1>22 DEF UpsertInsertsEdge, Writes
  <2>2. nodes' \subseteq Nodes /\ edges' \in [Nodes -> Nat]
    <3>1. \A y \in Nodes : edges[y] \in Nat /\ edges[y] + 1 \in Nat
      BY <1>1
    <3> QED BY <1>1, <2>1, <3>1 DEF InsertsEdge
  <2> QED BY <1>6, <1>8, <1>22, <2>1, <2>2 DEF UpsertInsertsEdge
<1>23. CASE UpsertDone(j)
  BY <1>3, <1>4, <1>6, <1>7, <1>10, <1>23 DEF UpsertDone
<1>24. CASE Records(j)
  BY <1>1, <1>6, <1>10, <1>24, EndsKeepsJobs DEF Records
<1> QED BY <1>11, <1>12, <1>13, <1>14, <1>15, <1>16, <1>17, <1>18, <1>19, <1>20, <1>21,
           <1>22, <1>23, <1>24 DEF JobStep

\* The changes of files, each an instance of UserStep.
LEMMA UserKeeps ==
    ASSUME SaveInv, NEW f \in Files, Saves(f) \/ Removes(f) \/ (\E g \in Files : Renames(f, g))
    PROVE  QueueOK' /\ JobsOK' /\ TablesOK' /\ SavesOnTheirWay' /\ DeletesAreOlder'
<1>1. /\ disk \in [Files -> (SUBSET Symbols) \cup {Absent}] /\ unread \subseteq Files
      /\ nodes \subseteq Nodes /\ edges \in [Nodes -> Nat]
      /\ missed \subseteq Files /\ orphaned \subseteq Files
  BY DEF SaveInv, TablesOK
<1>2. CASE Saves(f)
  <2>1. PICK t : t = <<<<f, "upsert">>>>
    OBVIOUS
  <2>2. t \in Seq(Reported) /\ DOMAIN t = {1} /\ t[1] = <<f, "upsert">>
    BY <2>1 DEF Reported, Kinds
  <2>3. /\ raw' = raw \o t /\ UNCHANGED userVars
        /\ unread' = unread \cup {f} /\ lost' = lost \ {f}
    BY <1>2, <2>1 DEF Saves, Reports
  <2>4. TablesOK'
    <3>1. \E c \in SUBSET Symbols : disk' = [disk EXCEPT ![f] = c]
      BY <1>2 DEF Saves
    <3>2. disk' \in [Files -> (SUBSET Symbols) \cup {Absent}]
      BY <1>1, <3>1
    <3>3. UNCHANGED graphVars /\ unread' \subseteq Files
      BY <1>1, <2>3 DEF userVars
    <3> QED BY <1>1, <3>2, <3>3 DEF TablesOK, graphVars
  <2>5. ASSUME NEW h \in unread'
        PROVE  \/ /\ h \in unread /\ (h \in lost => h \in lost')
                  /\ \A i \in DOMAIN t : t[i] # <<h, "delete">>
               \/ \E i \in DOMAIN t : /\ t[i] = <<h, "upsert">>
                                      /\ \A k \in DOMAIN t : t[k] = <<h, "delete">> => k < i
    <3>1. CASE h = f
      BY <2>2, <3>1
    <3>2. CASE h # f
      BY <2>2, <2>3, <2>5, <3>2
    <3> QED BY <3>1, <3>2
  <2> QED BY <2>2, <2>3, <2>4, <2>5, UserStep
<1>3. CASE Removes(f)
  <2>1. PICK t : t = <<<<f, "delete">>>>
    OBVIOUS
  <2>2. t \in Seq(Reported) /\ DOMAIN t = {1} /\ t[1] = <<f, "delete">>
    BY <2>1 DEF Reported, Kinds
  <2>3. /\ raw' = raw \o t /\ UNCHANGED userVars
        /\ unread' = unread \ {f} /\ lost' = lost \ {f}
    BY <1>3, <2>1 DEF Removes, Reports
  <2>4. TablesOK'
    <3>1. disk' = [disk EXCEPT ![f] = Absent]
      BY <1>3 DEF Removes
    <3>2. disk' \in [Files -> (SUBSET Symbols) \cup {Absent}]
      BY <1>1, <3>1
    <3>3. UNCHANGED graphVars /\ unread' \subseteq Files
      BY <1>1, <2>3 DEF userVars
    <3> QED BY <1>1, <3>2, <3>3 DEF TablesOK, graphVars
  <2> QED BY <2>2, <2>3, <2>4, UserStep
<1>4. ASSUME NEW g \in Files, Renames(f, g)
      PROVE  QueueOK' /\ JobsOK' /\ TablesOK' /\ SavesOnTheirWay' /\ DeletesAreOlder'
  <2>1. PICK t : t = <<<<f, "delete">>, <<g, "upsert">>>>
    OBVIOUS
  <2>2. /\ t \in Seq(Reported) /\ DOMAIN t = {1, 2}
        /\ t[1] = <<f, "delete">> /\ t[2] = <<g, "upsert">>
    BY <2>1 DEF Reported, Kinds
  <2>3. /\ raw' = raw \o t /\ UNCHANGED userVars /\ f # g
        /\ unread' = (unread \ {f}) \cup {g} /\ lost' = lost \ {f, g}
    BY <1>4, <2>1 DEF Renames, Reports
  <2>4. TablesOK'
    <3>1. disk' = [disk EXCEPT ![f] = Absent, ![g] = disk[f]]
      BY <1>4 DEF Renames
    <3>2. disk' \in [Files -> (SUBSET Symbols) \cup {Absent}]
      BY <1>1, <3>1
    <3>3. UNCHANGED graphVars /\ unread' \subseteq Files
      BY <1>1, <2>3 DEF userVars
    <3> QED BY <1>1, <3>2, <3>3 DEF TablesOK, graphVars
  <2>5. ASSUME NEW h \in unread'
        PROVE  \/ /\ h \in unread /\ (h \in lost => h \in lost')
                  /\ \A i \in DOMAIN t : t[i] # <<h, "delete">>
               \/ \E i \in DOMAIN t : /\ t[i] = <<h, "upsert">>
                                      /\ \A k \in DOMAIN t : t[k] = <<h, "delete">> => k < i
    <3>1. CASE h = g
      BY <2>2, <3>1
    <3>2. CASE h # g
      BY <2>2, <2>3, <2>5, <3>2
    <3> QED BY <3>1, <3>2
  <2> QED BY <2>2, <2>3, <2>4, <2>5, UserStep
<1> QED BY <1>2, <1>3, <1>4

\* The event of an ignored path leaves the channel: it was no saved file's.
LEMMA IgnoredLeaves ==
    ASSUME SaveInv, DebounceIgnored
    PROVE  QueueOK' /\ SavesOnTheirWay' /\ DeletesAreOlder'
<1>1. /\ raw \in Seq(Reported) /\ raw # <<>> /\ raw' = Tail(raw) /\ Head(raw)[1] \notin Files
      /\ UNCHANGED <<pending, job, unread, lost>>
  BY DEF SaveInv, QueueOK, Reported, DebounceIgnored
<1>2. /\ Tail(raw) \in Seq(Reported) /\ raw[1] = Head(raw)
      /\ DOMAIN raw \subseteq Nat
      /\ \A i \in DOMAIN raw' : i \in Nat /\ i + 1 \in DOMAIN raw /\ raw'[i] = raw[i + 1]
      /\ \A i \in DOMAIN raw : i > 1 => i - 1 \in DOMAIN raw' /\ raw'[i - 1] = raw[i]
  BY <1>1, Shifted
<1>3. QueueOK'
  BY <1>1, <1>2 DEF SaveInv, QueueOK, Reported
<1>4. ASSUME NEW f \in unread', f \notin lost' PROVE OnItsWay(f)'
  <2>1. f \in Files /\ OnItsWay(f)
    BY <1>1, <1>4 DEF SaveInv, TablesOK, SavesOnTheirWay
  <2>2. ASSUME NEW i \in DOMAIN raw, raw[i] = <<f, "upsert">> PROVE i > 1
    <3>1. i \in 1 .. Len(raw) /\ Len(raw) \in Nat /\ i # 1
      BY <1>1, <1>2, <2>1, <2>2, LenProperties
    <3> QED BY <3>1
  <2> QED BY <1>1, <1>2, <2>1, <2>2 DEF OnItsWay
<1>5. ASSUME NEW f \in unread', NEW i \in DOMAIN raw', raw'[i] = <<f, "delete">>
      PROVE  \E k \in DOMAIN raw' : k > i /\ raw'[k] = <<f, "upsert">>
  <2>1. i \in Nat /\ i + 1 \in DOMAIN raw /\ raw[i + 1] = <<f, "delete">>
    BY <1>2, <1>5
  <2>2. PICK k \in DOMAIN raw : k > i + 1 /\ raw[k] = <<f, "upsert">>
    BY <1>1, <1>5, <2>1 DEF SaveInv, DeletesAreOlder
  <2>3. k \in Nat /\ k > 1 /\ k - 1 > i
    BY <1>2, <2>1, <2>2
  <2> QED BY <1>2, <2>2, <2>3
<1> QED BY <1>3, <1>4, <1>5 DEF SavesOnTheirWay, DeletesAreOlder

\* SaveInv is an inductive invariant of the watcher.
THEOREM SavesInvariant == Spec => []SaveInv
<1>1. Init => SaveInv
  <2> SUFFICES ASSUME Init PROVE SaveInv
    OBVIOUS
  <2>1. QueueOK
    <3>1. DOMAIN pending = {} /\ raw = <<>>
      BY DEF Init
    <3>2. pending \in [DOMAIN pending -> Kinds]
      BY DEF Init, Kinds
    <3>3. IsFiniteSet(DOMAIN pending) /\ Cardinality(DOMAIN pending) <= MaxPending
      BY <3>1, FS_EmptySet, WatcherAssumption
    <3>4. raw \in Seq((Files \cup {"ignored"}) \X Kinds)
      BY <3>1
    <3> QED BY <3>1, <3>2, <3>3, <3>4 DEF QueueOK
  <2>2. JobsOK
    <3>1. NoJob \in JobRecords /\ NoJob.pc = "none"
      BY DEF NoJob, JobRecords, Places
    <3> QED BY <3>1 DEF Init, JobsOK
  <2>3. TablesOK
    <3>1. /\ edges \in [Nodes -> Nat] /\ nodes \subseteq Nodes /\ unread \subseteq Files
          /\ missed \subseteq Files /\ orphaned \subseteq Files
      BY DEF Init
    <3>2. disk \in [Files -> (SUBSET Symbols) \cup {Absent}]
      <4>1. disk = [f \in Files |-> Absent]
        BY DEF Init
      <4> HIDE DEF Absent
      <4> QED BY <4>1
    <3> QED BY <3>1, <3>2 DEF TablesOK
  <2>4. SavesOnTheirWay /\ DeletesAreOlder
    BY DEF Init, SavesOnTheirWay, DeletesAreOlder
  <2> QED BY <2>1, <2>2, <2>3, <2>4 DEF SaveInv
<1>2. SaveInv /\ [Next]_vars => SaveInv'
  <2> SUFFICES ASSUME SaveInv, [Next]_vars PROVE SaveInv'
    OBVIOUS
  <2>1. ASSUME NEW f \in Files, Saves(f) \/ Removes(f) \/ (\E g \in Files : Renames(f, g))
        PROVE  SaveInv'
    BY <2>1, UserKeeps DEF SaveInv
  <2>2. ASSUME NEW f \in Files, Flush(f) PROVE SaveInv'
    <3>1. TablesOK'
      BY <2>2 DEF Flush, SaveInv, TablesOK, graphVars
    <3> QED BY <2>2, <3>1, FlushStep DEF SaveInv
  <2>3. CASE IgnoredChanges
    <3>1. PICK t : t = <<<<"ignored", "upsert">>>>
      OBVIOUS
    <3>2. t \in Seq(Reported) /\ DOMAIN t = {1} /\ t[1] = <<"ignored", "upsert">>
      BY <3>1 DEF Reported, Kinds
    <3>3. raw' = raw \o t /\ UNCHANGED userVars /\ UNCHANGED <<unread, lost>>
      BY <2>3, <3>1 DEF IgnoredChanges, Reports
    <3>4. TablesOK'
      BY <2>3 DEF IgnoredChanges, userVars, graphVars, SaveInv, TablesOK
    <3> QED BY <3>2, <3>3, <3>4, UserStep DEF SaveInv
  <2>4. CASE Debounce
    <3>1. JobsOK' /\ TablesOK'
      BY <2>4 DEF Debounce, SaveInv, JobsOK, TablesOK, graphVars
    <3> QED BY <2>4, <3>1, DebounceStep DEF SaveInv
  <2>5. CASE DebounceIgnored
    <3>1. JobsOK' /\ TablesOK' /\ UNCHANGED <<pending, job, unread, lost>>
      BY <2>5 DEF DebounceIgnored, SaveInv, JobsOK, TablesOK, graphVars
    <3> QED BY <2>5, <3>1, IgnoredLeaves DEF SaveInv
  <2>6. ASSUME NEW j \in Jobs, JobStep(j) PROVE SaveInv'
    <3>1. /\ JobsOK' /\ TablesOK'
          /\ \A i \in Jobs \ {j} : job'[i] = job[i]
          /\ UNCHANGED <<raw, pending, lost>> /\ unread' \subseteq unread
          /\ job[j].pc = "upsert" => job[j].file \notin unread'
      BY <2>6, JobStepKeeps
    <3>2. QueueOK' /\ SavesOnTheirWay' /\ DeletesAreOlder'
      BY <3>1, QuietStep
    <3> QED BY <3>1, <3>2 DEF SaveInv
  <2>7. CASE UNCHANGED vars
    BY <2>7 DEF vars, SaveInv, QueueOK, JobsOK, TablesOK, SavesOnTheirWay, OnItsWay,
       DeletesAreOlder
  <2> QED BY <2>1, <2>2, <2>3, <2>4, <2>5, <2>6, <2>7 DEF Next
<1> QED BY <1>1, <1>2, PTL DEF Spec

\* Every variable of the watcher keeps its type: the table never outgrows
\* MAX_PENDING, and jobs only ever touch nodes and edges of the graph.
THEOREM WatcherTypeCorrect == Spec => []TypeOK
<1>1. SaveInv => TypeOK
  <2> SUFFICES ASSUME SaveInv PROVE TypeOK
    OBVIOUS
  <2>1. \A i \in DOMAIN raw : raw[i] \in (Files \cup {"ignored"}) \X {"upsert", "delete"}
    BY LenProperties DEF SaveInv, QueueOK, Kinds
  <2>2. \A j \in Jobs : job[j].todo \cup job[j].new \subseteq Nodes
    BY DEF SaveInv, JobsOK, JobRecords
  <2> QED BY <2>1, <2>2 DEF TypeOK, SaveInv, QueueOK, TablesOK, Kinds
<1> QED BY <1>1, SavesInvariant, PTL

\* A save that no job has read is in the channel, in the table or with a job
\* about to read, unless a full table or a later delete in the same window took
\* its event.
THEOREM NoSaveIsForgotten == Spec => []NoSaveForgotten
<1>1. SaveInv => NoSaveForgotten
  BY DEF SaveInv, SavesOnTheirWay, OnItsWay, NoSaveForgotten
<1> QED BY <1>1, SavesInvariant, PTL

-----------------------------------------------------------------------------
(* The watcher: spaced changes.  A job works on its own file; of the others' *)
(* edges it can only take those that lead into a file it deletes.            *)

KeepsOthers(f) ==
    /\ disk' = disk
    /\ \A g : g # f => (g \in missed' <=> g \in missed) /\ (g \in orphaned' <=> g \in orphaned)
    /\ \A x \in Nodes : x[1] # f =>
         /\ x \in nodes' <=> x \in nodes
         /\ edges'[x] = edges[x] \/ (edges'[x] = 0 /\ Callee[x][1] = f)

\* The nodes of a file are the pairs with it.
LEMMA NodesOfAFile ==
    ASSUME NEW f \in Files
    PROVE  /\ NodesOf(f, Symbols) \subseteq Nodes
           /\ \A S : \A x \in NodesOf(f, S) : x[1] = f
           /\ \A S \in SUBSET Symbols : NodesOf(f, S) \subseteq NodesOf(f, Symbols)
           /\ \A x \in Nodes : x[1] = f => x \in NodesOf(f, Symbols)
BY DEF NodesOf, Nodes

\* What is on disk is no content or a set of symbols.
LEMMA OnDisk ==
    ASSUME TablesOK, NEW f \in Files, disk[f] # Absent
    PROVE  disk[f] \in SUBSET Symbols
BY DEF TablesOK

\* A file that is up to date stays so while another one is worked on.
LEMMA OthersStayIndexed ==
    ASSUME TablesOK, nodes' \subseteq Nodes, NEW f, NEW g \in Files, g # f, KeepsOthers(f), Indexed(g)
    PROVE  Indexed(g)'
<1>1. /\ disk'[g] = disk[g]
      /\ \A x \in NodesOf(g, Symbols) : /\ x \in Nodes /\ x[1] = g
                                        /\ x \in nodes' <=> x \in nodes
                                        /\ edges'[x] = edges[x] \/ (edges'[x] = 0 /\ Callee[x][1] = f)
  BY NodesOfAFile DEF KeepsOthers
<1>2. CASE disk[g] = Absent
  <2>1. \A x \in NodesOf(g, Symbols) : edges[x] = 0 /\ x \notin nodes
    BY <1>1, <1>2 DEF Indexed, KnownNodes
  <2>2. \A x \in NodesOf(g, Symbols) : edges'[x] = 0 /\ x \notin nodes'
    BY <1>1, <2>1
  <2>3. \A x \in nodes' : x[1] # g
    BY <2>2, NodesOfAFile
  <2> QED BY <1>1, <1>2, <2>2, <2>3 DEF Indexed, KnownNodes
<1>3. CASE disk[g] # Absent
  <2>1. NodesOf(g, disk[g]) \subseteq NodesOf(g, Symbols)
    BY <1>3, OnDisk, NodesOfAFile
  <2>2. \A x \in NodesOf(g, disk[g]) : x \in nodes /\ (edges[x] = 1 \/ (edges[x] = 0 /\ Callee[x][1] # g))
    BY <1>3 DEF Indexed
  <2>3. \A x \in NodesOf(g, disk[g]) : x \in nodes' /\ (edges'[x] = 1 \/ (edges'[x] = 0 /\ Callee[x][1] # g))
    BY <1>1, <2>1, <2>2
  <2> QED BY <1>1, <1>3, <2>3 DEF Indexed
<1> QED BY <1>2, <1>3

\* What a job has to do next, when it turns to it.
LEMMA TurnSets ==
    ASSUME JobsOK, NEW j \in Jobs, job[j].pc # "none", NEW place \in Places,
           NEW todo \in SUBSET Nodes, NEW new \in SUBSET Nodes,
           TurnsTo(j, place, todo, new)
    PROVE  job'[j].todo = todo /\ job'[j].new = new
<1>1. job[j] \in JobRecords
  BY DEF JobsOK
<1>2. PICK n : n = [job[j] EXCEPT !.pc = place, !.todo = todo, !.new = new]
  OBVIOUS
<1>3. n.todo = todo /\ n.new = new
  BY <1>1, <1>2 DEF JobRecords
<1>4. job' = [job EXCEPT ![j] = n]
  BY <1>1, <1>2 DEF TurnsTo, JobsOK, JobRecords
<1> QED BY <1>1, <1>3, <1>4 DEF JobsOK

\* What it has left to do, after one of a set.
LEMMA WorkSets ==
    ASSUME JobsOK, NEW j \in Jobs, NEW x, Without(<<j, x>>)
    PROVE  job'[j].todo = job[j].todo \ {x} /\ job'[j].new = job[j].new
<1>1. job[j] \in JobRecords
  BY DEF JobsOK
<1>2. PICK n : n = [job[j] EXCEPT !.todo = @ \ {x}]
  OBVIOUS
<1>3. n.todo = job[j].todo \ {x} /\ n.new = job[j].new
  BY <1>1, <1>2 DEF JobRecords
<1>4. job' = [job EXCEPT ![j] = n]
  BY <1>1, <1>2 DEF Without, JobsOK, JobRecords
<1> QED BY <1>1, <1>3, <1>4 DEF JobsOK

\* A job that does nothing goes on from where it was while another file is
\* worked on.
LEMMA OthersGoOn ==
    ASSUME TablesOK, nodes' \subseteq Nodes, JobsOK, NEW k \in Jobs, Busy(k), job'[k] = job[k],
           NEW f, job[k].file # f, KeepsOthers(f), Progress(k)
    PROVE  Progress(k)'
<1> DEFINE g == job[k].file
           mine == NodesOf(g, Symbols)
           now == NodesOf(g, disk[g])
<1>1. /\ g \in Files /\ job'[k].file = g /\ disk'[g] = disk[g] /\ NodesOf(g, disk'[g]) = now
      /\ g \in missed' <=> g \in missed
      /\ g \in orphaned' <=> g \in orphaned
  BY DEF JobsOK, Busy, KeepsOthers
<1>2. /\ mine \subseteq Nodes
      /\ \A x \in mine : x[1] = g
      /\ disk[g] # Absent => now \subseteq mine
  BY <1>1, NodesOfAFile, OnDisk
<1>3. \A x \in mine :
        /\ x \in nodes' <=> x \in nodes
        /\ edges'[x] = edges[x] \/ (edges'[x] = 0 /\ Callee[x][1] # g)
  BY <1>2 DEF KeepsOthers
<1>4. /\ job'[k].pc = job[k].pc /\ job'[k].todo = job[k].todo /\ job'[k].new = job[k].new
      /\ job'[k].file = g /\ NodesOf(job'[k].file, disk'[job'[k].file]) = now
      /\ NodesOf(job'[k].file, Symbols) = mine /\ disk'[job'[k].file] = disk[g]
  BY <1>1
<1>5. Plan(k)
  BY DEF Progress
<1>6. job[k].pc \in {"nodes", "edges"} => now \subseteq mine
  BY <1>2, <1>5 DEF Plan
<1>. HIDE DEF mine, now, g
<1>7. Plan(k)'
  <2>1. /\ job[k].pc \in {"delete", "unlink"} => disk[g] = Absent
        /\ job[k].pc \in {"upsert", "parse", "wipe", "nodes", "edges"} => disk[g] # Absent
        /\ job[k].pc \in {"parse", "wipe", "nodes"} => job[k].new = now
        /\ job[k].pc \in {"unlink", "wipe"} => job[k].todo \subseteq mine
        /\ job[k].pc \in {"nodes", "edges"} => job[k].todo \subseteq now
    BY <1>5 DEF Plan, g, now, mine
  <2> QED BY <1>4, <2>1 DEF Plan
<1>8. ASSUME g \notin orphaned PROVE Whole(k)'
  <2>1. /\ job[k].pc = "unlink" => \A x \in mine : edges[x] > 0 => x \in job[k].todo
        /\ job[k].pc = "nodes" => now \ job[k].todo \subseteq nodes
        /\ job[k].pc = "edges" => now \subseteq nodes
    BY <1>8 DEF Progress, Whole, g, now, mine
  <2>2. /\ job[k].pc = "unlink" => \A x \in mine : edges'[x] > 0 => x \in job[k].todo
        /\ job[k].pc = "nodes" => now \ job[k].todo \subseteq nodes'
        /\ job[k].pc = "edges" => now \subseteq nodes'
    BY <1>3, <1>6, <2>1
  <2> QED BY <1>4, <2>2 DEF Whole
<1>9. ASSUME g \notin missed \cup orphaned PROVE Exact(k)'
  <2>1. /\ job[k].pc = "wipe" => \A x \in mine : edges[x] > 0 => x \in job[k].todo
        /\ job[k].pc = "nodes" => \A x \in mine : edges[x] = 0
        /\ job[k].pc = "edges" => \A x \in now :
             IF x \in job[k].todo THEN edges[x] = 0
             ELSE edges[x] = 1 \/ (edges[x] = 0 /\ Callee[x][1] # x[1])
        /\ job[k].pc = "record" => Indexed(g)
    BY <1>9 DEF Progress, Exact, Linked, g, now, mine
  <2>2. /\ job[k].pc = "wipe" => \A x \in mine : edges'[x] > 0 => x \in job[k].todo
        /\ job[k].pc = "nodes" => \A x \in mine : edges'[x] = 0
    BY <1>3, <2>1
  <2>3. ASSUME job[k].pc = "edges", NEW x \in now
        PROVE  IF x \in job[k].todo THEN edges'[x] = 0
               ELSE edges'[x] = 1 \/ (edges'[x] = 0 /\ Callee[x][1] # x[1])
    <3>1. x \in mine /\ x[1] = g
      BY <1>2, <1>6, <2>3
    <3>2. edges'[x] = edges[x] \/ (edges'[x] = 0 /\ Callee[x][1] # x[1])
      BY <1>3, <3>1
    <3> QED BY <2>1, <2>3, <3>2
  <2>4. job[k].pc = "record" => Indexed(job[k].file)'
    <3>1. PICK h : h = job[k].file
      OBVIOUS
    <3>2. job[k].pc = "record" => Indexed(h)'
      BY <1>1, <2>1, <3>1, OthersStayIndexed DEF g
    <3> QED BY <1>1, <3>1, <3>2 DEF g
  <2>5. /\ job'[k].pc = "wipe" =>
             \A x \in NodesOf(job'[k].file, Symbols) : edges'[x] > 0 => x \in job'[k].todo
        /\ job'[k].pc = "nodes" => \A x \in NodesOf(job'[k].file, Symbols) : edges'[x] = 0
        /\ job'[k].pc = "edges" => \A x \in NodesOf(job'[k].file, disk'[job'[k].file]) :
             IF x \in job'[k].todo THEN edges'[x] = 0
             ELSE edges'[x] = 1 \/ (edges'[x] = 0 /\ Callee[x][1] # x[1])
        /\ job'[k].pc = "record" => Indexed(job[k].file)'
    BY <1>4, <2>2, <2>3, <2>4
  <2> QED BY <2>5, Zenon DEF Exact, Linked
<1> QED BY <1>1, <1>7, <1>8, <1>9 DEF Progress


\* A step of one job, on one file: all other files stay where they are, and so
\* does this one unless the job ends and has indexed it.
LEMMA JobMovesOn ==
    ASSUME SaveInv, FreshInv, spaced, JobsOK', TablesOK', EdgesOfNodes',
           NEW j \in Jobs, Busy(j), NEW f, f = job[j].file, KeepsOthers(f),
           \A i \in Jobs \ {j} : job'[i] = job[i], UNCHANGED <<raw, pending, lost>>,
           \/ Busy(j)' /\ job'[j].file = f /\ Progress(j)'
           \/ ~Busy(j)' /\ (f \in missed' \cup orphaned' \/ Indexed(f)')
    PROVE  FreshInv'
<1>1. /\ InOnePlace /\ (\A k \in Jobs : Busy(k) => Progress(k))
      /\ \A g \in Files \ (lost \cup missed \cup orphaned) : Waits(g) \/ Indexed(g)
      /\ JobsOK /\ TablesOK /\ disk' = disk /\ nodes' \subseteq Nodes
  BY DEF FreshInv, SaveInv, KeepsOthers, TablesOK
<1>2. \A k \in Jobs : Busy(k)' => Busy(k) /\ job'[k].file = job[k].file
  BY DEF Busy
<1>3. \A k \in Jobs \ {j} : Busy(k) => job[k].file # f /\ job[k].file \in Files
  BY <1>1 DEF InOnePlace, JobsOK, Busy
<1>4. InOnePlace'
  BY <1>1, <1>2 DEF InOnePlace, Needs
<1>5. ASSUME NEW k \in Jobs, Busy(k)' PROVE Progress(k)'
  <2>1. CASE k = j
    BY <1>5, <2>1
  <2>2. CASE k # j
    <3>1. job'[k] = job[k] /\ Busy(k) /\ job[k].file # f /\ Progress(k)
      BY <1>1, <1>2, <1>3, <1>5, <2>2
    <3> QED BY <1>1, <3>1, OthersGoOn
  <2> QED BY <2>1, <2>2
<1>6. ASSUME NEW g \in Files \ (lost' \cup missed' \cup orphaned'), ~Waits(g)' PROVE Indexed(g)'
  <2>1. CASE g = f
    <3>1. ~Busy(j)'
      BY <1>6, <2>1 DEF Waits
    <3> QED BY <2>1, <3>1
  <2>2. CASE g # f
    <3>1. ~Waits(g)
      <4>1. \A i \in Jobs : ~(Busy(i) /\ job[i].file = g)
        BY <1>6, <2>2 DEF Waits, Busy
      <4> QED BY <1>6, <4>1 DEF Waits
    <3>2. Indexed(g) /\ g \in Files
      <4>1. g \notin lost \cup missed \cup orphaned
        BY <1>6, <2>2 DEF KeepsOthers
      <4> QED BY <1>1, <1>6, <3>1, <4>1
    <3> QED BY <1>1, <2>2, <3>2, OthersStayIndexed
  <2> QED BY <2>1, <2>2
<1> QED BY <1>4, <1>5, <1>6 DEF FreshInv

\* What a job has done does not change while nothing it is about does.
LEMMA SameProgress ==
    ASSUME NEW k \in Jobs, job'[k] = job[k], UNCHANGED <<disk, nodes, edges, missed, orphaned>>,
           Progress(k)
    PROVE  Progress(k)'
<1>1. \A f : Indexed(f) => Indexed(f)'
  BY DEF Indexed, KnownNodes
<1>2. Plan(k)' /\ (Whole(k) => Whole(k)')
  BY DEF Progress, Plan, Whole
<1>3. Exact(k) => Exact(k)'
  BY <1>1 DEF Exact, Linked
<1> QED BY <1>2, <1>3 DEF Progress

\* Every step of a job, place by place.
LEMMA JobStepFresh ==
    ASSUME SaveInv, FreshInv, spaced, spaced', NEW j \in Jobs, JobStep(j)
    PROVE  FreshInv'
<1> USE DEF At
<1>1. /\ JobsOK' /\ TablesOK'
      /\ \A i \in Jobs \ {j} : job'[i] = job[i]
      /\ UNCHANGED <<raw, pending, lost>>
  BY JobStepKeeps
<1>2. Busy(j)
  BY StepNotes DEF Busy
<1>3. PICK f \in Files : f = job[j].file
  BY <1>2 DEF SaveInv, JobsOK, Busy
<1>4. /\ JobsOK /\ job[j] \in JobRecords /\ job[j].todo \in SUBSET Nodes /\ job[j].new \in SUBSET Nodes
      /\ TablesOK /\ nodes \subseteq Nodes /\ edges \in [Nodes -> Nat] /\ {} \in SUBSET Nodes
      /\ KnownNodes(f) \in SUBSET Nodes
      /\ EdgesOfNodes /\ Plan(j)
      /\ f \notin orphaned => Whole(j)
      /\ f \notin missed \cup orphaned => Exact(j)
  BY <1>2, <1>3 DEF SaveInv, JobsOK, TablesOK, JobRecords, FreshInv, KnownNodes, Progress
<1>5. Places = {"none", "delete", "unlink", "upsert", "parse", "wipe", "nodes", "edges",
                "record", "stuck"}
  BY DEF Places
<1>6. /\ NodesOf(f, Symbols) \subseteq Nodes
      /\ \A S : \A x \in NodesOf(f, S) : x[1] = f
      /\ disk[f] # Absent => NodesOf(f, disk[f]) \subseteq NodesOf(f, Symbols)
      /\ \A x \in Nodes : x[1] = f => x \in NodesOf(f, Symbols)
      /\ KnownNodes(f) \subseteq NodesOf(f, Symbols)
  BY <1>4, NodesOfAFile, OnDisk DEF KnownNodes
<1>7. /\ orphaned \subseteq orphaned'
      /\ \A g : g # f => /\ g \in missed' <=> g \in missed
                         /\ g \in orphaned' <=> g \in orphaned
  BY <1>3, StepNotes, NotesOfOne
<1> DEFINE Moves == \/ Busy(j)' /\ job'[j].file = f /\ Progress(j)'
                    \/ ~Busy(j)' /\ (f \in missed' \cup orphaned' \/ Indexed(f)')
<1>8. ASSUME KeepsOthers(f), EdgesOfNodes', Moves PROVE FreshInv'
  BY <1>1, <1>2, <1>3, <1>8, JobMovesOn
<1>9. ASSUME NEW place \in Places, NEW todo \in SUBSET Nodes, NEW new \in SUBSET Nodes,
             TurnsTo(j, place, todo, new)
      PROVE  /\ job'[j].file = f /\ job'[j].pc = place
             /\ job'[j].todo = todo /\ job'[j].new = new
  <2>1. JobsOK /\ TurnsTo(j, place, todo, new) /\ job[j].pc # "none"
    BY <1>2, <1>4, <1>9 DEF Busy
  <2>2. job'[j].file = f /\ job'[j].pc = place
    BY <1>3, <1>9, <2>1, TurnKeepsFile
  <2>3. job'[j].todo = todo /\ job'[j].new = new
    BY <1>9, <2>1, TurnSets
  <2> QED BY <2>2, <2>3
<1>10. ASSUME NEW x, Without(<<j, x>>)
      PROVE  /\ job'[j].file = f /\ job'[j].pc = job[j].pc
             /\ job'[j].todo = job[j].todo \ {x} /\ job'[j].new = job[j].new
  BY <1>3, <1>4, <1>10, WorkKeepsFile, WorkSets
<1>11. UNCHANGED <<disk, nodes, edges>> => KeepsOthers(f) /\ EdgesOfNodes'
  BY <1>4, <1>7 DEF KeepsOthers, EdgesOfNodes
<1>12. ASSUME UNCHANGED <<missed, orphaned>>
       PROVE  /\ f \notin orphaned' => Whole(j)
              /\ f \notin missed' \cup orphaned' => f \notin orphaned' /\ Whole(j) /\ Exact(j)
  BY <1>4, <1>12
<1>13. ASSUME Misses(j, TRUE) PROVE f \in missed' /\ f \in orphaned'
  BY <1>3, <1>13 DEF Misses
<1>14. ASSUME Misses(j, FALSE) PROVE f \in missed' /\ (f \notin orphaned' => Whole(j))
  BY <1>3, <1>4, <1>14 DEF Misses
<1>15. ASSUME job'[j].file = f, job'[j].pc # "none", Plan(j)', f \notin orphaned' => Whole(j)',
              f \notin missed' \cup orphaned' => Exact(j)'
       PROVE  Moves
  BY <1>15 DEF Busy, Progress
<1> HIDE DEF Moves
<1>16. CASE DeleteReads(j)
  <2>1. job[j].pc = "delete" /\ UNCHANGED <<disk, nodes, edges>> /\ disk[f] = Absent
    BY <1>3, <1>4, <1>16 DEF DeleteReads, watchVars, Plan
  <2>2. CASE TurnsTo(j, "unlink", KnownNodes(f), {})
    <3>1. job'[j].file = f /\ job'[j].pc = "unlink" /\ job'[j].todo = KnownNodes(f)
      BY <1>4, <1>5, <1>9, <2>2
    <3>2. ASSUME f \notin orphaned'
          PROVE  \A x \in NodesOf(f, Symbols) : edges[x] > 0 => x \in KnownNodes(f)
      BY <1>4, <1>6, <1>7, <3>2 DEF EdgesOfNodes, KnownNodes
    <3>3. Plan(j)' /\ (f \notin orphaned' => Whole(j)') /\ Exact(j)'
      BY <1>6, <2>1, <3>1, <3>2 DEF Plan, Whole, Exact
    <3> QED BY <1>8, <1>11, <1>15, <2>1, <3>1, <3>3
  <2>3. CASE TurnsTo(j, "unlink", {}, {}) /\ Misses(j, TRUE)
    <3>1. job'[j].file = f /\ job'[j].pc = "unlink" /\ job'[j].todo = {}
      BY <1>4, <1>5, <1>9, <2>3
    <3>2. Plan(j)' /\ Exact(j)'
      BY <2>1, <3>1 DEF Plan, Exact
    <3> QED BY <1>8, <1>11, <1>13, <1>15, <2>1, <2>3, <3>1, <3>2
  <2> QED BY <1>3, <1>16, <2>2, <2>3 DEF DeleteReads, AsksNodes
<1>17. CASE DeleteUnlinks(j)
  <2>1. PICK x \in job[j].todo : Writes(j, Unlinks(x), TRUE) /\ Without(<<j, x>>)
    BY <1>17 DEF DeleteUnlinks
  <2>2. /\ job[j].pc = "unlink" /\ disk' = disk /\ disk[f] = Absent
        /\ job[j].todo \subseteq NodesOf(f, Symbols)
    BY <1>3, <1>4, <1>17 DEF DeleteUnlinks, watchVars, Plan
  <2>3. /\ job'[j].file = f /\ job'[j].pc = "unlink" /\ job'[j].todo = job[j].todo \ {x}
    BY <1>10, <2>1, <2>2
  <2>4. Plan(j)' /\ Exact(j)'
    BY <2>2, <2>3 DEF Plan, Exact
  <2>5. CASE Unlinks(x) /\ UNCHANGED <<missed, orphaned>>
    <3>1. /\ x[1] = f /\ edges'[x] = 0 /\ nodes' = nodes
          /\ \A y \in Nodes : edges'[y] = edges[y] \/ (edges'[y] = 0 /\ (y = x \/ Callee[y] = x))
      BY <1>6, <2>1, <2>2, <2>5 DEF Unlinks
    <3>2. KeepsOthers(f) /\ EdgesOfNodes'
      BY <1>4, <2>2, <2>5, <3>1 DEF KeepsOthers, EdgesOfNodes
    <3>3. ASSUME f \notin orphaned' PROVE Whole(j)'
      <4>1. \A y \in NodesOf(f, Symbols) : edges[y] > 0 => y \in job[j].todo
        BY <1>3, <1>12, <2>2, <2>5, <3>3 DEF Whole
      <4>2. \A y \in NodesOf(f, Symbols) : edges'[y] > 0 => y \in job'[j].todo
        BY <1>6, <2>3, <3>1, <4>1
      <4> QED BY <2>3, <4>2 DEF Whole
    <3> QED BY <1>8, <1>15, <2>3, <2>4, <3>2, <3>3
  <2>6. CASE UNCHANGED <<nodes, edges>> /\ Misses(j, TRUE)
    BY <1>8, <1>11, <1>13, <1>15, <2>2, <2>3, <2>4, <2>6
  <2> QED BY <2>1, <2>5, <2>6 DEF Writes
<1>18. CASE DeleteNodes(j)
  <2>1. /\ job[j].pc = "unlink" /\ job[j].todo = {} /\ disk' = disk /\ disk[f] = Absent
        /\ job'[j].file = f /\ job'[j].pc = "record" /\ Writes(j, Forgets(f), FALSE)
    BY <1>3, <1>4, <1>5, <1>9, <1>18 DEF DeleteNodes, watchVars, Plan
  <2>2. Plan(j)' /\ Whole(j)'
    BY <2>1 DEF Plan, Whole
  <2>3. CASE Forgets(f) /\ UNCHANGED <<missed, orphaned>>
    <3>1. nodes' = nodes \ KnownNodes(f) /\ edges' = edges
      BY <2>3 DEF Forgets
    <3>2. ASSUME f \notin orphaned' PROVE \A y \in NodesOf(f, Symbols) : edges'[y] = 0
      <4>1. \A y \in NodesOf(f, Symbols) : ~(edges[y] > 0) /\ y \in Nodes
        BY <1>3, <1>6, <1>12, <2>1, <2>3, <3>2 DEF Whole
      <4> QED BY <1>4, <3>1, <4>1
    <3>3. \A y \in nodes' : y[1] # f
      BY <3>1 DEF KnownNodes
    <3>4. KeepsOthers(f)
      BY <1>4, <2>1, <2>3, <3>1 DEF KeepsOthers, KnownNodes
    <3>5. EdgesOfNodes'
      <4>1. ASSUME NEW y \in Nodes, edges'[y] > 0, y[1] \notin orphaned' PROVE y \in nodes'
        <5>1. CASE y[1] = f
          BY <1>4, <1>6, <3>1, <3>2, <4>1, <5>1
        <5>2. CASE y[1] # f
          BY <1>4, <1>7, <3>1, <4>1, <5>2 DEF EdgesOfNodes, KnownNodes
        <5> QED BY <5>1, <5>2
      <4> QED BY <4>1 DEF EdgesOfNodes
    <3>6. ASSUME f \notin orphaned' PROVE Exact(j)'
      <4>1. Indexed(f)'
        BY <2>1, <3>2, <3>3, <3>6 DEF Indexed, KnownNodes
      <4> QED BY <2>1, <4>1 DEF Exact
    <3> QED BY <1>8, <1>15, <2>1, <2>2, <3>4, <3>5, <3>6
  <2>4. CASE UNCHANGED <<nodes, edges>> /\ Misses(j, FALSE)
    BY <1>8, <1>11, <1>14, <1>15, <2>1, <2>2, <2>4
  <2> QED BY <2>1, <2>3, <2>4 DEF Writes
<1>19. CASE UpsertUnsupported(j)
  <2>1. /\ UNCHANGED <<disk, nodes, edges>>
        /\ job'[j].file = f /\ job'[j].pc = "stuck"
    BY <1>4, <1>5, <1>9, <1>19 DEF UpsertUnsupported, graphVars
  <2>2. Plan(j)' /\ Whole(j)' /\ Exact(j)'
    BY <2>1 DEF Plan, Whole, Exact
  <2> QED BY <1>8, <1>11, <1>15, <2>1, <2>2
<1>20. CASE UpsertReads(j)
  <2>1. disk[f] # Absent /\ UNCHANGED <<disk, nodes, edges>>
    BY <1>3, <1>4, <1>20 DEF UpsertReads, watchVars, Plan
  <2>2. CASE TurnsTo(j, "parse", {}, NodesOf(f, disk[f]))
    <3>1. NodesOf(f, disk[f]) \in SUBSET Nodes
      BY <1>6, <2>1
    <3>2. job'[j].file = f /\ job'[j].pc = "parse" /\ job'[j].new = NodesOf(f, disk[f])
      BY <1>4, <1>5, <1>9, <2>2, <3>1
    <3>3. Plan(j)' /\ Whole(j)' /\ Exact(j)'
      BY <2>1, <3>2 DEF Plan, Whole, Exact
    <3> QED BY <1>8, <1>11, <1>15, <2>1, <3>2, <3>3
  <2>3. CASE UpsertSkips(j) /\ Misses(j, FALSE)
    <3>1. job'[j].pc = "none"
      BY <1>4, <2>3, EndsKeepsJobs DEF UpsertSkips
    <3>2. Moves
      BY <1>14, <2>3, <3>1 DEF Moves, Busy
    <3> QED BY <1>8, <1>11, <2>1, <3>2
  <2> QED BY <1>3, <1>20, <2>1, <2>2, <2>3 DEF UpsertReads
<1>21. CASE UpsertFails(j)
  <2>1. UNCHANGED <<disk, nodes, edges>> /\ job'[j].pc = "none" /\ Misses(j, FALSE)
    BY <1>4, <1>21, EndsKeepsJobs DEF UpsertFails, UpsertSkips, watchVars
  <2>2. Moves
    BY <1>14, <2>1 DEF Moves, Busy
  <2> QED BY <1>8, <1>11, <2>1, <2>2
<1>22. CASE UpsertParses(j)
  <2>1. /\ job[j].pc = "parse" /\ UNCHANGED <<disk, nodes, edges>> /\ disk[f] # Absent
        /\ job[j].new = NodesOf(f, disk[f])
    BY <1>3, <1>4, <1>22 DEF UpsertParses, watchVars, Plan
  <2>2. CASE TurnsTo(j, "wipe", KnownNodes(f), job[j].new)
    <3>1. /\ job'[j].file = f /\ job'[j].pc = "wipe" /\ job'[j].todo = KnownNodes(f)
          /\ job'[j].new = job[j].new
      BY <1>4, <1>5, <1>9, <2>2
    <3>2. ASSUME f \notin orphaned'
          PROVE  \A x \in NodesOf(f, Symbols) : edges[x] > 0 => x \in KnownNodes(f)
      BY <1>4, <1>6, <1>7, <3>2 DEF EdgesOfNodes, KnownNodes
    <3>3. Plan(j)' /\ Whole(j)' /\ (f \notin orphaned' => Exact(j)')
      BY <1>6, <2>1, <3>1, <3>2 DEF Plan, Whole, Exact
    <3> QED BY <1>8, <1>11, <1>15, <2>1, <3>1, <3>3
  <2>3. CASE TurnsTo(j, "wipe", {}, job[j].new) /\ Misses(j, FALSE)
    <3>1. /\ job'[j].file = f /\ job'[j].pc = "wipe" /\ job'[j].todo = {}
          /\ job'[j].new = job[j].new
      BY <1>4, <1>5, <1>9, <2>3
    <3>2. Plan(j)' /\ Whole(j)'
      BY <2>1, <3>1 DEF Plan, Whole
    <3> QED BY <1>8, <1>11, <1>14, <1>15, <2>1, <2>3, <3>1, <3>2
  <2> QED BY <1>3, <1>22, <2>2, <2>3 DEF UpsertParses, AsksNodes
<1>23. CASE UpsertWipes(j)
  <2>1. PICK x \in job[j].todo : Writes(j, Wipes(x), FALSE) /\ Without(<<j, x>>)
    BY <1>23 DEF UpsertWipes
  <2>2. /\ job[j].pc = "wipe" /\ disk' = disk /\ disk[f] # Absent
        /\ job[j].new = NodesOf(f, disk[f]) /\ job[j].todo \subseteq NodesOf(f, Symbols)
    BY <1>3, <1>4, <1>23 DEF UpsertWipes, watchVars, Plan
  <2>3. /\ job'[j].file = f /\ job'[j].pc = "wipe" /\ job'[j].todo = job[j].todo \ {x}
        /\ job'[j].new = job[j].new
    BY <1>10, <2>1, <2>2
  <2>4. Plan(j)' /\ Whole(j)'
    BY <2>2, <2>3 DEF Plan, Whole
  <2>5. CASE Wipes(x) /\ UNCHANGED <<missed, orphaned>>
    <3>1. /\ x[1] = f /\ edges'[x] = 0 /\ nodes' = nodes
          /\ \A y \in Nodes : y # x => edges'[y] = edges[y]
      BY <1>4, <1>6, <2>1, <2>2, <2>5 DEF Wipes
    <3>2. KeepsOthers(f) /\ EdgesOfNodes'
      BY <1>4, <2>2, <2>5, <3>1 DEF KeepsOthers, EdgesOfNodes
    <3>3. ASSUME f \notin missed' \cup orphaned' PROVE Exact(j)'
      <4>1. \A y \in NodesOf(f, Symbols) : edges[y] > 0 => y \in job[j].todo
        BY <1>3, <1>12, <2>2, <2>5, <3>3 DEF Exact
      <4>2. \A y \in NodesOf(f, Symbols) : edges'[y] > 0 => y \in job'[j].todo
        BY <1>6, <2>3, <3>1, <4>1
      <4> QED BY <2>3, <4>2 DEF Exact
    <3> QED BY <1>8, <1>15, <2>3, <2>4, <3>2, <3>3
  <2>6. CASE UNCHANGED <<nodes, edges>> /\ Misses(j, FALSE)
    BY <1>8, <1>11, <1>14, <1>15, <2>2, <2>3, <2>4, <2>6
  <2> QED BY <2>1, <2>5, <2>6 DEF Writes
<1>24. CASE UpsertWiped(j)
  <2>1. /\ job[j].pc = "wipe" /\ job[j].todo = {} /\ UNCHANGED <<disk, nodes, edges, missed, orphaned>>
        /\ disk[f] # Absent /\ job[j].new = NodesOf(f, disk[f])
        /\ job'[j].file = f /\ job'[j].pc = "nodes" /\ job'[j].todo = job[j].new
        /\ job'[j].new = job[j].new
    BY <1>3, <1>4, <1>5, <1>9, <1>24 DEF UpsertWiped, watchVars, graphVars, Plan
  <2>2. Plan(j)' /\ Whole(j)'
    BY <2>1 DEF Plan, Whole
  <2>3. ASSUME f \notin missed' \cup orphaned' PROVE Exact(j)'
    <3>1. \A y \in NodesOf(f, Symbols) : ~(edges[y] > 0)
      BY <1>3, <1>12, <2>1, <2>3 DEF Exact
    <3>2. \A y \in NodesOf(f, Symbols) : edges'[y] = 0
      BY <1>4, <1>6, <2>1, <3>1
    <3> QED BY <2>1, <3>2 DEF Exact
  <2> QED BY <1>8, <1>11, <1>15, <2>1, <2>2, <2>3
<1>25. CASE UpsertInsertsNode(j)
  <2>1. PICK x \in job[j].todo : Writes(j, InsertsNode(x), TRUE) /\ Without(<<j, x>>)
    BY <1>25 DEF UpsertInsertsNode
  <2>2. /\ job[j].pc = "nodes" /\ disk' = disk /\ disk[f] # Absent
        /\ job[j].new = NodesOf(f, disk[f]) /\ job[j].todo \subseteq NodesOf(f, disk[f])
    BY <1>3, <1>4, <1>25 DEF UpsertInsertsNode, watchVars, Plan
  <2>3. /\ job'[j].file = f /\ job'[j].pc = "nodes" /\ job'[j].todo = job[j].todo \ {x}
        /\ job'[j].new = job[j].new
    BY <1>10, <2>1, <2>2
  <2>4. Plan(j)'
    BY <2>2, <2>3 DEF Plan
  <2>5. CASE InsertsNode(x) /\ UNCHANGED <<missed, orphaned>>
    <3>1. x[1] = f /\ nodes' = nodes \cup {x} /\ edges' = edges
      BY <1>6, <2>1, <2>2, <2>5 DEF InsertsNode
    <3>2. KeepsOthers(f) /\ EdgesOfNodes'
      BY <1>4, <2>2, <2>5, <3>1 DEF KeepsOthers, EdgesOfNodes
    <3>3. ASSUME f \notin orphaned' PROVE Whole(j)'
      <4>1. NodesOf(f, disk[f]) \ job[j].todo \subseteq nodes
        BY <1>3, <1>12, <2>2, <2>5, <3>3 DEF Whole
      <4>2. NodesOf(f, disk[f]) \ job'[j].todo \subseteq nodes'
        BY <2>3, <3>1, <4>1
      <4> QED BY <2>2, <2>3, <4>2 DEF Whole
    <3>4. ASSUME f \notin missed' \cup orphaned' PROVE Exact(j)'
      <4>1. \A y \in NodesOf(f, Symbols) : edges[y] = 0
        BY <1>3, <1>12, <2>2, <2>5, <3>4 DEF Exact
      <4> QED BY <2>3, <3>1, <4>1 DEF Exact
    <3> QED BY <1>8, <1>15, <2>3, <2>4, <3>2, <3>3, <3>4
  <2>6. CASE UNCHANGED <<nodes, edges>> /\ Misses(j, TRUE)
    BY <1>8, <1>11, <1>13, <1>15, <2>2, <2>3, <2>4, <2>6
  <2> QED BY <2>1, <2>5, <2>6 DEF Writes
<1>26. CASE UpsertHasNodes(j)
  <2>1. /\ job[j].pc = "nodes" /\ job[j].todo = {} /\ UNCHANGED <<disk, nodes, edges, missed, orphaned>>
        /\ disk[f] # Absent /\ job[j].new = NodesOf(f, disk[f])
        /\ job'[j].file = f /\ job'[j].pc = "edges" /\ job'[j].todo = job[j].new
    BY <1>3, <1>4, <1>5, <1>9, <1>26 DEF UpsertHasNodes, watchVars, graphVars, Plan
  <2>2. Plan(j)'
    BY <2>1 DEF Plan
  <2>3. ASSUME f \notin orphaned' PROVE Whole(j)'
    <3>1. NodesOf(f, disk[f]) \subseteq nodes
      BY <1>3, <1>12, <2>1, <2>3 DEF Whole
    <3> QED BY <2>1, <3>1 DEF Whole
  <2>4. ASSUME f \notin missed' \cup orphaned' PROVE Exact(j)'
    <3>1. \A y \in NodesOf(f, Symbols) : edges[y] = 0
      BY <1>3, <1>12, <2>1, <2>4 DEF Exact
    <3>2. \A y \in NodesOf(f, disk[f]) : y \in job'[j].todo /\ edges'[y] = 0
      BY <1>6, <2>1, <3>1
    <3> QED BY <2>1, <3>2 DEF Exact
  <2> QED BY <1>8, <1>11, <1>15, <2>1, <2>2, <2>3, <2>4
<1>27. CASE UpsertInsertsEdge(j)
  <2>1. PICK x \in job[j].todo : Writes(j, InsertsEdge(x), FALSE) /\ Without(<<j, x>>)
    BY <1>27 DEF UpsertInsertsEdge
  <2>2. /\ job[j].pc = "edges" /\ disk' = disk /\ disk[f] # Absent
        /\ job[j].todo \subseteq NodesOf(f, disk[f])
    BY <1>3, <1>4, <1>27 DEF UpsertInsertsEdge, watchVars, Plan
  <2>3. /\ job'[j].file = f /\ job'[j].pc = "edges" /\ job'[j].todo = job[j].todo \ {x}
    BY <1>10, <2>1, <2>2
  <2>4. Plan(j)'
    BY <2>2, <2>3 DEF Plan
  <2>5. CASE InsertsEdge(x) /\ UNCHANGED <<missed, orphaned>>
    <3>1. /\ x[1] = f /\ x \in Nodes /\ x \in NodesOf(f, disk[f])
          /\ edges'[x] = edges[x] + 1 /\ nodes' = nodes
          /\ \A y \in Nodes : y # x => edges'[y] = edges[y]
      BY <1>4, <1>6, <2>1, <2>2, <2>5 DEF InsertsEdge
    <3>2. f \notin orphaned' => NodesOf(f, disk[f]) \subseteq nodes
      BY <1>3, <1>12, <2>2, <2>5 DEF Whole
    <3>3. KeepsOthers(f) /\ EdgesOfNodes'
      BY <1>4, <1>7, <2>2, <2>5, <3>1, <3>2 DEF KeepsOthers, EdgesOfNodes
    <3>4. f \notin orphaned' => Whole(j)'
      BY <2>2, <2>3, <3>1, <3>2 DEF Whole
    <3>5. ASSUME f \notin missed' \cup orphaned' PROVE Exact(j)'
      <4>1. \A y \in NodesOf(f, disk[f]) : IF y \in job[j].todo THEN edges[y] = 0 ELSE Linked(y)
        BY <1>3, <1>12, <2>2, <2>5, <3>5 DEF Exact
      <4>2. ASSUME NEW y \in NodesOf(f, disk[f])
            PROVE  IF y \in job'[j].todo THEN edges'[y] = 0
                   ELSE edges'[y] = 1 \/ (edges'[y] = 0 /\ Callee[y][1] # y[1])
        <5>1. CASE y = x
          <6>1. edges[x] = 0
            BY <2>1, <3>1, <4>1
          <6> QED BY <2>3, <3>1, <5>1, <6>1
        <5>2. CASE y # x
          <6>1. edges'[y] = edges[y] /\ (y \in job'[j].todo <=> y \in job[j].todo)
            BY <1>6, <2>2, <2>3, <3>1, <5>2
          <6> QED BY <4>1, <6>1 DEF Linked
        <5> QED BY <5>1, <5>2
      <4> QED BY <2>2, <2>3, <4>2 DEF Exact, Linked
    <3> QED BY <1>8, <1>15, <2>3, <2>4, <3>3, <3>4, <3>5
  <2>6. CASE UNCHANGED <<nodes, edges>> /\ Misses(j, FALSE)
    <3>1. ASSUME f \notin orphaned' PROVE Whole(j)'
      <4>1. NodesOf(f, disk[f]) \subseteq nodes
        BY <1>3, <1>14, <2>2, <2>6, <3>1 DEF Whole
      <4> QED BY <2>2, <2>3, <2>6, <4>1 DEF Whole
    <3> QED BY <1>8, <1>11, <1>14, <1>15, <2>2, <2>3, <2>4, <2>6, <3>1
  <2> QED BY <2>1, <2>5, <2>6 DEF Writes
<1>28. CASE UpsertDone(j)
  <2>1. /\ job[j].pc = "edges" /\ job[j].todo = {} /\ UNCHANGED <<disk, nodes, edges, missed, orphaned>>
        /\ disk[f] # Absent /\ job'[j].file = f /\ job'[j].pc = "record"
    BY <1>3, <1>4, <1>5, <1>9, <1>28 DEF UpsertDone, watchVars, graphVars, Plan
  <2>2. Plan(j)' /\ Whole(j)'
    BY <2>1 DEF Plan, Whole
  <2>3. ASSUME f \notin missed' \cup orphaned' PROVE Exact(j)'
    <3>1. /\ NodesOf(f, disk[f]) \subseteq nodes
          /\ \A y \in NodesOf(f, disk[f]) : edges[y] = 1 \/ (edges[y] = 0 /\ Callee[y][1] # y[1])
      BY <1>3, <1>12, <2>1, <2>3 DEF Whole, Exact, Linked
    <3>2. Indexed(f)'
      BY <1>6, <2>1, <3>1 DEF Indexed
    <3> QED BY <2>1, <3>2 DEF Exact
  <2> QED BY <1>8, <1>11, <1>15, <2>1, <2>2, <2>3
<1>29. CASE Records(j)
  <2>1. /\ job[j].pc = "record" /\ UNCHANGED <<disk, nodes, edges, missed, orphaned>>
        /\ job'[j].pc = "none"
    BY <1>4, <1>29, EndsKeepsJobs DEF Records, watchVars, graphVars
  <2>2. f \in missed' \cup orphaned' \/ Indexed(f)'
    BY <1>3, <1>12, <2>1 DEF Exact, Indexed, KnownNodes
  <2>3. Moves
    BY <2>1, <2>2 DEF Moves, Busy
  <2> QED BY <1>8, <1>11, <2>1, <2>3
<1> QED BY <1>16, <1>17, <1>18, <1>19, <1>20, <1>21, <1>22, <1>23, <1>24, <1>25, <1>26,
           <1>27, <1>28, <1>29 DEF JobStep


\* A change made when nothing is left to do: its events are the only ones.
LEMMA ChangeFresh ==
    ASSUME SaveInv, FreshInv, spaced, Drained, NEW t \in Seq(Reported), raw' = raw \o t,
           UNCHANGED userVars,
           \A i \in DOMAIN t : t[i][1] \in Files =>
             /\ t[i][2] = IF disk'[t[i][1]] = Absent THEN "delete" ELSE "upsert"
             /\ \A k \in DOMAIN t : t[k][1] = t[i][1] => k = i,
           \A g \in Files : (\A i \in DOMAIN t : t[i][1] # g) =>
             disk'[g] = disk[g] /\ (g \in lost => g \in lost')
    PROVE  FreshInv'
<1>1. raw' = t
  BY DEF Drained
<1>2. /\ UNCHANGED <<pending, job, nodes, edges, missed, orphaned>> /\ DOMAIN pending' = {}
      /\ \A j \in Jobs : ~Busy(j) /\ ~Busy(j)'
  BY DEF userVars, graphVars, Drained, Busy
<1>3. InOnePlace'
  BY <1>1, <1>2 DEF InOnePlace, Needs
<1>4. EdgesOfNodes'
  BY <1>2 DEF FreshInv, EdgesOfNodes
<1>5. ASSUME NEW g \in Files \ (lost' \cup missed' \cup orphaned'), ~Waits(g)' PROVE Indexed(g)'
  <2>1. \A i \in DOMAIN t : t[i][1] # g
    BY <1>1, <1>5 DEF Waits
  <2>2. ~Waits(g) /\ g \notin lost \cup missed \cup orphaned /\ disk'[g] = disk[g]
    BY <1>2, <1>5, <2>1 DEF Waits, Drained
  <2>3. Indexed(g)
    BY <2>2 DEF FreshInv
  <2> QED BY <1>2, <2>2, <2>3 DEF Indexed, KnownNodes
<1> QED BY <1>2, <1>3, <1>4, <1>5 DEF FreshInv

\* The user's changes, each with the events notify reports for it.
LEMMA UserFresh ==
    ASSUME SaveInv, FreshInv, spaced',
           IgnoredChanges \/ \E f \in Files : Saves(f) \/ Removes(f) \/ \E g \in Files : Renames(f, g)
    PROVE  FreshInv'
<1>1. /\ disk \in [Files -> (SUBSET Symbols) \cup {Absent}] /\ Absent \notin SUBSET Symbols
      /\ "ignored" \notin Files
  BY WatcherAssumption DEF SaveInv, TablesOK, Absent
<1>2. spaced /\ Drained
  BY DEF IgnoredChanges, Saves, Removes, Renames, Reports
<1>. HIDE DEF Absent
<1>3. ASSUME NEW f \in Files, Saves(f) PROVE FreshInv'
  <2>1. PICK t : t = <<<<f, "upsert">>>>
    OBVIOUS
  <2>2. t \in Seq(Reported) /\ DOMAIN t = {1} /\ t[1][1] = f /\ t[1][2] = "upsert"
    BY <2>1 DEF Reported, Kinds
  <2>3. /\ raw' = raw \o t /\ UNCHANGED userVars /\ lost' = lost \ {f}
        /\ \E c \in SUBSET Symbols : disk' = [disk EXCEPT ![f] = c]
    BY <1>3, <2>1 DEF Saves, Reports
  <2>4. disk'[f] # Absent /\ \A g \in Files : g # f => disk'[g] = disk[g]
    BY <1>1, <2>3
  <2> QED BY <1>2, <2>2, <2>3, <2>4, ChangeFresh
<1>4. ASSUME NEW f \in Files, Removes(f) PROVE FreshInv'
  <2>1. PICK t : t = <<<<f, "delete">>>>
    OBVIOUS
  <2>2. t \in Seq(Reported) /\ DOMAIN t = {1} /\ t[1][1] = f /\ t[1][2] = "delete"
    BY <2>1 DEF Reported, Kinds
  <2>3. /\ raw' = raw \o t /\ UNCHANGED userVars /\ lost' = lost \ {f}
        /\ disk' = [disk EXCEPT ![f] = Absent]
    BY <1>4, <2>1 DEF Removes, Reports
  <2>4. disk'[f] = Absent /\ \A g \in Files : g # f => disk'[g] = disk[g]
    BY <1>1, <2>3
  <2> QED BY <1>2, <2>2, <2>3, <2>4, ChangeFresh
<1>5. ASSUME NEW f \in Files, NEW h \in Files, Renames(f, h) PROVE FreshInv'
  <2>1. PICK t : t = <<<<f, "delete">>, <<h, "upsert">>>>
    OBVIOUS
  <2>2. /\ t \in Seq(Reported) /\ DOMAIN t = {1, 2}
        /\ t[1][1] = f /\ t[1][2] = "delete" /\ t[2][1] = h /\ t[2][2] = "upsert"
    BY <2>1 DEF Reported, Kinds
  <2>3. /\ raw' = raw \o t /\ UNCHANGED userVars /\ lost' = lost \ {f, h}
        /\ disk' = [disk EXCEPT ![f] = Absent, ![h] = disk[f]] /\ f # h /\ disk[f] # Absent
    BY <1>5, <2>1 DEF Renames, Reports
  <2>4. /\ disk'[f] = Absent /\ disk'[h] # Absent
        /\ \A g \in Files : g # f /\ g # h => disk'[g] = disk[g]
    BY <1>1, <2>3
  <2>5. \A i \in DOMAIN t : t[i][1] \in Files =>
          /\ t[i][2] = IF disk'[t[i][1]] = Absent THEN "delete" ELSE "upsert"
          /\ \A k \in DOMAIN t : t[k][1] = t[i][1] => k = i
    BY <2>2, <2>3, <2>4
  <2>6. \A g \in Files : (\A i \in DOMAIN t : t[i][1] # g) =>
          disk'[g] = disk[g] /\ (g \in lost => g \in lost')
    BY <2>2, <2>3, <2>4
  <2> QED BY <1>2, <2>2, <2>3, <2>5, <2>6, ChangeFresh
<1>6. CASE IgnoredChanges
  <2>1. PICK t : t = <<<<"ignored", "upsert">>>>
    OBVIOUS
  <2>2. t \in Seq(Reported) /\ DOMAIN t = {1} /\ t[1][1] = "ignored"
    BY <2>1 DEF Reported, Kinds
  <2>3. raw' = raw \o t /\ UNCHANGED userVars /\ UNCHANGED <<disk, lost>>
    BY <1>6, <2>1 DEF IgnoredChanges, Reports
  <2> QED BY <1>1, <1>2, <2>2, <2>3, ChangeFresh
<1> QED BY <1>3, <1>4, <1>5, <1>6

\* An event that leaves the channel goes into the table, or its file is lost; one
\* of an ignored path is nobody's.
LEMMA ChannelFresh ==
    ASSUME SaveInv, FreshInv, spaced, Debounce \/ DebounceIgnored
    PROVE  FreshInv'
<1> DEFINE h == Head(raw)[1]
           kind == Head(raw)[2]
<1>1. raw \in Seq(Reported) /\ raw # <<>> /\ raw' = Tail(raw)
  BY DEF SaveInv, QueueOK, Reported, Debounce, DebounceIgnored
<1>2. /\ 1 \in DOMAIN raw /\ raw[1][1] = h /\ raw[1][2] = kind
      /\ \A i \in DOMAIN raw' : i \in Nat /\ i + 1 \in DOMAIN raw /\ raw'[i] = raw[i + 1]
      /\ \A i \in DOMAIN raw : i # 1 => i - 1 \in DOMAIN raw' /\ raw'[i - 1] = raw[i]
  <2>1. \A i \in DOMAIN raw : i # 1 => i > 1
    <3>1. DOMAIN raw = 1 .. Len(raw) /\ Len(raw) \in Nat
      BY <1>1, LenProperties
    <3> QED BY <3>1
  <2> QED BY <1>1, <2>1, Shifted
<1>3. UNCHANGED <<disk, job, nodes, edges, missed, orphaned, spaced>>
  BY DEF Debounce, DebounceIgnored, graphVars
<1>4. /\ h \in Files => /\ pending' = IF Full THEN pending ELSE Pends(h, kind)
                        /\ lost \subseteq lost' /\ (Full => h \in lost')
      /\ h \notin Files => UNCHANGED <<pending, lost>>
  BY DEF Debounce, DebounceIgnored
<1>5. InOnePlace /\ EdgesOfNodes /\ DOMAIN pending \subseteq Files
      /\ (\A j \in Jobs : Busy(j) => Progress(j))
      /\ \A g \in Files \ (lost \cup missed \cup orphaned) : Waits(g) \/ Indexed(g)
  BY DEF FreshInv, SaveInv, QueueOK
<1> HIDE DEF h, kind
<1>6. h \in Files => /\ h \notin DOMAIN pending /\ kind = Needs(h)
                     /\ \A k \in DOMAIN raw : raw[k][1] = h => k = 1
                     /\ \A j \in Jobs : Busy(j) => job[j].file # h
  BY <1>2, <1>5 DEF InOnePlace
<1>7. \/ UNCHANGED pending /\ (h \in Files => h \in lost')
      \/ /\ h \in Files /\ DOMAIN pending' = DOMAIN pending \cup {h} /\ pending'[h] = kind
         /\ \A g \in DOMAIN pending : pending'[g] = pending[g]
  <2>1. CASE h \in Files /\ ~Full
    <3>1. pending' = [g \in DOMAIN pending \cup {h} |-> IF g = h THEN kind ELSE pending[g]]
      BY <1>4, <1>6, <2>1 DEF Pends, Coalesce
    <3> QED BY <1>6, <2>1, <3>1
  <2> QED BY <1>4, <2>1
<1>8. \A i \in DOMAIN raw' : i + 1 # 1 /\ raw'[i] = raw[i + 1]
  <2>1. raw' \in Seq(Reported)
    BY <1>1, Shifted
  <2>2. DOMAIN raw' = 1 .. Len(raw') /\ Len(raw') \in Nat
    BY <2>1, LenProperties
  <2> QED BY <1>2, <2>2
<1>9. InOnePlace'
  <2>1. ASSUME NEW i \in DOMAIN raw', raw'[i][1] \in Files
        PROVE  /\ raw'[i][2] = Needs(raw'[i][1])
               /\ raw'[i][1] \notin DOMAIN pending'
               /\ \A k \in DOMAIN raw' : raw'[k][1] = raw'[i][1] => k = i
               /\ \A j \in Jobs : Busy(j) => job[j].file # raw'[i][1]
    <3>1. i \in Nat /\ i + 1 \in DOMAIN raw /\ i + 1 # 1 /\ raw'[i] = raw[i + 1]
      BY <1>2, <1>8, <2>1
    <3>2. /\ raw'[i][2] = Needs(raw'[i][1]) /\ raw'[i][1] \notin DOMAIN pending
          /\ \A k \in DOMAIN raw : raw[k][1] = raw'[i][1] => k = i + 1
          /\ \A j \in Jobs : Busy(j) => job[j].file # raw'[i][1]
      BY <1>5, <2>1, <3>1 DEF InOnePlace
    <3>3. raw'[i][1] # h
      BY <1>2, <3>1, <3>2
    <3>4. raw'[i][1] \notin DOMAIN pending'
      BY <1>7, <3>2, <3>3
    <3>5. ASSUME NEW k \in DOMAIN raw', raw'[k][1] = raw'[i][1] PROVE k = i
      <4>1. k \in Nat /\ k + 1 = i + 1
        BY <1>2, <3>2, <3>5
      <4> QED BY <3>1, <4>1
    <3> QED BY <3>2, <3>4, <3>5
  <2>2. ASSUME NEW g \in DOMAIN pending'
        PROVE  pending'[g] = Needs(g) /\ \A j \in Jobs : Busy(j) => job[j].file # g
    BY <1>5, <1>6, <1>7 DEF InOnePlace
  <2>3. \A j \in Jobs : (Busy(j))' <=> Busy(j)
    BY <1>3 DEF Busy
  <2>4. \A j, k \in Jobs : Busy(j) /\ Busy(k) /\ job[j].file = job[k].file => j = k
    BY <1>5 DEF InOnePlace
  <2> QED BY <1>3, <2>1, <2>2, <2>3, <2>4 DEF InOnePlace, Needs
<1>10. EdgesOfNodes' /\ \A j \in Jobs : Busy(j)' => Progress(j)'
  BY <1>3, <1>5, SameProgress DEF EdgesOfNodes, Busy
<1>11. ASSUME NEW g \in Files \ (lost' \cup missed' \cup orphaned'), ~Waits(g)' PROVE Indexed(g)'
  <2>1. g # h
    BY <1>4, <1>7, <1>11 DEF Waits
  <2>2. ~Waits(g)
    <3>1. \A i \in DOMAIN raw : raw[i][1] # g
      BY <1>2, <1>11, <2>1 DEF Waits
    <3>2. g \notin DOMAIN pending
      BY <1>7, <1>11 DEF Waits
    <3> QED BY <1>3, <1>11, <3>1, <3>2 DEF Waits, Busy
  <2>3. Indexed(g)
    <3>1. g \notin lost \cup missed \cup orphaned
      BY <1>3, <1>4, <1>11
    <3> QED BY <1>5, <1>11, <2>2, <3>1
  <2> QED BY <1>3, <2>3 DEF Indexed, KnownNodes
<1> QED BY <1>9, <1>10, <1>11 DEF FreshInv

\* A ripe path leaves the table and is with a new job.
LEMMA FlushFresh ==
    ASSUME SaveInv, FreshInv, spaced, NEW f \in Files, Flush(f)
    PROVE  FreshInv'
<1>1. /\ f \in DOMAIN pending /\ pending' = [g \in DOMAIN pending \ {f} |-> pending[g]]
      /\ UNCHANGED <<disk, raw, nodes, edges, lost, missed, orphaned>>
  BY DEF Flush, graphVars
<1>2. PICK j \in Jobs : j = FreeJob /\ job[j].pc = "none"
  BY FreeJobIsFree DEF Flush
<1>3. PICK n : /\ n = [NoJob EXCEPT !.file = f, !.pc = pending[f]]
               /\ job' = [job EXCEPT ![j] = n]
  BY <1>2 DEF Flush
<1>4. /\ InOnePlace /\ EdgesOfNodes /\ (\A k \in Jobs : Busy(k) => Progress(k))
      /\ (\A g \in Files \ (lost \cup missed \cup orphaned) : Waits(g) \/ Indexed(g))
      /\ job \in [Jobs -> JobRecords] /\ pending[f] \in Kinds
  BY <1>1 DEF FreshInv, SaveInv, JobsOK, QueueOK
<1>5. n.file = f /\ n.pc = pending[f] /\ pending[f] = Needs(f)
  <2>1. n = [pc |-> pending[f], file |-> f, todo |-> {}, new |-> {}]
    BY <1>3 DEF NoJob
  <2> QED BY <1>1, <1>4, <2>1 DEF InOnePlace
<1>6. /\ job'[j].file = f /\ job'[j].pc = Needs(f) /\ Needs(f) \in Kinds /\ Busy(j)'
      /\ \A k \in Jobs \ {j} : job'[k] = job[k]
  BY <1>3, <1>4, <1>5 DEF Busy, Kinds
<1>7. \A k \in Jobs \ {j} : (Busy(k)' <=> Busy(k)) /\ (Busy(k) => job[k].file # f)
  BY <1>1, <1>4, <1>6 DEF Busy, InOnePlace
<1>8. InOnePlace'
  <2>1. \A i \in DOMAIN raw : raw[i][1] \in Files => raw[i][1] # f
    BY <1>1, <1>4 DEF InOnePlace
  <2>2. \A i \in DOMAIN raw : raw[i][1] \in Files =>
          \A k \in Jobs : Busy(k)' => job'[k].file # raw[i][1]
    BY <1>4, <1>6, <1>7, <2>1 DEF InOnePlace
  <2>3. /\ DOMAIN pending' = DOMAIN pending \ {f}
        /\ \A g \in DOMAIN pending' : /\ pending'[g] = Needs(g) /\ g # f /\ g \in DOMAIN pending
    BY <1>1, <1>4 DEF InOnePlace
  <2>4. \A g \in DOMAIN pending' : \A k \in Jobs : Busy(k)' => job'[k].file # g
    BY <1>4, <1>6, <1>7, <2>3 DEF InOnePlace
  <2>5. \A k, m \in Jobs : Busy(k)' /\ Busy(m)' /\ job'[k].file = job'[m].file => k = m
    BY <1>4, <1>6, <1>7 DEF InOnePlace
  <2>6. \A i \in DOMAIN raw : raw[i][1] \in Files =>
          /\ raw[i][2] = Needs(raw[i][1]) /\ raw[i][1] \notin DOMAIN pending'
          /\ \A k \in DOMAIN raw : raw[k][1] = raw[i][1] => k = i
    BY <1>4, <2>3 DEF InOnePlace
  <2> QED BY <1>1, <2>2, <2>3, <2>4, <2>5, <2>6 DEF InOnePlace, Needs
<1>9. ASSUME NEW k \in Jobs, Busy(k)' PROVE Progress(k)'
  <2>1. CASE k = j
    BY <1>1, <1>6, <2>1 DEF Progress, Plan, Whole, Exact, Needs
  <2>2. CASE k # j
    <3>1. job'[k] = job[k] /\ Progress(k)
      BY <1>4, <1>6, <1>7, <1>9, <2>2
    <3> QED BY <1>1, <3>1, SameProgress
  <2> QED BY <2>1, <2>2
<1>10. EdgesOfNodes'
  BY <1>1, <1>4 DEF EdgesOfNodes
<1>11. ASSUME NEW g \in Files \ (lost' \cup missed' \cup orphaned'), ~Waits(g)' PROVE Indexed(g)'
  <2>1. g # f
    BY <1>6, <1>11 DEF Waits
  <2>2. ~Waits(g)
    <3>1. g \notin DOMAIN pending /\ \A i \in DOMAIN raw : raw[i][1] # g
      BY <1>1, <1>11, <2>1 DEF Waits
    <3>2. \A k \in Jobs : ~(Busy(k) /\ job[k].file = g)
      BY <1>2, <1>6, <1>7, <1>11 DEF Waits, Busy
    <3> QED BY <3>1, <3>2 DEF Waits
  <2>3. Indexed(g)
    BY <1>1, <1>4, <1>11, <2>2
  <2> QED BY <1>1, <2>3 DEF Indexed, KnownNodes
<1> QED BY <1>8, <1>9, <1>10, <1>11 DEF FreshInv

\* FreshInv, with SaveInv, is an inductive invariant of the watcher.
THEOREM FreshInvariant == Spec => []FreshInv
<1>1. Init => FreshInv
  <2> SUFFICES ASSUME Init PROVE FreshInv
    OBVIOUS
  <2>1. /\ raw = <<>> /\ DOMAIN pending = {} /\ (\A j \in Jobs : ~Busy(j))
        /\ nodes = {} /\ \A x \in Nodes : edges[x] = 0
    BY DEF Init, NoJob, Busy
  <2>2. ASSUME NEW f \in Files PROVE Indexed(f)
    <3>1. disk[f] = Absent
      BY DEF Init
    <3> QED BY <2>1, <3>1, NodesOfAFile DEF Indexed, KnownNodes
  <2> QED BY <2>1, <2>2 DEF FreshInv, InOnePlace, EdgesOfNodes
<1>2. SaveInv /\ FreshInv /\ [Next]_vars => FreshInv'
  <2> SUFFICES ASSUME SaveInv, FreshInv, [Next]_vars, spaced' PROVE FreshInv'
    BY DEF FreshInv
  <2>1. CASE IgnoredChanges \/ \E f \in Files : Saves(f) \/ Removes(f) \/ \E g \in Files : Renames(f, g)
    BY <2>1, UserFresh
  <2>2. CASE Debounce \/ DebounceIgnored
    <3>1. spaced
      BY <2>2 DEF Debounce, DebounceIgnored
    <3> QED BY <2>2, <3>1, ChannelFresh
  <2>3. ASSUME NEW f \in Files, Flush(f) PROVE FreshInv'
    <3>1. spaced
      BY <2>3 DEF Flush
    <3> QED BY <2>3, <3>1, FlushFresh
  <2>4. ASSUME NEW j \in Jobs, JobStep(j) PROVE FreshInv'
    <3>1. spaced
      BY <2>4 DEF JobStep, DeleteReads, DeleteUnlinks, DeleteNodes, UpsertUnsupported, UpsertReads,
         UpsertFails, UpsertParses, UpsertWipes, UpsertWiped, UpsertInsertsNode, UpsertHasNodes,
         UpsertInsertsEdge, UpsertDone, Records, watchVars
    <3> QED BY <2>4, <3>1, JobStepFresh
  <2>5. CASE UNCHANGED vars
    <3>1. UNCHANGED <<disk, raw, pending, job, nodes, edges, lost, missed, orphaned>> /\ spaced
      BY <2>5, Zenon DEF vars
    <3>2. \A j \in Jobs : Busy(j)' => Busy(j) /\ (Progress(j) => Progress(j)')
      BY <3>1, SameProgress DEF Busy
    <3>3. InOnePlace /\ EdgesOfNodes => InOnePlace' /\ EdgesOfNodes'
      BY <3>1 DEF InOnePlace, EdgesOfNodes, Busy, Needs
    <3>4. \A f \in Files : (Waits(f) => Waits(f)') /\ (Indexed(f) => Indexed(f)')
      BY <3>1 DEF Waits, Busy, Indexed, KnownNodes
    <3> QED BY <3>1, <3>2, <3>3, <3>4 DEF FreshInv
  <2> QED BY <2>1, <2>2, <2>3, <2>4, <2>5 DEF Next
<1> QED BY <1>1, <1>2, SavesInvariant, PTL DEF Spec

\* A user who waits for each change to be indexed finds every file current whose
\* event was not dropped and whose last job lost nothing, unless one of its jobs
\* left edges of nodes that the graph does not know.
THEOREM SpacedAreIndexed == Spec => []SpacedChangesAreIndexed
<1>1. FreshInv => SpacedChangesAreIndexed
  BY DEF FreshInv, SpacedChangesAreIndexed, Waits, Drained, Busy
<1> QED BY <1>1, FreshInvariant, PTL

=============================================================================
