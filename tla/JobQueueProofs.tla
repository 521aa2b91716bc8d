--------------------------- MODULE JobQueueProofs ---------------------------
(***************************************************************************)
(* TLAPS proofs about JobQueue, for every bound, every set of workers and  *)
(* pools, and with or without disk faults.                                 *)
(***************************************************************************)
EXTENDS JobQueue, FiniteSetTheorems, TLAPS

\* A set of ids is finite, so Cardinality counts it.
LEMMA IdSetsFinite ==
    ASSUME NEW S \in SUBSET Ids
    PROVE  IsFiniteSet(S) /\ Cardinality(S) \in Nat
<1>1. MaxId \in Nat /\ 1 \in Int /\ MaxId \in Int
    BY JobQueueAssumption
<1>2. IsFiniteSet(Ids)
    BY <1>1, FS_Interval DEF Ids
<1>3. IsFiniteSet(S)
    BY <1>2, FS_Subset
<1> QED
    BY <1>3, FS_CardinalityType

\* An ordering of a set of ids is a sequence of ids without repetition whose
\* elements are exactly that set (the HashMap iteration of requeue_worker and
\* the ORDER BY of recover_queued).
LEMMA OrderingFacts ==
    ASSUME NEW S \in SUBSET Ids, NEW s \in Orderings(S)
    PROVE  /\ s \in Seq(Ids)
           /\ \A k \in DOMAIN s : s[k] \in S
           /\ \A x \in S : \E k \in DOMAIN s : s[k] = x
           /\ \A k, l \in DOMAIN s : s[k] = s[l] => k = l
<1>1. Cardinality(S) \in Nat
    BY IdSetsFinite
<1>2. s \in [1..Cardinality(S) -> S]
    BY DEF Orderings
<1>3. s \in [1..Cardinality(S) -> Ids]
    BY <1>2
<1>4. s \in Seq(Ids)
    BY <1>1, <1>3
<1> QED
    BY <1>2, <1>4 DEF Orderings

-----------------------------------------------------------------------------
\* Every variable has its type initially.
LEMMA TypeInit == Init => TypeOK
<1> USE JobQueueAssumption
<1> SUFFICES ASSUME Init PROVE TypeOK
    OBVIOUS
<1>1. router \in Router /\ router.pc = "idle"
    BY DEF Init, Idle, Router, RowStates, NoWorker
<1>2. kind \in [Ids -> Pools]
    BY DEF Init
<1> QED
    BY <1>1, <1>2 DEF Init, TypeOK, Ids, NoWorker, RowStates

\* Every step of the queue, its router, its workers or the supervisor's life
\* keeps the types.
LEMMA TypeNext == TypeOK /\ [Next]_vars => TypeOK'
<1> USE JobQueueAssumption
<1> SUFFICES ASSUME TypeOK, [Next]_vars PROVE TypeOK'
    OBVIOUS
<1> USE DEF TypeOK, memory, tasks, workers, history
<1>0. Idle \in Router /\ Idle.pc = "idle"
      /\ \A i \in Ids, st \in RowStates :
            Saving(i, st) \in Router /\ Saving(i, st).id = i /\ Saving(i, st).pc = "saving"
    BY DEF Idle, Saving, Router, RowStates, NoWorker
<1>1. CASE Boot
  <2>1. tracked' \in SUBSET Ids
      BY <1>1 DEF Boot
  <2>2. pending' \in Seq(Ids)
      BY <1>1, <2>1, OrderingFacts DEF Boot
  <2>3. nextId' \in 1..(MaxId + 1)
      BY <1>1 DEF Boot
  <2>4. disk' \in [Ids -> RowStates]
      BY <1>1 DEF Boot, RowStates, Recoverable
  <2> QED
      BY <1>1, <2>1, <2>2, <2>3, <2>4 DEF Boot
<1>2. CASE BootInMemory
    BY <1>2 DEF BootInMemory
<1>3. CASE Crash
    BY <1>3, <1>0 DEF Crash, NoWorker
<1>4. CASE SubmitFull
  <2>1. nextId' \in 1..(MaxId + 1)
      BY <1>4 DEF SubmitFull
  <2> QED
      BY <1>4, <2>1 DEF SubmitFull
<1>5. ASSUME NEW p \in Pools, Submit(p) PROVE TypeOK'
  <2>1. nextId \in Ids /\ nextId' \in 1..(MaxId + 1)
      BY <1>5 DEF Submit, Ids
  <2>2. disk' \in [Ids -> RowStates]
      BY <1>5, <2>1 DEF Submit, RowStates, Recoverable
  <2>3. pending' \in Seq(Ids)
      BY <1>5, <2>1 DEF Submit
  <2>4. kind' \in [Ids -> Pools]
      BY <1>5, <2>1 DEF Submit
  <2>5. tracked' \subseteq Ids /\ accepted' \subseteq Ids
      BY <1>5, <2>1 DEF Submit
  <2> QED
      BY <1>5, <2>1, <2>2, <2>3, <2>4, <2>5 DEF Submit
<1>6. CASE NextPending
  <2>1. Head(pending) \in Ids /\ Tail(pending) \in Seq(Ids)
      BY <1>6 DEF NextPending
  <2>2. [Idle EXCEPT !.pc = "trying", !.id = Head(pending)] \in Router
        /\ [Idle EXCEPT !.pc = "trying", !.id = Head(pending)].id = Head(pending)
        /\ [Idle EXCEPT !.pc = "trying", !.id = Head(pending)].pc = "trying"
      BY <2>1 DEF Idle, Router, RowStates, NoWorker
  <2> QED
      BY <1>6, <1>0, <2>1, <2>2 DEF NextPending
<1>7. CASE EncodeFails
  <2>1. router.id \in Ids
      BY <1>7 DEF EncodeFails
  <2>2. router' \in Router /\ (router'.pc # "idle" => router'.id \in Ids)
        /\ router'.pc # "sent"
      BY <1>7, <1>0, <2>1 DEF EncodeFails, RowStates
  <2> QED
      BY <1>7, <2>1, <2>2 DEF EncodeFails, CompleteSection
<1>8. CASE MarkAssigned
  <2>1. router.id \in Ids /\ router.to \in Workers
      BY <1>8 DEF MarkAssigned
  <2>2. router' \in Router /\ router'.id \in Ids /\ router'.pc # "sent"
      BY <1>8, <1>0, <2>1 DEF MarkAssigned, RowStates, Recoverable
  <2> QED
      BY <1>8, <2>1, <2>2 DEF MarkAssigned
<1>9. CASE ReturnPending
  <2>1. router.id \in Ids
      BY <1>9 DEF ReturnPending
  <2>2. router' \in Router /\ router'.id \in Ids /\ router'.pc # "sent"
      BY <1>9, <1>0, <2>1 DEF ReturnPending, RowStates, Recoverable
  <2>3. <<router.id>> \o pending \in Seq(Ids)
      BY <2>1
  <2> QED
      BY <1>9, <2>1, <2>2, <2>3 DEF ReturnPending
<1>10. CASE RouterSaves
  <2>1. router.id \in Ids /\ router.row \in RowStates
      BY <1>10 DEF RouterSaves, Router
  <2>2. disk' \in [Ids -> RowStates]
      BY <1>10, <2>1 DEF RouterSaves, Update
  <2> QED
      BY <1>10, <1>0, <2>2 DEF RouterSaves
<1>11. ASSUME NEW w \in Workers, TryWorker(w) PROVE TypeOK'
  <2>1. router.id \in Ids
      BY <1>11 DEF TryWorker
  <2>2. CASE wstate[w] = "up"
    <3>1. inbox' = [inbox EXCEPT ![w] = @ \cup {router.id}]
          /\ router' = [router EXCEPT !.pc = "sent", !.to = w]
        BY <1>11, <2>2 DEF TryWorker
    <3>2. router' \in Router /\ router'.id \in Ids /\ router'.to \in Workers
        BY <2>1, <3>1 DEF Router
    <3>3. inbox' \in [Workers -> SUBSET Ids]
        BY <2>1, <3>1
    <3> QED
        BY <1>11, <3>2, <3>3 DEF TryWorker
  <2>3. CASE wstate[w] # "up"
    <3>1. inbox' = inbox /\ router' = [router EXCEPT !.tried = @ \cup {w}]
        BY <1>11, <2>3 DEF TryWorker
    <3>2. router' \in Router /\ router'.id \in Ids /\ router'.pc = router.pc
          /\ router'.to = router.to
        BY <2>1, <3>1 DEF Router
    <3> QED
        BY <1>11, <3>1, <3>2 DEF TryWorker
  <2> QED
      BY <2>2, <2>3
<1>12. ASSUME NEW w \in Workers, WorkerExit(w) PROVE TypeOK'
    BY <1>12 DEF WorkerExit
<1>13. ASSUME NEW w \in Workers, RequeueWorker(w) PROVE TypeOK'
  <2> DEFINE ids == {i \in Ids : inflight[i] = w}
  <2>1. PICK s \in Orderings(ids) : pending' = s \o pending
      BY <1>13 DEF RequeueWorker
  <2>2. pending' \in Seq(Ids)
    <3>1. ids \in SUBSET Ids
        OBVIOUS
    <3>2. s \in Seq(Ids)
        BY <2>1, <3>1, OrderingFacts
    <3> QED
        BY <2>1, <3>2
  <2>3. inflight' \in [Ids -> Workers \cup {NoWorker}] /\ requeueW' \in [Workers -> SUBSET Ids]
      BY <1>13 DEF RequeueWorker
  <2> QED
      BY <1>13, <2>2, <2>3 DEF RequeueWorker
<1>14. ASSUME NEW w \in Workers, Spawn(w) PROVE TypeOK'
    BY <1>14 DEF Spawn
<1>15. ASSUME NEW w \in Workers, Retire(w) PROVE TypeOK'
    BY <1>15 DEF Retire
<1>16. ASSUME NEW w \in Workers, NEW i \in Ids, WorkerFinishes(w, i) PROVE TypeOK'
    BY <1>16 DEF WorkerFinishes
<1>17. ASSUME NEW w \in Workers, NEW i \in Ids, RequeueSaves(w, i) PROVE TypeOK'
  <2>1. disk' \in [Ids -> RowStates]
      BY <1>17 DEF RequeueSaves, Update, RowStates, Recoverable
  <2> QED
      BY <1>17, <2>1 DEF RequeueSaves
<1>18. ASSUME NEW m \in reports, Complete(m) PROVE TypeOK'
  <2>1. m.id \in Ids
      BY <1>18
  <2> QED
      BY <1>18, <2>1 DEF Complete, CompleteSection
<1>19. ASSUME NEW m \in reports, LoseReport(m) PROVE TypeOK'
    BY <1>19 DEF LoseReport
<1>20. ASSUME NEW i \in Ids, CompleteSaves(i) PROVE TypeOK'
  <2>1. disk' \in [Ids -> RowStates]
      BY <1>20 DEF CompleteSaves, Update, RowStates
  <2> QED
      BY <1>20, <2>1 DEF CompleteSaves
<1>21. CASE UNCHANGED vars
    BY <1>21 DEF vars
<1> QED
    BY <1>1, <1>2, <1>3, <1>4, <1>5, <1>6, <1>7, <1>8, <1>9, <1>10, <1>11, <1>12,
       <1>13, <1>14, <1>15, <1>16, <1>17, <1>18, <1>19, <1>20, <1>21
       DEF Next, RouterStep, WorkerStep

\* Every variable keeps its type in every reachable state of the queue.
THEOREM TypeCorrect == Spec => []TypeOK
    BY TypeInit, TypeNext, PTL DEF Spec

-----------------------------------------------------------------------------
\* push_back of an id the sequence does not hold yet (submit).
LEMMA AppendFacts ==
    ASSUME NEW s \in Seq(Ids), NEW x \in Ids
    PROVE  /\ Elems(Append(s, x)) = Elems(s) \cup {x}
           /\ Distinct(s) /\ x \notin Elems(s) => Distinct(Append(s, x))
<1>1. /\ DOMAIN Append(s, x) = 1..(Len(s) + 1) /\ DOMAIN s = 1..Len(s) /\ Len(s) \in Nat
      /\ \A k \in 1..Len(s) : Append(s, x)[k] = s[k]
      /\ Append(s, x)[Len(s) + 1] = x
    OBVIOUS
<1>2. Elems(Append(s, x)) = Elems(s) \cup {x}
    BY <1>1 DEF Elems
<1>3. Distinct(s) /\ x \notin Elems(s) => Distinct(Append(s, x))
    BY <1>1 DEF Elems, Distinct
<1> QED
    BY <1>2, <1>3

\* Putting a sequence of new ids in front of another (push_front of
\* return_pending and requeue_worker).
LEMMA ConcatFacts ==
    ASSUME NEW s \in Seq(Ids), NEW t \in Seq(Ids)
    PROVE  /\ s \o t \in Seq(Ids)
           /\ Elems(s \o t) = Elems(s) \cup Elems(t)
           /\ Distinct(s) /\ Distinct(t) /\ Elems(s) \cap Elems(t) = {} => Distinct(s \o t)
<1>1. /\ s \o t \in Seq(Ids) /\ Len(s) \in Nat /\ Len(t) \in Nat
      /\ DOMAIN (s \o t) = 1..(Len(s) + Len(t)) /\ DOMAIN s = 1..Len(s)
      /\ DOMAIN t = 1..Len(t)
      /\ \A k \in 1..(Len(s) + Len(t)) :
            (s \o t)[k] = IF k <= Len(s) THEN s[k] ELSE t[k - Len(s)]
    OBVIOUS
<1>2. \A k \in 1..Len(t) : (s \o t)[Len(s) + k] = t[k] /\ Len(s) + k \in DOMAIN (s \o t)
    BY <1>1
<1>3. \A k \in 1..Len(s) : (s \o t)[k] = s[k] /\ k \in DOMAIN (s \o t)
    BY <1>1
<1>4. Elems(s) \cup Elems(t) \subseteq Elems(s \o t)
  <2>1. Elems(s) \subseteq Elems(s \o t)
      BY <1>1, <1>3 DEF Elems
  <2>2. ASSUME NEW k \in DOMAIN t PROVE t[k] \in Elems(s \o t)
      BY <1>1, <1>2 DEF Elems
  <2> QED
      BY <2>1, <2>2 DEF Elems
<1>5. Elems(s \o t) \subseteq Elems(s) \cup Elems(t)
  <2> SUFFICES ASSUME NEW k \in DOMAIN (s \o t) PROVE (s \o t)[k] \in Elems(s) \cup Elems(t)
      BY DEF Elems
  <2>1. CASE k <= Len(s)
      BY <1>1, <2>1 DEF Elems
  <2>2. CASE k > Len(s)
    <3>1. k - Len(s) \in DOMAIN t /\ (s \o t)[k] = t[k - Len(s)]
        BY <1>1, <2>2
    <3> QED
        BY <3>1 DEF Elems
  <2> QED
      BY <1>1, <2>1, <2>2
<1>6. ASSUME Distinct(s), Distinct(t), Elems(s) \cap Elems(t) = {}
      PROVE  Distinct(s \o t)
  <2> SUFFICES ASSUME NEW k \in DOMAIN (s \o t), NEW l \in DOMAIN (s \o t),
                      (s \o t)[k] = (s \o t)[l], k < l
               PROVE  FALSE
      BY <1>1 DEF Distinct
  <2>1. CASE l <= Len(s)
      BY <1>1, <1>6, <2>1 DEF Distinct
  <2>2. CASE k > Len(s)
    <3>1. k - Len(s) \in DOMAIN t /\ l - Len(s) \in DOMAIN t
          /\ t[k - Len(s)] = t[l - Len(s)]
        BY <1>1, <2>2
    <3>2. k - Len(s) = l - Len(s)
        BY <1>6, <3>1 DEF Distinct
    <3> QED
        BY <1>1, <3>2
  <2>3. CASE k <= Len(s) /\ l > Len(s)
    <3>1. k \in DOMAIN s /\ l - Len(s) \in DOMAIN t /\ s[k] = t[l - Len(s)]
        BY <1>1, <2>3
    <3> QED
        BY <1>6, <3>1 DEF Elems
  <2> QED
      BY <1>1, <2>1, <2>2, <2>3
<1> QED
    BY <1>1, <1>4, <1>5, <1>6

\* Popping the front removes exactly that id.
LEMMA TailFacts ==
    ASSUME NEW s \in Seq(Ids), s # <<>>
    PROVE  /\ Tail(s) \in Seq(Ids) /\ Head(s) \in Ids
           /\ Elems(s) = Elems(Tail(s)) \cup {Head(s)}
           /\ Distinct(s) => Distinct(Tail(s)) /\ Head(s) \notin Elems(Tail(s))
<1>1. /\ Tail(s) \in Seq(Ids) /\ Len(s) \in Nat /\ Len(s) >= 1 /\ Head(s) = s[1]
      /\ DOMAIN s = 1..Len(s) /\ DOMAIN Tail(s) = 1..(Len(s) - 1)
      /\ \A k \in 1..(Len(s) - 1) : Tail(s)[k] = s[k + 1]
    OBVIOUS
<1>2. Elems(Tail(s)) \cup {Head(s)} \subseteq Elems(s)
    BY <1>1 DEF Elems
<1>3. ASSUME NEW k \in DOMAIN s PROVE s[k] \in Elems(Tail(s)) \cup {Head(s)}
  <2>1. CASE k = 1
      BY <1>1, <2>1
  <2>2. CASE k # 1
    <3>1. k - 1 \in DOMAIN Tail(s) /\ Tail(s)[k - 1] = s[k]
        BY <1>1, <2>2
    <3> QED
        BY <3>1 DEF Elems
  <2> QED
      BY <2>1, <2>2
<1>4. Distinct(s) => Distinct(Tail(s)) /\ Head(s) \notin Elems(Tail(s))
    BY <1>1 DEF Distinct, Elems
<1> QED
    BY <1>1, <1>2, <1>3, <1>4 DEF Elems

-----------------------------------------------------------------------------
\* Whatever the queue holds is a job id.
LEMMA TouchedIds == TypeOK => Touched \subseteq Ids
<1> SUFFICES ASSUME TypeOK PROVE Touched \subseteq Ids
    OBVIOUS
<1>1. Queued \subseteq Ids
  <2>1. \A k \in DOMAIN pending : pending[k] \in Ids
      BY DEF TypeOK
  <2> QED
      BY <2>1 DEF Queued, Elems
<1>2. InHand \subseteq Ids
    BY DEF InHand, TypeOK
<1>3. InFlightIds \subseteq Ids /\ tracked \subseteq Ids
    BY DEF InFlightIds, TypeOK
<1> QED
    BY <1>1, <1>2, <1>3 DEF Touched

\* Steps that leave the queue's places alone keep the invariant.
LEMMA PlacesUnchanged ==
    ASSUME QueueInv, TypeOK', mode # "down", mode' = mode,
           nextId' = nextId, pending' = pending, tracked' = tracked,
           inflight' = inflight, router' = router
    PROVE  QueueInv'
  BY DEF QueueInv, DownIsEmpty, BelowCounter, Touched, NeverDuplicated, TrackedIsHeld,
         InHand, InFlightIds, Queued

\* The conservation invariant holds initially.
LEMMA QueueInit == Init => QueueInv
<1> SUFFICES ASSUME Init PROVE QueueInv
    OBVIOUS
<1>1. TypeOK
    BY TypeInit
<1>2. Queued = {} /\ InHand = {} /\ InFlightIds = {} /\ tracked = {}
      /\ router.pc = "idle" /\ Distinct(pending)
    BY <1>1 DEF Init, Queued, Elems, Distinct, InHand, InFlightIds, Idle, TypeOK
<1> QED
    BY <1>1, <1>2 DEF Init, QueueInv, DownIsEmpty, BelowCounter, Touched,
                      NeverDuplicated, TrackedIsHeld

\* Every step keeps the conservation invariant.
LEMMA QueueNext == QueueInv /\ [Next]_vars => QueueInv'
<1> USE JobQueueAssumption
<1> SUFFICES ASSUME QueueInv, [Next]_vars PROVE QueueInv'
    OBVIOUS
<1>t. TypeOK /\ TypeOK'
    BY TypeNext DEF QueueInv
<1>u. CASE UNCHANGED vars
    BY <1>u, <1>t DEF vars, memory, tasks, QueueInv, DownIsEmpty, BelowCounter, Touched,
        NeverDuplicated, TrackedIsHeld, InHand, InFlightIds, Queued
<1>i. Idle.pc = "idle" /\ \A i, st : Saving(i, st).pc = "saving"
    BY DEF Idle, Saving
<1>1. CASE Boot
  <2>1. tracked' \in SUBSET Ids
      BY <1>1 DEF Boot
  <2>2. PICK s \in Orderings(tracked') : pending' = s
      BY <1>1 DEF Boot
  <2>3. Distinct(pending') /\ Elems(pending') = tracked'
      BY <2>1, <2>2, OrderingFacts DEF Distinct, Elems
  <2>4. InHand' = {} /\ InFlightIds' = {} /\ mode' = "durable"
      BY <1>1 DEF Boot, QueueInv, DownIsEmpty, InHand, InFlightIds, tasks
  <2>5. \A i \in tracked' : i < nextId'
    <3>1. PICK mx \in 0..MaxId : IsMaxId(mx) /\ nextId' = mx + 1
        BY <1>1 DEF Boot
    <3>2. \A i \in tracked' : i \in Ids /\ disk[i] # "absent"
        BY <1>1, <1>t DEF Boot, Recoverable
    <3> QED
        BY <3>1, <3>2 DEF IsMaxId, Ids
  <2> QED
      BY <1>t, <2>3, <2>4, <2>5 DEF QueueInv, DownIsEmpty, BelowCounter, Touched,
          NeverDuplicated, TrackedIsHeld, Queued
<1>2. CASE BootInMemory
  <2>1. InHand' = {} /\ InFlightIds' = {} /\ tracked' = {} /\ pending' = <<>> /\ mode' # "down"
      BY <1>2 DEF BootInMemory, QueueInv, DownIsEmpty, InHand, InFlightIds, tasks
  <2>2. Queued' = {} /\ Distinct(pending')
      BY <2>1 DEF Queued, Elems, Distinct
  <2> QED
      BY <1>t, <2>1, <2>2 DEF QueueInv, DownIsEmpty, BelowCounter, Touched,
          NeverDuplicated, TrackedIsHeld
<1>3. CASE Crash
  <2>1. InHand' = {} /\ InFlightIds' = {} /\ tracked' = {} /\ pending' = <<>>
        /\ router'.pc = "idle" /\ doneW' = {} /\ \A w \in Workers : requeueW'[w] = {}
      BY <1>3, <1>i DEF Crash, InHand, InFlightIds
  <2>2. Queued' = {} /\ Distinct(pending')
      BY <2>1 DEF Queued, Elems, Distinct
  <2> QED
      BY <1>t, <2>1, <2>2 DEF QueueInv, DownIsEmpty, BelowCounter, Touched,
          NeverDuplicated, TrackedIsHeld
<1>4. CASE SubmitFull
  <2>1. mode' # "down" /\ nextId' = nextId + 1 /\ nextId \in Int /\ Queued' = Queued /\ InHand' = InHand
        /\ InFlightIds' = InFlightIds /\ tracked' = tracked /\ pending' = pending
      BY <1>4, <1>t DEF SubmitFull, InHand, InFlightIds, Queued, tasks, TypeOK
  <2>2. \A i \in Touched : i \in Int
      BY <1>t, TouchedIds DEF Ids
  <2> QED
      BY <1>t, <2>1, <2>2 DEF QueueInv, DownIsEmpty, BelowCounter, Touched,
          NeverDuplicated, TrackedIsHeld
<1>5. ASSUME NEW p \in Pools, Submit(p) PROVE QueueInv'
  <2>1. /\ mode' # "down" /\ nextId' = nextId + 1 /\ nextId \in Ids /\ InHand' = InHand
        /\ InFlightIds' = InFlightIds /\ tracked' = tracked \cup {nextId}
        /\ pending' = Append(pending, nextId) /\ pending \in Seq(Ids)
      BY <1>5, <1>t DEF Submit, InHand, InFlightIds, tasks, TypeOK, Ids
  <2>2. nextId \notin Touched /\ \A i \in Touched : i \in Int /\ i < nextId
      BY <1>t, <2>1, TouchedIds DEF QueueInv, BelowCounter, Ids
  <2>3. Queued' = Queued \cup {nextId} /\ Distinct(pending')
      BY <2>1, <2>2, AppendFacts DEF Queued, QueueInv, NeverDuplicated, Touched
  <2>4. BelowCounter'
      BY <2>1, <2>2, <2>3 DEF BelowCounter, Touched, Ids
  <2> QED
      BY <1>t, <2>1, <2>2, <2>3, <2>4 DEF QueueInv, DownIsEmpty, Touched,
          NeverDuplicated, TrackedIsHeld
<1>6. CASE NextPending
  <2>1. /\ mode' # "down" /\ nextId' = nextId /\ InFlightIds' = InFlightIds
        /\ tracked' = tracked /\ pending' = Tail(pending) /\ pending \in Seq(Ids)
        /\ pending # <<>> /\ InHand = {}
      BY <1>6, <1>t DEF NextPending, InHand, InFlightIds, TypeOK
  <2>2. InHand' = IF Head(pending) \in tracked THEN {Head(pending)} ELSE {}
      BY <1>6, <1>i DEF NextPending, InHand, Idle
  <2>3. /\ Queued = Queued' \cup {Head(pending)} /\ Distinct(pending')
        /\ Head(pending) \notin Queued'
      BY <2>1, TailFacts DEF Queued, QueueInv, NeverDuplicated
  <2> QED
      BY <1>t, <2>1, <2>2, <2>3 DEF QueueInv, DownIsEmpty, BelowCounter, Touched,
          NeverDuplicated, TrackedIsHeld
<1>7. CASE EncodeFails
  <2>1. /\ mode' # "down" /\ nextId' = nextId /\ pending' = pending /\ InHand' = {}
        /\ tracked' = tracked \ {router.id} /\ InHand = {router.id}
        /\ InFlightIds' = InFlightIds \ {router.id}
      BY <1>7, <1>t, <1>i DEF EncodeFails, CompleteSection, InHand, InFlightIds, TypeOK
  <2> QED
      BY <1>t, <2>1 DEF QueueInv, DownIsEmpty, BelowCounter, Touched,
          NeverDuplicated, TrackedIsHeld, Queued
<1>8. CASE MarkAssigned
  <2>1. /\ mode' # "down" /\ nextId' = nextId /\ pending' = pending /\ InHand' = {}
        /\ tracked' = tracked /\ InHand = {router.id} /\ router.id \in Ids
      BY <1>8, <1>t, <1>i DEF MarkAssigned, InHand, TypeOK
  <2>2. InFlightIds' = InFlightIds \cup {router.id}
      BY <1>8, <1>t DEF MarkAssigned, InFlightIds, TypeOK, NoWorker
  <2> QED
      BY <1>t, <2>1, <2>2 DEF QueueInv, DownIsEmpty, BelowCounter, Touched,
          NeverDuplicated, TrackedIsHeld, Queued
<1>9. CASE ReturnPending
  <2>1. /\ mode' # "down" /\ nextId' = nextId /\ InHand' = {} /\ InHand = {router.id}
        /\ tracked' = tracked /\ router.id \in Ids /\ pending \in Seq(Ids)
        /\ InFlightIds' = InFlightIds \ {router.id}
      BY <1>9, <1>t, <1>i DEF ReturnPending, InHand, InFlightIds, TypeOK
  <2>2. CASE router.id \in tracked
    <3>1. <<router.id>> \in Seq(Ids) /\ Distinct(<<router.id>>) /\ Elems(<<router.id>>) = {router.id}
        BY <2>1 DEF Distinct, Elems
    <3>2. pending' = <<router.id>> \o pending
        BY <1>9, <2>2 DEF ReturnPending
    <3>a. Distinct(pending) /\ Elems(<<router.id>>) \cap Elems(pending) = {}
        BY <2>1, <3>1 DEF QueueInv, NeverDuplicated, Queued
    <3>b. /\ Elems(<<router.id>> \o pending) = Elems(<<router.id>>) \cup Elems(pending)
          /\ Distinct(<<router.id>> \o pending)
        BY <3>a, <2>1, <3>1, ConcatFacts
    <3>3. Queued' = Queued \cup {router.id} /\ Distinct(pending')
        BY <3>1, <3>2, <3>b DEF Queued
    <3> QED
        BY <1>t, <2>1, <3>3 DEF QueueInv, DownIsEmpty, BelowCounter, Touched,
            NeverDuplicated, TrackedIsHeld
  <2>3. CASE router.id \notin tracked
    <3>1. pending' = pending
        BY <1>9, <2>3 DEF ReturnPending
    <3> QED
        BY <1>t, <2>1, <2>3, <3>1 DEF QueueInv, DownIsEmpty, BelowCounter, Touched,
            NeverDuplicated, TrackedIsHeld, Queued
  <2> QED
      BY <2>2, <2>3
<1>10. CASE RouterSaves
  <2>1. /\ mode' # "down" /\ nextId' = nextId /\ pending' = pending /\ InHand' = {}
        /\ tracked' = tracked /\ InHand = {} /\ InFlightIds' = InFlightIds
      BY <1>10, <1>i DEF RouterSaves, InHand, InFlightIds, memory
  <2> QED
      BY <1>t, <2>1 DEF QueueInv, DownIsEmpty, BelowCounter, Touched,
          NeverDuplicated, TrackedIsHeld, Queued
<1>11. ASSUME NEW w \in Workers, TryWorker(w) PROVE QueueInv'
  <2>1. router'.id = router.id /\ router'.pc \in {"trying", "sent"}
    <3>1. router \in Router /\ router.pc = "trying"
        BY <1>11, <1>t DEF TryWorker, TypeOK
    <3>2. \/ router' = [router EXCEPT !.pc = "sent", !.to = w]
          \/ router' = [router EXCEPT !.tried = @ \cup {w}]
        BY <1>11 DEF TryWorker
    <3> QED
        BY <3>1, <3>2 DEF Router
  <2>2. /\ mode' # "down" /\ nextId' = nextId /\ pending' = pending /\ InHand' = InHand
        /\ tracked' = tracked /\ InFlightIds' = InFlightIds
      BY <1>11, <2>1 DEF TryWorker, InHand, InFlightIds, memory
  <2> QED
      BY <1>t, <2>2 DEF QueueInv, DownIsEmpty, BelowCounter, Touched,
          NeverDuplicated, TrackedIsHeld, Queued
<1>12. ASSUME NEW w \in Workers, WorkerExit(w) PROVE QueueInv'
    BY <1>12, <1>t DEF WorkerExit, memory, tasks, QueueInv, DownIsEmpty, BelowCounter, Touched,
        NeverDuplicated, TrackedIsHeld, InHand, InFlightIds, Queued
<1>13. ASSUME NEW w \in Workers, RequeueWorker(w) PROVE QueueInv'
  <2> DEFINE ids == {i \in Ids : inflight[i] = w}
  <2>0. ids \in SUBSET Ids /\ w # NoWorker
      BY DEF NoWorker
  <2>1. PICK s \in Orderings(ids) : pending' = s \o pending
      BY <1>13 DEF RequeueWorker
  <2>a. s \in Seq(Ids) /\ (\A k \in DOMAIN s : s[k] \in ids)
        /\ (\A x \in ids : \E k \in DOMAIN s : s[k] = x)
        /\ (\A k, l \in DOMAIN s : s[k] = s[l] => k = l)
    <3> HIDE DEF ids
    <3> QED
        BY <2>0, <2>1, OrderingFacts
  <2>2. s \in Seq(Ids) /\ Distinct(s) /\ Elems(s) = ids
    <3> HIDE DEF ids
    <3> QED
        BY <2>a DEF Distinct, Elems
  <2>3. /\ mode' # "down" /\ nextId' = nextId /\ InHand' = InHand /\ tracked' = tracked
        /\ pending \in Seq(Ids)
      BY <1>13, <1>t DEF RequeueWorker, InHand, TypeOK
  <2>4. InFlightIds' = InFlightIds \ ids /\ ids \subseteq InFlightIds
      BY <1>13, <2>0 DEF RequeueWorker, InFlightIds
  <2>5. Queued' = Queued \cup ids /\ Distinct(pending')
      BY <2>1, <2>2, <2>3, <2>4, ConcatFacts DEF QueueInv, NeverDuplicated, Queued
  <2> QED
      BY <1>t, <2>3, <2>4, <2>5 DEF QueueInv, DownIsEmpty, BelowCounter, Touched,
          NeverDuplicated, TrackedIsHeld
<1>14. ASSUME NEW w \in Workers, Spawn(w) PROVE QueueInv'
    BY <1>14, <1>t, PlacesUnchanged DEF Spawn, memory, tasks
<1>15. ASSUME NEW w \in Workers, Retire(w) PROVE QueueInv'
    BY <1>15, <1>t, PlacesUnchanged DEF Retire, memory, tasks
<1>16. ASSUME NEW w \in Workers, NEW i \in Ids, WorkerFinishes(w, i) PROVE QueueInv'
    BY <1>16, <1>t DEF WorkerFinishes, memory, tasks, QueueInv, DownIsEmpty, BelowCounter, Touched,
        NeverDuplicated, TrackedIsHeld, InHand, InFlightIds, Queued
<1>17. ASSUME NEW w \in Workers, NEW i \in Ids, RequeueSaves(w, i) PROVE QueueInv'
    BY <1>17, <1>t, PlacesUnchanged DEF RequeueSaves, memory
<1>18. ASSUME NEW m \in reports, Complete(m) PROVE QueueInv'
  <2>1. /\ mode' # "down" /\ nextId' = nextId /\ pending' = pending /\ InHand' = InHand
        /\ tracked' = tracked \ {m.id} /\ InFlightIds' = InFlightIds \ {m.id}
      BY <1>18, <1>t DEF Complete, CompleteSection, InHand, InFlightIds, TypeOK
  <2> QED
      BY <1>t, <2>1 DEF QueueInv, DownIsEmpty, BelowCounter, Touched,
          NeverDuplicated, TrackedIsHeld, Queued
<1>19. ASSUME NEW m \in reports, LoseReport(m) PROVE QueueInv'
    BY <1>19, <1>t DEF LoseReport, memory, tasks, QueueInv, DownIsEmpty, BelowCounter, Touched,
        NeverDuplicated, TrackedIsHeld, InHand, InFlightIds, Queued
<1>20. ASSUME NEW i \in Ids, CompleteSaves(i) PROVE QueueInv'
    BY <1>20, <1>t, PlacesUnchanged DEF CompleteSaves, memory
<1> QED
    BY <1>1, <1>2, <1>3, <1>4, <1>5, <1>6, <1>7, <1>8, <1>9, <1>10, <1>11, <1>12,
       <1>13, <1>14, <1>15, <1>16, <1>17, <1>18, <1>19, <1>20, <1>u
       DEF Next, RouterStep, WorkerStep

\* The queue conserves jobs: no interleaving of submits, dispatches, requeues,
\* completions, crashes and recoveries duplicates a job or leaves a tracked one
\* nowhere, for any number of workers and with or without disk faults.
THEOREM Conservation == Spec => []JobsAreConserved
<1>1. QueueInv => JobsAreConserved
    BY DEF QueueInv, JobsAreConserved
<1> QED
    BY <1>1, QueueInit, QueueNext, PTL DEF Spec

-----------------------------------------------------------------------------
\* An UPDATE that does not fail: rows that exist take the new state, nothing
\* else changes.
LEMMA UpdateFacts ==
    ASSUME TypeOK, mode = "durable", ~DiskFaults, NEW i \in Ids, NEW st \in RowStates \ {"absent"},
           Update(i, st)
    PROVE  /\ \A j \in Ids : disk'[j] # "absent" <=> disk[j] # "absent"
           /\ \A j \in Ids : j # i => disk'[j] = disk[j]
           /\ disk[i] # "absent" => disk'[i] = st
  BY DEF TypeOK, Update

\* The durability invariant holds initially.
LEMMA DurableInit == Init => DurableInv
<1> SUFFICES ASSUME Init PROVE DurableInv
    OBVIOUS
<1>1. TypeOK
    BY TypeInit
<1>2. Queued = {} /\ InHand = {} /\ InFlightIds = {} /\ tracked = {} /\ router.pc = "idle"
    BY <1>1 DEF Init, Queued, Elems, InHand, InFlightIds, Idle, TypeOK
<1> QED
    BY <1>1, <1>2 DEF Init, DurableInv, Touched

\* Every step keeps the durability invariant when statements do not fail.
LEMMA DurableNext ==
    ASSUME ~DiskFaults, QueueInv, QueueInv', DurableInv, [Next]_vars
    PROVE  DurableInv'
<1> USE JobQueueAssumption
<1>t. TypeOK /\ TypeOK' /\ (mode # "down" => mode = "durable")
    BY DEF QueueInv, DurableInv, TypeOK
<1>i. Idle.pc = "idle" /\ \A i, st : /\ Saving(i, st).pc = "saving" /\ Saving(i, st).id = i
                                     /\ Saving(i, st).row = st
    BY DEF Idle, Saving
<1>h. tracked' \cup Queued' \cup InHand' \cup InFlightIds' = Touched'
    BY DEF Touched
<1>1. CASE Boot
  <2>1. tracked' = {i \in Ids : disk[i] \in Recoverable}
      BY <1>1 DEF Boot
  <2>2. PICK s \in Orderings(tracked') : pending' = s
      BY <1>1 DEF Boot
  <2>a. tracked' \in SUBSET Ids
      BY <2>1
  <2>3. Elems(pending') = tracked'
      BY <2>a, <2>2, OrderingFacts DEF Elems
  <2>4. InHand' = {} /\ InFlightIds' = {} /\ mode' = "durable" /\ router'.pc = "idle"
      BY <1>1 DEF Boot, QueueInv, DownIsEmpty, InHand, InFlightIds, tasks
  <2>5. Touched' = tracked' /\ tracked' \subseteq accepted
      BY <2>1, <2>3, <2>4 DEF Touched, Queued, DurableInv, Recoverable
  <2>6. \A i \in accepted : i < nextId'
    <3>1. PICK mx \in 0..MaxId : IsMaxId(mx) /\ nextId' = mx + 1
        BY <1>1 DEF Boot
    <3>2. \A i \in accepted : i \in Ids /\ disk[i] # "absent"
        BY <1>t DEF DurableInv, TypeOK
    <3> QED
        BY <3>1, <3>2 DEF IsMaxId, Ids
  <2>7. /\ \A i \in Ids : disk'[i] # "absent" <=> disk[i] # "absent"
        /\ \A i \in Ids : disk'[i] = "done" => disk[i] = "done"
        /\ \A i \in tracked' : disk'[i] \in Recoverable
      BY <1>1, <2>1 DEF Boot, Recoverable
  <2>8. \A i \in accepted \ finished : i \in tracked'
      BY <1>t, <2>1 DEF DurableInv, TypeOK, RowStates
  <2>9. doneW' = {} /\ requeueW' = requeueW /\ inbox' = inbox /\ reports' = reports
        /\ accepted' = accepted /\ finished' = finished
      BY <1>1 DEF Boot, QueueInv, DownIsEmpty, tasks, workers, history
  <2> QED
      BY <2>4, <2>5, <2>6, <2>7, <2>8, <2>9 DEF DurableInv
<1>2. CASE BootInMemory
    BY <1>2 DEF BootInMemory
<1>3. CASE Crash
  <2>1. InHand' = {} /\ InFlightIds' = {} /\ tracked' = {} /\ pending' = <<>>
        /\ router'.pc = "idle" /\ doneW' = {} /\ \A w \in Workers : requeueW'[w] = {}
      BY <1>3, <1>i DEF Crash, InHand, InFlightIds
  <2>2. Touched' = {}
      BY <2>1 DEF Touched, Queued, Elems
  <2>3. \A m \in reports' : m.id \in accepted
      BY <1>3 DEF Crash, DurableInv
  <2>4. \A w \in Workers : inbox'[w] = {}
      BY <1>3 DEF Crash
  <2>5. mode' = "down" /\ accepted' = accepted /\ finished' = finished /\ disk' = disk
      BY <1>3 DEF Crash, history
  <2> QED
      BY <2>1, <2>2, <2>3, <2>4, <2>5 DEF DurableInv
<1>4. CASE SubmitFull
  <2>1. mode' = mode /\ nextId' = nextId + 1 /\ nextId \in Int /\ Touched' = Touched
        /\ \A i \in accepted : i \in Int
      BY <1>4, <1>t DEF SubmitFull, Touched, InHand, InFlightIds, Queued, tasks, TypeOK, Ids
  <2>2. \A i \in accepted : mode # "down" => i < nextId'
      BY <2>1 DEF DurableInv
  <2> QED
      BY <1>4, <2>1, <2>2 DEF SubmitFull, DurableInv, tasks, workers, history
<1>5. ASSUME NEW p \in Pools, Submit(p) PROVE DurableInv'
  <2>1. /\ mode' = "durable" /\ mode = "durable" /\ nextId' = nextId + 1 /\ nextId \in Ids
        /\ InHand' = InHand /\ InFlightIds' = InFlightIds /\ tracked' = tracked \cup {nextId}
        /\ pending' = Append(pending, nextId) /\ pending \in Seq(Ids)
        /\ accepted' = accepted \cup {nextId} /\ finished' = finished
        /\ disk' = [disk EXCEPT ![nextId] = "queued"]
      BY <1>5, <1>t DEF Submit, InHand, InFlightIds, tasks, TypeOK, Ids
  <2>2. nextId \notin accepted /\ \A i \in accepted : i \in Int /\ i < nextId
      BY <1>t, <2>1 DEF DurableInv, TypeOK, Ids
  <2>3. Queued' = Queued \cup {nextId}
      BY <2>1, AppendFacts DEF Queued
  <2>4. Touched' \subseteq accepted'
      BY <2>1, <2>3 DEF Touched, DurableInv
  <2>5. \A i \in accepted' : i < nextId'
      BY <2>1, <2>2 DEF Ids
  <2>6. /\ \A i \in Ids : i \in accepted' <=> disk'[i] # "absent"
        /\ \A i \in Ids : disk'[i] = "done" => i \in finished
        /\ \A i \in tracked' : disk'[i] \in Recoverable
      BY <1>t, <2>1 DEF DurableInv, TypeOK, Recoverable
  <2>7. doneW' = doneW /\ requeueW' = requeueW /\ inbox' = inbox /\ reports' = reports
        /\ router' = router
      BY <1>5 DEF Submit, tasks, workers
  <2>8. nextId \notin finished
      BY <2>2 DEF DurableInv
  <2>9. doneW' \subseteq finished \ tracked'
      BY <2>1, <2>7, <2>8 DEF DurableInv
  <2> QED
      BY <2>1, <2>4, <2>5, <2>6, <2>7, <2>8, <2>9 DEF DurableInv
<1>6. CASE NextPending
  <2>1. Touched' \subseteq Touched
    <3>1. pending \in Seq(Ids) /\ pending # <<>> /\ pending' = Tail(pending)
        BY <1>6, <1>t DEF NextPending, TypeOK
    <3>2. Queued = Queued' \cup {Head(pending)}
        BY <3>1, TailFacts DEF Queued
    <3>3. InHand' \subseteq {Head(pending)}
        BY <1>6, <1>i DEF NextPending, InHand, Idle
    <3> QED
        BY <1>6, <3>2, <3>3 DEF NextPending, Touched, InFlightIds
  <2>2. router'.pc # "saving"
      BY <1>6, <1>i DEF NextPending, Idle
  <2> QED
      BY <1>6, <2>1, <2>2 DEF NextPending, DurableInv, workers, history
<1>7. CASE EncodeFails
  <2>1. /\ mode' = mode /\ nextId' = nextId /\ pending' = pending /\ InHand' = {}
        /\ tracked' = tracked \ {router.id} /\ router.id \in Ids
        /\ InFlightIds' \subseteq InFlightIds
      BY <1>7, <1>t, <1>i DEF EncodeFails, CompleteSection, InHand, InFlightIds, TypeOK
  <2>2. Touched' \subseteq Touched
      BY <2>1 DEF Touched, Queued
  <2>3. finished' = (IF router.id \in tracked THEN finished \cup {router.id} ELSE finished)
        /\ finished' \subseteq accepted
      BY <1>7 DEF EncodeFails, CompleteSection, DurableInv, Touched
  <2>4. router'.pc = "saving" => router'.row = "done" /\ router'.id = router.id /\ router.id \in tracked
      BY <1>7, <1>i DEF EncodeFails
  <2> QED
      BY <1>7, <2>1, <2>2, <2>3, <2>4 DEF EncodeFails, DurableInv, workers
<1>8. CASE MarkAssigned
  <2>1. /\ InHand' = {} /\ InHand = {router.id} /\ router.id \in Ids
        /\ InFlightIds' = InFlightIds \cup {router.id}
      BY <1>8, <1>t, <1>i DEF MarkAssigned, InHand, InFlightIds, TypeOK, NoWorker
  <2>2. Touched' \subseteq Touched
      BY <1>8, <2>1 DEF MarkAssigned, Touched, Queued
  <2>3. router'.row = "in_flight"
      BY <1>8, <1>i DEF MarkAssigned
  <2> QED
      BY <1>8, <2>2, <2>3 DEF MarkAssigned, DurableInv, workers, history
<1>9. CASE ReturnPending
  <2>1. /\ InHand' = {} /\ InHand = {router.id} /\ router.id \in Ids
        /\ InFlightIds' \subseteq InFlightIds /\ pending \in Seq(Ids) /\ <<router.id>> \in Seq(Ids)
      BY <1>9, <1>t, <1>i DEF ReturnPending, InHand, InFlightIds, TypeOK
  <2>2. Elems(<<router.id>>) = {router.id}
      BY DEF Elems
  <2>3. Elems(<<router.id>> \o pending) = {router.id} \cup Elems(pending)
      BY <2>1, <2>2, ConcatFacts
  <2>4. Touched' \subseteq Touched
      BY <1>9, <2>1, <2>3 DEF ReturnPending, Touched, Queued
  <2>5. router'.row = "queued"
      BY <1>9, <1>i DEF ReturnPending
  <2> QED
      BY <1>9, <2>4, <2>5 DEF ReturnPending, DurableInv, workers, history
<1>10. CASE RouterSaves
  <2>1. router.id \in Ids /\ router.row \in RowStates \ {"absent"} /\ mode = "durable"
        /\ Update(router.id, router.row)
      BY <1>10, <1>t DEF RouterSaves, TypeOK, Router, DurableInv
  <2>2. /\ \A j \in Ids : disk'[j] # "absent" <=> disk[j] # "absent"
        /\ \A j \in Ids : j # router.id => disk'[j] = disk[j]
        /\ disk[router.id] # "absent" => disk'[router.id] = router.row
      BY <1>t, <2>1, UpdateFacts
  <2>3. Touched' \subseteq Touched /\ router'.pc = "idle"
      BY <1>10, <1>i DEF RouterSaves, Touched, InHand, InFlightIds, Queued, memory
  <2>4. \A i \in Ids : disk'[i] = "done" => i \in finished
      BY <1>10, <2>2 DEF RouterSaves, DurableInv
  <2>5. \A i \in tracked : disk'[i] \in Recoverable
      BY <1>10, <1>t, <2>1, <2>2 DEF RouterSaves, DurableInv, RowStates, TypeOK, Recoverable
  <2> QED
      BY <1>10, <2>2, <2>3, <2>4, <2>5 DEF RouterSaves, DurableInv, memory, workers, history
<1>11. ASSUME NEW w \in Workers, TryWorker(w) PROVE DurableInv'
  <2>1. router'.id = router.id /\ router'.pc \in {"trying", "sent"} /\ router.id \in Ids
    <3>1. router \in Router /\ router.pc = "trying"
        BY <1>11, <1>t DEF TryWorker, TypeOK
    <3>2. \/ router' = [router EXCEPT !.pc = "sent", !.to = w]
          \/ router' = [router EXCEPT !.tried = @ \cup {w}]
        BY <1>11 DEF TryWorker
    <3>3. router.id \in Ids
        BY <3>1, <1>t DEF TypeOK
    <3> QED
        BY <3>1, <3>2, <3>3 DEF Router
  <2>2. Touched' = Touched /\ router.id \in Touched
      BY <1>11, <2>1 DEF TryWorker, Touched, InHand, InFlightIds, Queued, memory
  <2>3. \A v \in Workers : inbox'[v] \subseteq accepted
    <3>1. inbox' = inbox \/ inbox' = [inbox EXCEPT ![w] = @ \cup {router.id}]
        BY <1>11 DEF TryWorker
    <3>2. router.id \in accepted
        BY <2>2 DEF DurableInv
    <3> QED
        BY <1>t, <3>1, <3>2 DEF DurableInv, TypeOK
  <2> QED
      BY <1>11, <2>1, <2>2, <2>3 DEF TryWorker, DurableInv, memory, history
<1>12. ASSUME NEW w \in Workers, WorkerExit(w) PROVE DurableInv'
  <2>1. Touched' = Touched
      BY <1>12 DEF WorkerExit, Touched, InHand, InFlightIds, Queued, memory, tasks
  <2>2. \A v \in Workers : inbox'[v] \subseteq accepted
      BY <1>12, <1>t DEF WorkerExit, DurableInv, TypeOK
  <2> QED
      BY <1>12, <2>1, <2>2 DEF WorkerExit, DurableInv, memory, tasks, history
<1>13. ASSUME NEW w \in Workers, RequeueWorker(w) PROVE DurableInv'
  <2> DEFINE ids == {i \in Ids : inflight[i] = w}
  <2>0. ids \in SUBSET Ids /\ w # NoWorker
      BY DEF NoWorker
  <2>1. PICK s \in Orderings(ids) : pending' = s \o pending
      BY <1>13 DEF RequeueWorker
  <2>a. pending \in Seq(Ids)
      BY <1>t DEF TypeOK
  <2>b. s \in Seq(Ids) /\ (\A k \in DOMAIN s : s[k] \in ids)
        /\ (\A x \in ids : \E k \in DOMAIN s : s[k] = x)
    <3> HIDE DEF ids
    <3> QED
        BY <2>0, <2>1, OrderingFacts
  <2>2. s \in Seq(Ids) /\ Elems(s) = ids
    <3> HIDE DEF ids
    <3> QED
        BY <2>b DEF Elems
  <2>3. InFlightIds' \subseteq InFlightIds /\ ids \subseteq InFlightIds /\ InHand' = InHand
      BY <1>13, <2>0 DEF RequeueWorker, InFlightIds, InHand
  <2>4. Queued' = Queued \cup ids
      BY <2>1, <2>2, <2>a, ConcatFacts DEF Queued
  <2>5. Touched' \subseteq Touched /\ ids \subseteq accepted
      BY <1>13, <2>3, <2>4 DEF RequeueWorker, Touched, DurableInv
  <2>6. \A v \in Workers : requeueW'[v] \subseteq accepted
      BY <1>13, <1>t, <2>5 DEF RequeueWorker, DurableInv, TypeOK
  <2> QED
      BY <1>13, <2>5, <2>6 DEF RequeueWorker, DurableInv, history
<1>14. ASSUME NEW w \in Workers, Spawn(w) PROVE DurableInv'
    BY <1>14 DEF Spawn, DurableInv, Touched, InHand, InFlightIds, Queued, memory, tasks, history
<1>15. ASSUME NEW w \in Workers, Retire(w) PROVE DurableInv'
    BY <1>15 DEF Retire, DurableInv, Touched, InHand, InFlightIds, Queued, memory, tasks, history
<1>16. ASSUME NEW w \in Workers, NEW i \in Ids, WorkerFinishes(w, i) PROVE DurableInv'
  <2>1. Touched' = Touched
      BY <1>16 DEF WorkerFinishes, Touched, InHand, InFlightIds, Queued, memory, tasks
  <2>2. \A v \in Workers : inbox'[v] \subseteq accepted
      BY <1>16, <1>t DEF WorkerFinishes, DurableInv, TypeOK
  <2>3. \A m \in reports' : m.id \in accepted
    <3>1. reports' = reports \cup {[id |-> i, from |-> w]} /\ i \in inbox[w]
        BY <1>16 DEF WorkerFinishes
    <3>2. i \in accepted /\ \A m \in reports : m.id \in accepted
        BY <3>1 DEF DurableInv
    <3>3. [id |-> i, from |-> w].id = i
        OBVIOUS
    <3> QED
        BY <3>1, <3>2, <3>3, Zenon
  <2> QED
      BY <1>16, <2>1, <2>2, <2>3 DEF WorkerFinishes, DurableInv, memory, tasks, history
<1>17. ASSUME NEW w \in Workers, NEW i \in Ids, RequeueSaves(w, i) PROVE DurableInv'
  <2>1. mode = "durable" /\ Update(i, "queued") /\ "queued" \in RowStates \ {"absent"}
      BY <1>17, <1>t DEF RequeueSaves, RowStates, Recoverable
  <2>2. /\ \A j \in Ids : disk'[j] # "absent" <=> disk[j] # "absent"
        /\ \A j \in Ids : j # i => disk'[j] = disk[j]
        /\ disk[i] # "absent" => disk'[i] = "queued"
      BY <1>t, <2>1, UpdateFacts
  <2>3. Touched' = Touched /\ \A v \in Workers : requeueW'[v] \subseteq accepted
      BY <1>17, <1>t DEF RequeueSaves, Touched, InHand, InFlightIds, Queued, memory, DurableInv, TypeOK
  <2>4. \A j \in Ids : disk'[j] = "done" => j \in finished
      BY <2>2 DEF DurableInv
  <2>5. \A j \in tracked : disk'[j] \in Recoverable
      BY <1>t, <2>2 DEF DurableInv, TypeOK, Recoverable
  <2> QED
      BY <1>17, <2>2, <2>3, <2>4, <2>5 DEF RequeueSaves, DurableInv, memory, workers, history
<1>18. ASSUME NEW m \in reports, Complete(m) PROVE DurableInv'
  <2>1. /\ InHand' = InHand /\ tracked' = tracked \ {m.id} /\ InFlightIds' \subseteq InFlightIds
        /\ finished' = (IF m.id \in tracked THEN finished \cup {m.id} ELSE finished)
        /\ doneW' = (IF m.id \in tracked THEN doneW \cup {m.id} ELSE doneW)
      BY <1>18, <1>t DEF Complete, CompleteSection, InHand, InFlightIds, TypeOK
  <2>2. Touched' \subseteq Touched
      BY <1>18, <2>1 DEF Complete, Touched, Queued
  <2>3. Touched' \cup doneW' \cup finished' \subseteq accepted
      BY <2>1, <2>2 DEF DurableInv, Touched
  <2> QED
      BY <1>18, <2>1, <2>3 DEF Complete, DurableInv
<1>19. ASSUME NEW m \in reports, LoseReport(m) PROVE DurableInv'
    BY <1>19 DEF LoseReport, DurableInv, Touched, InHand, InFlightIds, Queued, memory, tasks, history
<1>20. ASSUME NEW i \in Ids, CompleteSaves(i) PROVE DurableInv'
  <2>1. mode = "durable" /\ Update(i, "done") /\ "done" \in RowStates \ {"absent"}
      BY <1>20, <1>t DEF CompleteSaves, RowStates, Recoverable
  <2>2. /\ \A j \in Ids : disk'[j] # "absent" <=> disk[j] # "absent"
        /\ \A j \in Ids : j # i => disk'[j] = disk[j]
        /\ disk[i] # "absent" => disk'[i] = "done"
      BY <1>t, <2>1, UpdateFacts
  <2>3. Touched' = Touched
      BY <1>20 DEF CompleteSaves, Touched, InHand, InFlightIds, Queued, memory
  <2>4. \A j \in Ids : disk'[j] = "done" => j \in finished
      BY <1>20, <2>2 DEF CompleteSaves, DurableInv
  <2>5. \A j \in tracked : disk'[j] \in Recoverable
      BY <1>20, <1>t, <2>2 DEF CompleteSaves, DurableInv, TypeOK
  <2> QED
      BY <1>20, <2>2, <2>3, <2>4, <2>5 DEF CompleteSaves, DurableInv, memory, workers, history
<1>21. CASE UNCHANGED vars
    BY <1>21 DEF vars, DurableInv, Touched, InHand, InFlightIds, Queued, memory, tasks, workers, history
<1> QED
    BY <1>1, <1>2, <1>3, <1>4, <1>5, <1>6, <1>7, <1>8, <1>9, <1>10, <1>11, <1>12,
       <1>13, <1>14, <1>15, <1>16, <1>17, <1>18, <1>19, <1>20, <1>21
       DEF Next, RouterStep, WorkerStep

\* Crash safety: whatever order the deferred updates ran in and wherever the
\* supervisor stopped, a job that was accepted and has no outcome is in a row
\* that recovery reloads, and ids are never handed out twice.
THEOREM CrashSafety == ASSUME ~DiskFaults PROVE Spec => [](OwedIsRecoverable /\ IdsNeverReused)
<1>1. QueueInv /\ DurableInv => OwedIsRecoverable
  <2> SUFFICES ASSUME QueueInv, DurableInv, NEW i \in accepted \ finished
               PROVE  disk[i] \in Recoverable /\ (mode = "durable" => i \in tracked)
      BY DEF OwedIsRecoverable
  <2> QED
      BY DEF QueueInv, TypeOK, DurableInv, RowStates
<1>2. DurableInv => IdsNeverReused
    BY DEF DurableInv, IdsNeverReused
<1> QED
    BY <1>1, <1>2, QueueInit, QueueNext, DurableInit, DurableNext, PTL DEF Spec

\* Ids are never handed out twice, across any number of restarts: a report or a
\* line on a worker's stdin that outlived its supervisor cannot name a job that
\* with_durable's seeded counter gives out later.
THEOREM IdsUnique == Spec => []IdsNeverReused
<1>1. CASE DiskFaults
  <2>1. IdsNeverReused
      BY <1>1 DEF IdsNeverReused
  <2> QED
      BY <2>1, PTL
<1>2. CASE ~DiskFaults
    BY <1>2, CrashSafety, PTL
<1> QED
    BY <1>1, <1>2

\* A step of the queue is a step of the ledger or leaves it alone.
LEMMA LedgerStep ==
    ASSUME ~DiskFaults, QueueInv, QueueInv', DurableInv, DurableInv', [Next]_vars
    PROVE  [Ledger!Next]_<<{i \in Ids : disk[i] \in Recoverable}, finished>>
<1> USE JobQueueAssumption
<1> DEFINE owed == {i \in Ids : disk[i] \in Recoverable}
<1>t. TypeOK /\ TypeOK' /\ (mode # "down" => mode = "durable")
    BY DEF QueueInv, DurableInv, TypeOK
<1>s. ASSUME owed' = owed, finished' = finished
      PROVE  [Ledger!Next]_<<owed, finished>>
    BY <1>s
<1>w. ASSUME NEW i \in Ids, NEW st \in RowStates \ {"absent"}, mode = "durable",
             Update(i, st), st = "done" => i \in finished, finished' = finished
      PROVE  [Ledger!Next]_<<owed, finished>>
  <2>1. /\ \A j \in Ids : disk'[j] # "absent" <=> disk[j] # "absent"
        /\ \A j \in Ids : j # i => disk'[j] = disk[j]
        /\ disk[i] # "absent" => disk'[i] = st
      BY <1>t, <1>w, UpdateFacts
  <2>2. CASE disk[i] = "absent"
      BY <1>s, <1>w, <2>1, <2>2 DEF Recoverable
  <2>3. CASE disk[i] # "absent" /\ st = "done"
    <3>1. owed' = owed \ {i}
        BY <2>1, <2>3 DEF Recoverable
    <3> QED
        BY <1>w, <2>3, <3>1 DEF Ledger!Next, Ledger!Clear
  <2>4. CASE disk[i] # "absent" /\ st # "done"
    <3>1. st \in Recoverable
        BY <2>4 DEF RowStates
    <3>2. owed' = owed \cup {i}
        BY <2>1, <2>4, <3>1
    <3>3. CASE disk[i] \in Recoverable
        BY <1>s, <1>w, <3>2, <3>3
    <3>4. CASE disk[i] = "done"
      <4>1. i \in finished
          BY <3>4 DEF DurableInv
      <4> QED
          BY <1>w, <3>2, <4>1 DEF Ledger!Next, Ledger!Reopen
    <3> QED
        BY <1>t, <2>4, <3>3, <3>4 DEF TypeOK, RowStates
  <2> QED
      BY <2>2, <2>3, <2>4
<1>c. ASSUME NEW i \in Ids, CompleteSection(i), disk' = disk
      PROVE  [Ledger!Next]_<<owed, finished>>
  <2>1. CASE i \in tracked
    <3>1. i \in owed /\ finished' = finished \cup {i} /\ owed' = owed
        BY <1>c, <2>1 DEF CompleteSection, DurableInv
    <3> QED
        BY <3>1 DEF Ledger!Next, Ledger!Settle
  <2>2. CASE i \notin tracked
      BY <1>c, <1>s, <2>2 DEF CompleteSection
  <2> QED
      BY <2>1, <2>2
<1>1. CASE Boot
  <2>1. owed' = owed
      BY <1>1, <1>t DEF Boot, Recoverable, TypeOK
  <2> QED
      BY <1>1, <1>s, <2>1 DEF Boot, history
<1>2. ASSUME NEW p \in Pools, Submit(p) PROVE [Ledger!Next]_<<owed, finished>>
  <2>1. nextId \in Ids /\ disk' = [disk EXCEPT ![nextId] = "queued"] /\ finished' = finished
      BY <1>2, <1>t DEF Submit, TypeOK, Ids
  <2>2. nextId \notin finished
      BY <1>2, <1>t, <2>1 DEF Submit, DurableInv, TypeOK, Ids
  <2>3. owed' = owed \cup {nextId}
      BY <1>t, <2>1 DEF Recoverable, TypeOK
  <2> QED
      BY <2>1, <2>2, <2>3 DEF Ledger!Next, Ledger!Accept
<1>3. CASE EncodeFails
    BY <1>3, <1>t, <1>c DEF EncodeFails, TypeOK
<1>4. CASE RouterSaves
  <2>1. router.id \in Ids /\ router.row \in RowStates \ {"absent"} /\ mode = "durable"
        /\ Update(router.id, router.row) /\ finished' = finished
        /\ (router.row = "done" => router.id \in finished)
      BY <1>4, <1>t DEF RouterSaves, TypeOK, Router, DurableInv, history
  <2> QED
      BY <1>w, <2>1
<1>5. ASSUME NEW w \in Workers, NEW i \in Ids, RequeueSaves(w, i)
      PROVE  [Ledger!Next]_<<owed, finished>>
  <2>1. mode = "durable" /\ Update(i, "queued") /\ "queued" \in RowStates \ {"absent"}
        /\ finished' = finished
      BY <1>5, <1>t DEF RequeueSaves, RowStates, Recoverable, history
  <2> QED
      BY <1>w, <2>1
<1>6. ASSUME NEW i \in Ids, CompleteSaves(i) PROVE [Ledger!Next]_<<owed, finished>>
  <2>1. mode = "durable" /\ Update(i, "done") /\ "done" \in RowStates \ {"absent"}
        /\ finished' = finished /\ i \in finished
      BY <1>6, <1>t DEF CompleteSaves, RowStates, Recoverable, history, DurableInv
  <2> QED
      BY <1>w, <2>1
<1>7. ASSUME NEW m \in reports, Complete(m) PROVE [Ledger!Next]_<<owed, finished>>
    BY <1>7, <1>t, <1>c DEF Complete, TypeOK
<1>8. ASSUME \/ BootInMemory \/ Crash \/ SubmitFull \/ NextPending \/ MarkAssigned
             \/ ReturnPending \/ UNCHANGED vars
             \/ \E w \in Workers : \/ TryWorker(w) \/ WorkerExit(w) \/ RequeueWorker(w)
                                   \/ Spawn(w) \/ Retire(w) \/ \E i \in Ids : WorkerFinishes(w, i)
             \/ \E m \in reports : LoseReport(m)
      PROVE  [Ledger!Next]_<<owed, finished>>
  <2>1. disk' = disk /\ finished' = finished
      BY <1>8 DEF BootInMemory, Crash, SubmitFull, NextPending, MarkAssigned, ReturnPending,
          TryWorker, WorkerExit, RequeueWorker, Spawn, Retire, WorkerFinishes, LoseReport,
          vars, history
  <2> QED
      BY <1>s, <2>1
<1> QED
    BY <1>1, <1>2, <1>3, <1>4, <1>5, <1>6, <1>7, <1>8 DEF Next, RouterStep, WorkerStep

\* The durable queue implements the at-least-once ledger.
THEOREM LedgerRefinement == ASSUME ~DiskFaults PROVE Spec => LedgerSpec
<1>1. Init => Ledger!Init
    BY DEF Init, Ledger!Init, Recoverable
<1> QED
    BY <1>1, QueueInit, QueueNext, DurableInit, DurableNext, LedgerStep, PTL
       DEF Spec, LedgerSpec, Ledger!Spec

-----------------------------------------------------------------------------
\* How many jobs the in-flight map and the router's hand hold.
LEMMA LoadCounts ==
    ASSUME TypeOK
    PROVE  /\ Len(pending) \in Nat
           /\ IsFiniteSet(InFlightIds) /\ Cardinality(InFlightIds) \in Nat
           /\ Cardinality(InHand) = IF router.pc \in {"trying", "sent"} THEN 1 ELSE 0
<1>1. Len(pending) \in Nat
    BY DEF TypeOK
<1>2. InFlightIds \in SUBSET Ids
    BY DEF InFlightIds
<1>3. Cardinality(InHand) = IF router.pc \in {"trying", "sent"} THEN 1 ELSE 0
    BY FS_Singleton, FS_EmptySet DEF InHand
<1> QED
    BY <1>1, <1>2, <1>3, IdSetsFinite

\* Removing an entry from the in-flight map, if it is there, never adds to it;
\* inserting one adds at most one.
LEMMA EntryCounts ==
    ASSUME TypeOK, TypeOK', NEW i \in Ids, NEW w \in Workers \cup {NoWorker},
           inflight' = [inflight EXCEPT ![i] = w]
    PROVE  /\ w = NoWorker => Cardinality(InFlightIds') <= Cardinality(InFlightIds)
           /\ Cardinality(InFlightIds') <= Cardinality(InFlightIds) + 1
<1>1. IsFiniteSet(InFlightIds) /\ Cardinality(InFlightIds) \in Nat
    BY LoadCounts
<1>2. CASE w = NoWorker
  <2>1. InFlightIds' = InFlightIds \ {i}
      BY <1>2 DEF InFlightIds, TypeOK
  <2> QED
      BY <1>1, <2>1, FS_RemoveElement
<1>3. CASE w # NoWorker
  <2>1. InFlightIds' = InFlightIds \cup {i}
      BY <1>3 DEF InFlightIds, TypeOK
  <2>2. Cardinality(InFlightIds \cup {i}) =
            IF i \in InFlightIds THEN Cardinality(InFlightIds) ELSE Cardinality(InFlightIds) + 1
      BY <1>1, FS_AddElement
  <2> QED
      BY <1>1, <1>3, <2>1, <2>2
<1> QED
    BY <1>2, <1>3

\* The load invariant holds initially.
LEMMA LoadInit == Init => LoadInv
<1> USE JobQueueAssumption
<1> SUFFICES ASSUME Init PROVE LoadInv
    OBVIOUS
<1>1. Len(pending) = 0 /\ InFlightIds = {} /\ InHand = {}
    BY DEF Init, InFlightIds, InHand, Idle
<1>2. Len(pending) + Cardinality(InFlightIds) + Cardinality(InHand) <= MaxPending + 1
    BY <1>1, FS_EmptySet
<1> QED
    BY <1>2 DEF LoadInv, LoadBounded, Init

\* Every step keeps the load invariant.
LEMMA LoadNext == QueueInv /\ QueueInv' /\ LoadInv /\ [Next]_vars => LoadInv'
<1> USE JobQueueAssumption
<1> SUFFICES ASSUME QueueInv, QueueInv', LoadInv, [Next]_vars PROVE LoadInv'
    OBVIOUS
<1> DEFINE load == Len(pending) + Cardinality(InFlightIds) + Cardinality(InHand)
<1>t. /\ TypeOK /\ TypeOK' /\ crashes \in Nat /\ MaxPending \in Nat
    BY DEF QueueInv, TypeOK
<1>n. /\ Len(pending) \in Nat
      /\ IsFiniteSet(InFlightIds) /\ Cardinality(InFlightIds) \in Nat
      /\ Cardinality(InHand) = IF router.pc \in {"trying", "sent"} THEN 1 ELSE 0
    BY <1>t, LoadCounts
<1>p. /\ Len(pending') \in Nat
      /\ IsFiniteSet(InFlightIds') /\ Cardinality(InFlightIds') \in Nat
      /\ Cardinality(InHand') = IF router'.pc \in {"trying", "sent"} THEN 1 ELSE 0
  <2>1. (/\ Len(pending) \in Nat
         /\ IsFiniteSet(InFlightIds) /\ Cardinality(InFlightIds) \in Nat
         /\ Cardinality(InHand) = IF router.pc \in {"trying", "sent"} THEN 1 ELSE 0)'
      BY <1>t, LoadCounts, PTL
  <2> QED
      BY <2>1
<1>i. Idle.pc = "idle" /\ \A i, st : Saving(i, st).pc = "saving"
    BY DEF Idle, Saving
<1>s. ASSUME mode # "down", mode' = mode, load' <= load, crashes' = crashes PROVE LoadInv'
    BY <1>s, <1>n, <1>p DEF LoadInv, LoadBounded
<1>q. ASSUME pending' = pending, inflight' = inflight, router' = router PROVE load' <= load
  <2>1. InFlightIds' = InFlightIds /\ InHand' = InHand
      BY <1>q DEF InFlightIds, InHand
  <2> QED
      BY <1>q, <1>n, <2>1
<1>r. ASSUME pending' = pending, inflight' = inflight, router' = router, crashes' = crashes,
             mode' # "down" \/ (mode' = mode /\ disk' = disk)
      PROVE  LoadInv'
  <2>1. LoadBounded'
      BY <1>q, <1>r, <1>n, <1>p DEF LoadInv, LoadBounded
  <2> QED
      BY <1>r, <2>1 DEF LoadInv
<1>1. CASE Boot
  <2>1. CASE crashes # 0
      BY <1>1, <2>1 DEF Boot, LoadInv, LoadBounded
  <2>2. CASE crashes = 0
    <3>1. tracked' = {} /\ mode' # "down"
        BY <1>1, <2>2 DEF Boot, LoadInv, Recoverable
    <3>2. PICK s \in Orderings({}) : pending' = s
        BY <1>1, <3>1 DEF Boot
    <3>3. Len(pending') = 0
        BY <3>2, FS_EmptySet DEF Orderings
    <3>4. InFlightIds' = {} /\ InHand' = {}
        BY <1>1 DEF Boot, QueueInv, DownIsEmpty, InHand, InFlightIds, tasks
    <3>5. load' <= MaxPending + 1
        BY <3>3, <3>4, FS_EmptySet
    <3> QED
        BY <3>1, <3>5 DEF LoadInv, LoadBounded
  <2> QED
      BY <2>1, <2>2
<1>2. CASE BootInMemory
    BY <1>2, <1>r DEF BootInMemory, tasks
<1>3. CASE Crash
    BY <1>3, <1>t DEF Crash, LoadInv, LoadBounded
<1>4. CASE SubmitFull
    BY <1>4, <1>q, <1>s DEF SubmitFull, tasks
<1>5. ASSUME NEW p \in Pools, Submit(p) PROVE LoadInv'
  <2>1. InFlightIds' = InFlightIds /\ nextId \in Ids /\ mode' # "down"
      BY <1>5, <1>t DEF Submit, InFlightIds, TypeOK, Ids
  <2>2. Len(pending') = Len(pending) + 1
      BY <1>5, <1>t, <2>1 DEF Submit, TypeOK
  <2>3. Len(pending) + Cardinality(InFlightIds) < MaxPending
      BY <1>5 DEF Submit
  <2>4. load' <= MaxPending + 1
      BY <1>t, <1>n, <1>p, <2>1, <2>2, <2>3
  <2> QED
      BY <2>1, <2>4 DEF LoadInv, LoadBounded
<1>6. CASE NextPending
  <2>1. Len(pending') = Len(pending) - 1 /\ router.pc = "idle" /\ InFlightIds' = InFlightIds
      BY <1>6, <1>t DEF NextPending, TypeOK, InFlightIds
  <2>2. load' <= load
      BY <1>n, <1>p, <2>1
  <2> QED
      BY <1>6, <1>s, <2>2 DEF NextPending
<1>7. CASE EncodeFails
  <2>1. router.id \in Ids /\ router'.pc \notin {"trying", "sent"} /\ pending' = pending
      BY <1>7, <1>t, <1>i DEF EncodeFails, TypeOK
  <2>2. Cardinality(InFlightIds') <= Cardinality(InFlightIds)
      BY <1>7, <1>t, <2>1, EntryCounts DEF EncodeFails, CompleteSection
  <2>3. load' <= load
      BY <1>n, <1>p, <2>1, <2>2
  <2> QED
      BY <1>7, <1>s, <2>3 DEF EncodeFails
<1>8. CASE MarkAssigned
  <2>1. router.id \in Ids /\ router.to \in Workers /\ router.pc = "sent"
        /\ router'.pc = "saving" /\ pending' = pending
      BY <1>8, <1>t, <1>i DEF MarkAssigned, TypeOK
  <2>2. Cardinality(InFlightIds') <= Cardinality(InFlightIds) + 1
      BY <1>8, <1>t, <2>1, EntryCounts DEF MarkAssigned
  <2>3. load' <= load
      BY <1>n, <1>p, <2>1, <2>2
  <2> QED
      BY <1>8, <1>s, <2>3 DEF MarkAssigned
<1>9. CASE ReturnPending
  <2>1. router.id \in Ids /\ router.pc = "trying" /\ router'.pc = "saving"
      BY <1>9, <1>t, <1>i DEF ReturnPending, TypeOK
  <2>2. Len(pending') <= Len(pending) + 1
    <3>1. Len(<<router.id>> \o pending) = Len(pending) + 1
        BY <1>t, <2>1 DEF TypeOK
    <3> QED
        BY <1>9, <1>n, <3>1 DEF ReturnPending
  <2>3. Cardinality(InFlightIds') <= Cardinality(InFlightIds)
      BY <1>9, <1>t, <2>1, EntryCounts DEF ReturnPending
  <2>4. load' <= load
      BY <1>n, <1>p, <2>1, <2>2, <2>3
  <2> QED
      BY <1>9, <1>s, <2>4 DEF ReturnPending
<1>10. CASE RouterSaves
  <2>1. pending' = pending /\ InFlightIds' = InFlightIds /\ router'.pc = "idle"
      BY <1>10, <1>i DEF RouterSaves, memory, InFlightIds
  <2>2. load' <= load
      BY <1>n, <1>p, <2>1
  <2> QED
      BY <1>10, <1>s, <2>2 DEF RouterSaves
<1>11. ASSUME NEW w \in Workers, TryWorker(w) PROVE LoadInv'
  <2>1. pending' = pending /\ InFlightIds' = InFlightIds /\ router.pc = "trying"
      BY <1>11 DEF TryWorker, memory, InFlightIds
  <2>2. load' <= load
      BY <1>n, <1>p, <2>1
  <2> QED
      BY <1>11, <1>s, <2>2 DEF TryWorker
<1>12. ASSUME NEW w \in Workers, WorkerExit(w) PROVE LoadInv'
    BY <1>12, <1>r DEF WorkerExit, memory, tasks
<1>13. ASSUME NEW w \in Workers, RequeueWorker(w) PROVE LoadInv'
  <2> DEFINE ids == {i \in Ids : inflight[i] = w}
  <2>1. PICK s \in Orderings(ids) : pending' = s \o pending
      BY <1>13 DEF RequeueWorker
  <2>2. w # NoWorker /\ ids \in SUBSET InFlightIds
      BY DEF NoWorker, InFlightIds
  <2>3. Cardinality(ids) \in Nat
      BY IdSetsFinite
  <2>4. Len(s) = Cardinality(ids) /\ s \in Seq(Ids)
    <3> HIDE DEF ids
    <3>1. s \in [1..Cardinality(ids) -> ids]
        BY <2>1 DEF Orderings
    <3>2. ids \in SUBSET Ids
        BY DEF ids
    <3> QED
        BY <2>1, <2>3, <3>1, <3>2, OrderingFacts
  <2>5. Len(pending') = Cardinality(ids) + Len(pending)
    <3> HIDE DEF ids
    <3>1. pending \in Seq(Ids)
        BY <1>t DEF TypeOK
    <3>2. Len(s \o pending) = Len(s) + Len(pending)
        BY <2>4, <3>1
    <3> QED
        BY <2>1, <2>4, <3>2
  <2>6. InFlightIds' = InFlightIds \ ids /\ InFlightIds \cap ids = ids
      BY <1>13, <1>t, <2>2 DEF RequeueWorker, InFlightIds, TypeOK
  <2>7. Cardinality(InFlightIds') = Cardinality(InFlightIds) - Cardinality(ids)
      BY <1>n, <2>6, FS_Difference
  <2>8. InHand' = InHand
      BY <1>13 DEF RequeueWorker, InHand
  <2>9. load' <= load
    <3> HIDE DEF ids
    <3> QED
        BY <1>n, <1>p, <2>3, <2>5, <2>7, <2>8
  <2> QED
      BY <1>13, <1>s, <2>9 DEF RequeueWorker
<1>14. ASSUME NEW w \in Workers, Spawn(w) PROVE LoadInv'
    BY <1>14, <1>q, <1>s DEF Spawn, memory, tasks
<1>15. ASSUME NEW w \in Workers, Retire(w) PROVE LoadInv'
    BY <1>15, <1>q, <1>s DEF Retire, memory, tasks
<1>16. ASSUME NEW w \in Workers, NEW i \in Ids, WorkerFinishes(w, i) PROVE LoadInv'
    BY <1>16, <1>r DEF WorkerFinishes, memory, tasks
<1>17. ASSUME NEW w \in Workers, NEW i \in Ids, RequeueSaves(w, i) PROVE LoadInv'
    BY <1>17, <1>q, <1>s DEF RequeueSaves, memory
<1>18. ASSUME NEW m \in reports, Complete(m) PROVE LoadInv'
  <2>1. m.id \in Ids /\ InHand' = InHand /\ pending' = pending
      BY <1>18, <1>t DEF Complete, TypeOK, InHand
  <2>2. Cardinality(InFlightIds') <= Cardinality(InFlightIds)
      BY <1>18, <1>t, <2>1, EntryCounts DEF Complete, CompleteSection
  <2>3. load' <= load
      BY <1>n, <1>p, <2>1, <2>2
  <2> QED
      BY <1>18, <1>s, <2>3 DEF Complete
<1>19. ASSUME NEW m \in reports, LoseReport(m) PROVE LoadInv'
    BY <1>19, <1>r DEF LoseReport, memory, tasks
<1>20. ASSUME NEW i \in Ids, CompleteSaves(i) PROVE LoadInv'
    BY <1>20, <1>q, <1>s DEF CompleteSaves, memory
<1>21. CASE UNCHANGED vars
    BY <1>21, <1>r DEF vars, memory, tasks
<1> QED
    BY <1>1, <1>2, <1>3, <1>4, <1>5, <1>6, <1>7, <1>8, <1>9, <1>10, <1>11, <1>12,
       <1>13, <1>14, <1>15, <1>16, <1>17, <1>18, <1>19, <1>20, <1>21
       DEF Next, RouterStep, WorkerStep

\* Until the first crash the queue holds at most max_pending jobs and the one in
\* the router's hand, whatever requeues and failed dispatches put back in front
\* of it: submit's capacity test is the only way in.
THEOREM LoadBound == Spec => []LoadBounded
<1>1. LoadInv => LoadBounded
    BY DEF LoadInv
<1> QED
    BY <1>1, QueueInit, QueueNext, LoadInit, LoadNext, PTL DEF Spec

=============================================================================
