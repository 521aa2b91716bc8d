--------------------------- MODULE LiveBusProofs ---------------------------
(***************************************************************************)
(* TLAPS proofs about LiveBus, for any publishers, any finite sets of      *)
(* clients, any window and any number of events and pattern updates.       *)
(***************************************************************************)
EXTENDS LiveBus, FiniteSetTheorems, SequenceTheorems, TLAPS

\* What a task's fields hold.
LEMMA TaskFields ==
    ASSUME TypeOK, NEW p \in Publishers
    PROVE  /\ task[p] \in Task /\ task[p].topic \in Topics /\ task[p].guard \in BOOLEAN
           /\ task[p].todo \subseteq Subs \X Nat /\ task[p].held \subseteq Subs \X Nat
           /\ task[p].toEvict \in Seq(Verdict) /\ sent[p] \in Nat
    BY DEF TypeOK, Task

\* A snapshot holds the newest Arc of every registered subscriber.
LEMMA SnapshotFacts ==
    ASSUME TypeOK, RegistryInv
    PROVE  /\ Snapshot \subseteq Subs \X Nat
           /\ \A a \in Snapshot : a[1] \in registry /\ a[2] \in DOMAIN arcs[a[1]]
           /\ \A a, b \in Snapshot : a[1] = b[1] => a = b
<1>1. ASSUME NEW s \in registry
      PROVE  s \in Subs /\ Len(arcs[s]) \in Nat /\ Len(arcs[s]) \in DOMAIN arcs[s]
  <2>1. s \in Subs /\ arcs[s] \in Seq(Entry) /\ arcs[s] # <<>>
      BY DEF TypeOK, RegistryInv
  <2> QED
      BY <2>1
<1> QED
    BY <1>1 DEF Snapshot

\* The invariant holds at the start: nobody is attached.
LEMMA FanoutInit == Init => FanoutInv
<1> SUFFICES ASSUME Init PROVE FanoutInv
    OBVIOUS
<1>1. Idle \in Task /\ Idle.pc = "idle" /\ Idle.todo = {} /\ Idle.held = {}
    BY DEF Idle, Task, Topics
<1>2. TypeOK
    BY <1>1 DEF Init, TypeOK
<1>3. RegistryInv /\ \A p \in Publishers : TaskOk(p)
    BY <1>1 DEF Init, RegistryInv, TaskOk
<1>4. EvictedOnce
  <2>1. {s \in Subs : cause[s] # "none"} = {}
      BY DEF Init
  <2> QED
      BY <2>1, FS_EmptySet DEF Init, EvictedOnce
<1>5. PublisherOrder /\ Numbered
    BY <1>1 DEF Init, PublisherOrder, Numbered
<1> QED
    BY <1>2, <1>3, <1>4, <1>5 DEF FanoutInv

-----------------------------------------------------------------------------
\* A step of publisher p that only takes Arcs off its snapshot.
LEMMA TaskMoves ==
    ASSUME FanoutInv, NEW p \in Publishers, NEW next \in Task,
           task' = [task EXCEPT ![p] = next],
           next.todo \subseteq task[p].todo,
           next.held \subseteq task[p].todo \cup task[p].held,
           next.pc \in {"evict", "notice"} => next.toEvict # <<>>,
           next.pc \in {"idle", "evict", "notice"} => next.todo = {},
           UNCHANGED <<sent, got, queue, client>>, registry' \subseteq registry,
           \A s \in Subs : /\ client[s] = "none" => cause'[s] = "none" /\ arcs'[s] = <<>>
                           /\ s \in registry' => arcs'[s] # <<>>
                           /\ DOMAIN arcs[s] \subseteq DOMAIN arcs'[s]
    PROVE  /\ task' \in [Publishers -> Task] /\ RegistryInv' /\ \A q \in Publishers : TaskOk(q)'
           /\ Numbered' /\ PublisherOrder'
<1>1. /\ task' \in [Publishers -> Task] /\ task'[p] = next
      /\ \A q \in Publishers : q # p => task'[q] = task[q]
    BY DEF FanoutInv, TypeOK
<1>2. \A q \in Publishers : /\ task'[q].todo \subseteq task[q].todo
                            /\ task'[q].held \subseteq task[q].todo \cup task[q].held
    BY <1>1
<1>3. RegistryInv'
  <2>1. \A q \in Publishers : \A a \in task'[q].todo \cup task'[q].held :
            a \in task[q].todo \cup task[q].held /\ a[1] \in Subs /\ a[2] \in DOMAIN arcs[a[1]]
      BY <1>2, TaskFields DEF FanoutInv, RegistryInv
  <2> QED
      BY <2>1 DEF FanoutInv, RegistryInv, TypeOK
<1>4. \A q \in Publishers : TaskOk(q)'
    BY <1>1 DEF FanoutInv, TaskOk
<1>5. Numbered'
    BY <1>2 DEF FanoutInv, Numbered, Unsent
<1>6. PublisherOrder'
    BY DEF FanoutInv, PublisherOrder
<1> QED
    BY <1>1, <1>3, <1>4, <1>5, <1>6

\* The same when nothing but the task changes.
LEMMA TaskOnly ==
    ASSUME FanoutInv, NEW p \in Publishers, NEW next \in Task,
           task' = [task EXCEPT ![p] = next],
           next.todo \subseteq task[p].todo,
           next.held \subseteq task[p].todo \cup task[p].held,
           next.pc \in {"evict", "notice"} => next.toEvict # <<>>,
           next.pc \in {"idle", "evict", "notice"} => next.todo = {},
           UNCHANGED <<registry, arcs, queue, client, wants, sent, evicted, cause, got>>
    PROVE  FanoutInv'
<1>1. \A s \in Subs : /\ client[s] = "none" => cause'[s] = "none" /\ arcs'[s] = <<>>
                      /\ s \in registry' => arcs'[s] # <<>>
                      /\ DOMAIN arcs[s] \subseteq DOMAIN arcs'[s]
    BY DEF FanoutInv, RegistryInv
<1>2. /\ task' \in [Publishers -> Task] /\ RegistryInv' /\ \A q \in Publishers : TaskOk(q)'
      /\ Numbered' /\ PublisherOrder'
    BY <1>1, TaskMoves
<1>3. TypeOK' /\ EvictedOnce'
    BY <1>2 DEF FanoutInv, TypeOK, EvictedOnce
<1> QED
    BY <1>2, <1>3 DEF FanoutInv

\* A verdict joins to_evict, or is ignored under the recursion guard.
LEMMA CondemnType ==
    ASSUME TypeOK, NEW p \in Publishers, NEW s \in Subs, NEW why \in {"lag", "closed"}
    PROVE  Condemn(p, s, why) \in Seq(Verdict)
<1>1. task[p].toEvict \in Seq(Verdict) /\ [sub |-> s, cause |-> why] \in Verdict
    BY TaskFields DEF Verdict
<1> QED
    BY <1>1 DEF Condemn

\* The steps of dispatch that only move its task on.
LEMMA DispatchKeeps ==
    ASSUME FanoutInv, NEW p \in Publishers,
           SendSkips(p) \/ SendFull(p) \/ SendClosed(p) \/ Finish(p) \/ EvictMissing(p)
    PROVE  FanoutInv'
<1>t. /\ TypeOK /\ TaskOk(p) /\ task[p] \in Task /\ task[p].toEvict \in Seq(Verdict)
      /\ task[p].todo \subseteq Subs \X Nat /\ task[p].held \subseteq Subs \X Nat
    BY TaskFields DEF FanoutInv
<1>f. task \in [Publishers -> Task]
    BY <1>t DEF TypeOK
<1>1. CASE SendSkips(p)
  <2>1. PICK a \in task[p].todo :
            /\ task[p].pc = "send" /\ task' = [task EXCEPT ![p].todo = @ \ {a}]
            /\ UNCHANGED <<registry, arcs, queue, client, wants, sent, evicted, cause, got>>
      BY <1>1 DEF SendSkips, busVars
  <2> DEFINE next == [task[p] EXCEPT !.todo = @ \ {a}]
  <2>2. next \in Task /\ next.todo = task[p].todo \ {a} /\ next.held = task[p].held
        /\ next.pc = "send"
      BY <1>t, <2>1 DEF Task
  <2>3. task' = [task EXCEPT ![p] = next]
      BY <1>f, <2>1
  <2> HIDE DEF next
  <2> QED
      BY <2>1, <2>2, <2>3, TaskOnly
<1>2. CASE SendFull(p)
  <2>1. PICK a \in task[p].todo :
            /\ task[p].pc = "send"
            /\ task' = [task EXCEPT ![p].todo = @ \ {a}, ![p].held = {a}, ![p].pc = "grow"]
            /\ UNCHANGED <<registry, arcs, queue, client, wants, sent, evicted, cause, got>>
      BY <1>2 DEF SendFull, TrySend, Counts, busVars
  <2> DEFINE next == [task[p] EXCEPT !.todo = @ \ {a}, !.held = {a}, !.pc = "grow"]
  <2>2. next \in Task /\ next.todo = task[p].todo \ {a} /\ next.held = {a} /\ next.pc = "grow"
      BY <1>t, <2>1 DEF Task
  <2>3. task' = [task EXCEPT ![p] = next]
      BY <1>f, <2>1
  <2> HIDE DEF next
  <2> QED
      BY <2>1, <2>2, <2>3, TaskOnly
<1>3. CASE SendClosed(p)
  <2>1. PICK a \in task[p].todo :
            /\ task[p].pc = "send"
            /\ task' = [task EXCEPT ![p].todo = @ \ {a}, ![p].toEvict = Condemn(p, a[1], "closed")]
            /\ UNCHANGED <<registry, arcs, queue, client, wants, sent, evicted, cause, got>>
      BY <1>3 DEF SendClosed, TrySend, busVars
  <2> DEFINE condemned == Condemn(p, a[1], "closed")
  <2>2. condemned \in Seq(Verdict)
      BY <1>t, CondemnType
  <2> HIDE DEF condemned
  <2> DEFINE next == [task[p] EXCEPT !.todo = @ \ {a}, !.toEvict = condemned]
  <2>3. next \in Task /\ next.todo = task[p].todo \ {a} /\ next.held = task[p].held
        /\ next.pc = "send"
      BY <1>t, <2>1, <2>2 DEF Task
  <2>4. task' = [task EXCEPT ![p] = next]
      BY <1>f, <2>1 DEF condemned
  <2> HIDE DEF next
  <2> QED
      BY <2>1, <2>3, <2>4, TaskOnly
<1>4. CASE Finish(p)
  <2> DEFINE next == IF task[p].toEvict = <<>> THEN Idle ELSE [task[p] EXCEPT !.pc = "evict"]
  <2>1. /\ task[p].todo = {} /\ task' = [task EXCEPT ![p] = next]
        /\ UNCHANGED <<registry, arcs, queue, client, wants, sent, evicted, cause, got>>
      BY <1>4, <1>f DEF Finish, busVars
  <2>2. /\ next \in Task /\ next.todo = {} /\ next.held \subseteq task[p].held
        /\ next.pc \in {"evict", "notice"} => next.toEvict # <<>>
    <3>1. Idle \in Task /\ Idle.pc = "idle" /\ Idle.todo = {} /\ Idle.held = {}
        BY DEF Idle, Task, Topics
    <3>2. LET n == [task[p] EXCEPT !.pc = "evict"]
          IN  n \in Task /\ n.todo = {} /\ n.held = task[p].held /\ n.toEvict = task[p].toEvict
        BY <1>t, <2>1 DEF Task
    <3> QED
        BY <3>1, <3>2
  <2> HIDE DEF next
  <2> QED
      BY <2>1, <2>2, TaskOnly
<1>5. CASE EvictMissing(p)
  <2>1. /\ task[p].pc = "evict"
        /\ task' = [task EXCEPT ![p].pc = "send", ![p].toEvict = Tail(@)]
        /\ UNCHANGED <<registry, arcs, queue, client, wants, sent, evicted, cause, got>>
      BY <1>5 DEF EvictMissing, busVars
  <2>2. Tail(task[p].toEvict) \in Seq(Verdict)
      BY <1>t, <2>1 DEF TaskOk
  <2> DEFINE next == [task[p] EXCEPT !.pc = "send", !.toEvict = Tail(@)]
  <2>3. next \in Task /\ next.todo = task[p].todo /\ next.held = task[p].held /\ next.pc = "send"
      BY <1>t, <2>1, <2>2 DEF Task
  <2>4. task' = [task EXCEPT ![p] = next]
      BY <1>f, <2>1
  <2> HIDE DEF next
  <2> QED
      BY <2>1, <2>3, <2>4, TaskOnly
<1> QED
    BY <1>1, <1>2, <1>3, <1>4, <1>5

-----------------------------------------------------------------------------
\* A lag counter is set: every subscriber keeps its Arcs.
LEMMA LagSet ==
    ASSUME TypeOK, NEW s \in Subs, NEW v, NEW lag \in Nat,
           arcs' = [arcs EXCEPT ![s][v].lag = lag]
    PROVE  /\ arcs' \in [Subs -> Seq(Entry)]
           /\ \A t \in Subs : DOMAIN arcs'[t] = DOMAIN arcs[t] /\ (arcs'[t] = <<>> <=> arcs[t] = <<>>)
<1>1. arcs \in [Subs -> Seq(Entry)] /\ arcs[s] \in Seq(Entry)
    BY DEF TypeOK
<1>2. PICK q : q = [arcs[s] EXCEPT ![v].lag = lag]
    OBVIOUS
<1>3. Len(arcs[s]) \in Nat /\ DOMAIN arcs[s] = 1 .. Len(arcs[s])
    BY <1>1
<1>4. ASSUME NEW i \in DOMAIN arcs[s] PROVE q[i] \in Entry
  <2>1. arcs[s][i] \in Entry
      BY <1>1
  <2>2. [arcs[s][i] EXCEPT !.lag = lag] \in Entry
      BY <2>1 DEF Entry
  <2> QED
      BY <1>2, <2>1, <2>2
<1>5. DOMAIN q = 1 .. Len(arcs[s]) /\ q = [i \in 1 .. Len(arcs[s]) |-> q[i]]
    BY <1>2, <1>3
<1>6. q \in Seq(Entry) /\ Len(q) = Len(arcs[s])
  <2>1. q \in [1 .. Len(arcs[s]) -> Entry]
      BY <1>3, <1>4, <1>5
  <2>2. q \in Seq(Entry)
      BY <1>3, <2>1, SeqDef
  <2> QED
      BY <1>3, <1>5, <2>2
<1>7. arcs' = [arcs EXCEPT ![s] = q]
    BY <1>1, <1>2
<1>8. q = <<>> <=> arcs[s] = <<>>
    BY <1>1, <1>6
<1> QED
    BY <1>1, <1>3, <1>5, <1>6, <1>7, <1>8

\* The second half of a send: the counter of the Arc just sent to.
LEMMA CountKeeps ==
    ASSUME FanoutInv, NEW p \in Publishers, LagReset(p) \/ LagGrows(p)
    PROVE  FanoutInv'
<1>t. /\ TypeOK /\ RegistryInv /\ TaskOk(p) /\ task[p] \in Task
      /\ task[p].toEvict \in Seq(Verdict)
      /\ task[p].todo \subseteq Subs \X Nat /\ task[p].held \subseteq Subs \X Nat
    BY TaskFields DEF FanoutInv
<1>f. task \in [Publishers -> Task]
    BY <1>t DEF TypeOK
<1>1. ASSUME NEW s \in Subs, NEW v, NEW lag \in Nat, NEW toEvict \in Seq(Verdict),
             task[p].pc \in {"reset", "grow"},
             arcs' = [arcs EXCEPT ![s][v].lag = lag],
             task' = [task EXCEPT ![p].pc = "send", ![p].held = {}, ![p].toEvict = toEvict],
             UNCHANGED <<registry, queue, client, wants, sent, evicted, cause, got>>
      PROVE  FanoutInv'
  <2>1. /\ arcs' \in [Subs -> Seq(Entry)]
        /\ \A t \in Subs : DOMAIN arcs'[t] = DOMAIN arcs[t] /\ (arcs'[t] = <<>> <=> arcs[t] = <<>>)
      BY <1>1, <1>t, LagSet
  <2> DEFINE next == [task[p] EXCEPT !.pc = "send", !.held = {}, !.toEvict = toEvict]
  <2>2. next \in Task /\ next.todo = task[p].todo /\ next.held = {} /\ next.pc = "send"
      BY <1>t, <1>1 DEF Task
  <2>3. task' = [task EXCEPT ![p] = next]
      BY <1>f, <1>1
  <2> HIDE DEF next
  <2>4. \A t \in Subs : /\ client[t] = "none" => cause'[t] = "none" /\ arcs'[t] = <<>>
                        /\ t \in registry' => arcs'[t] # <<>>
                        /\ DOMAIN arcs[t] \subseteq DOMAIN arcs'[t]
      BY <1>t, <1>1, <2>1 DEF RegistryInv
  <2>5. /\ task' \in [Publishers -> Task] /\ RegistryInv' /\ \A q \in Publishers : TaskOk(q)'
        /\ Numbered' /\ PublisherOrder'
      BY <1>1, <2>2, <2>3, <2>4, TaskMoves
  <2>6. TypeOK' /\ EvictedOnce'
      BY <1>1, <2>1, <2>5 DEF FanoutInv, TypeOK, EvictedOnce
  <2> QED
      BY <2>5, <2>6 DEF FanoutInv
<1>2. ASSUME NEW a \in task[p].held
      PROVE  a[1] \in Subs /\ ArcOf(a).lag \in Nat
  <2>1. a[1] \in Subs /\ a[2] \in DOMAIN arcs[a[1]]
      BY <1>t DEF RegistryInv
  <2>2. arcs[a[1]] \in Seq(Entry)
      BY <1>t, <2>1 DEF TypeOK
  <2>3. ArcOf(a) \in Entry
      BY <2>1, <2>2 DEF ArcOf
  <2> QED
      BY <2>1, <2>3 DEF Entry
<1>3. CASE LagReset(p)
  <2>1. PICK a \in task[p].held :
            /\ task[p].pc = "reset" /\ arcs' = [arcs EXCEPT ![a[1]][a[2]].lag = 0]
            /\ task' = [task EXCEPT ![p].pc = "send", ![p].held = {}]
            /\ UNCHANGED <<registry, queue, client, wants, sent, evicted, cause, got>>
      BY <1>3 DEF LagReset, busVars
  <2>2. task' = [task EXCEPT ![p].pc = "send", ![p].held = {}, ![p].toEvict = task[p].toEvict]
    <3>1. [task[p] EXCEPT !.pc = "send", !.held = {}]
            = [task[p] EXCEPT !.pc = "send", !.held = {}, !.toEvict = task[p].toEvict]
        BY <1>t DEF Task
    <3> QED
        BY <1>f, <2>1, <3>1
  <2> QED
      BY <1>1, <1>2, <1>t, <2>1, <2>2
<1>4. CASE LagGrows(p)
  <2>1. PICK a \in task[p].held :
            /\ task[p].pc = "grow" /\ arcs' = [arcs EXCEPT ![a[1]][a[2]].lag = ArcOf(a).lag + 1]
            /\ task' = [task EXCEPT ![p].pc = "send", ![p].held = {},
                          ![p].toEvict = IF ArcOf(a).lag + 1 >= Window
                                         THEN Condemn(p, a[1], "lag") ELSE @]
            /\ UNCHANGED <<registry, queue, client, wants, sent, evicted, cause, got>>
      BY <1>4 DEF LagGrows, busVars
  <2> DEFINE toEvict == IF ArcOf(a).lag + 1 >= Window THEN Condemn(p, a[1], "lag")
                        ELSE task[p].toEvict
  <2>2. toEvict \in Seq(Verdict) /\ ArcOf(a).lag + 1 \in Nat /\ a[1] \in Subs
      BY <1>2, <1>t, CondemnType
  <2>3. task' = [task EXCEPT ![p].pc = "send", ![p].held = {}, ![p].toEvict = toEvict]
    <3>1. [task[p] EXCEPT !.pc = "send", !.held = {}, !.toEvict =
                IF ArcOf(a).lag + 1 >= Window THEN Condemn(p, a[1], "lag") ELSE @]
            = [task[p] EXCEPT !.pc = "send", !.held = {}, !.toEvict = toEvict]
        BY <1>t DEF Task
    <3> QED
        BY <1>f, <2>1, <3>1
  <2> HIDE DEF toEvict
  <2> QED
      BY <1>1, <2>1, <2>2, <2>3
<1> QED
    BY <1>3, <1>4

-----------------------------------------------------------------------------
\* Removing a registered subscriber and counting it: it was not counted before.
LEMMA EvictKeeps ==
    ASSUME FanoutInv, NEW p \in Publishers, Evict(p)
    PROVE  FanoutInv'
<1>t. /\ TypeOK /\ RegistryInv /\ TaskOk(p) /\ EvictedOnce /\ task[p] \in Task
      /\ task[p].toEvict \in Seq(Verdict)
    BY TaskFields DEF FanoutInv
<1>f. task \in [Publishers -> Task] /\ cause \in [Subs -> {"none", "lag", "closed"}]
    BY <1>t DEF TypeOK
<1>1. PICK v : v = Head(task[p].toEvict)
    OBVIOUS
<1>2. /\ task[p].pc = "evict" /\ v.sub \in registry /\ registry' = registry \ {v.sub}
      /\ evicted' = evicted + 1 /\ cause' = [cause EXCEPT ![v.sub] = v.cause]
      /\ task' = [task EXCEPT ![p].pc = "notice"]
      /\ UNCHANGED <<arcs, queue, client, wants, sent, got>>
    BY <1>1 DEF Evict, busVars
<1>3. v.sub \in Subs /\ v.cause \in {"lag", "closed"}
  <2>1. v \in Verdict
      BY <1>1, <1>2, <1>t DEF TaskOk
  <2> QED
      BY <2>1 DEF Verdict
<1>4. /\ cause' \in [Subs -> {"none", "lag", "closed"}] /\ cause'[v.sub] # "none"
      /\ \A s \in Subs : s # v.sub => cause'[s] = cause[s]
    BY <1>2, <1>3, <1>f
<1>5. cause[v.sub] = "none"
    BY <1>2, <1>t DEF EvictedOnce
<1> DEFINE next == [task[p] EXCEPT !.pc = "notice"]
<1>6. /\ next \in Task /\ next.todo = {} /\ task[p].todo = {} /\ next.held = task[p].held
      /\ next.pc = "notice" /\ next.toEvict # <<>>
    BY <1>2, <1>t DEF Task, TaskOk
<1>7. task' = [task EXCEPT ![p] = next]
    BY <1>2, <1>f
<1> HIDE DEF next
<1>8. \A s \in Subs : /\ client[s] = "none" => cause'[s] = "none" /\ arcs'[s] = <<>>
                      /\ s \in registry' => arcs'[s] # <<>>
                      /\ DOMAIN arcs[s] \subseteq DOMAIN arcs'[s]
    BY <1>2, <1>4, <1>t DEF RegistryInv
<1>9. /\ task' \in [Publishers -> Task] /\ RegistryInv' /\ \A q \in Publishers : TaskOk(q)'
      /\ Numbered' /\ PublisherOrder'
    BY <1>2, <1>6, <1>7, <1>8, TaskMoves
<1>10. TypeOK'
    BY <1>2, <1>4, <1>9, <1>t DEF TypeOK
<1>11. EvictedOnce'
  <2> DEFINE S == {s \in Subs : cause[s] # "none"}
             T == {s \in Subs : cause'[s] # "none"}
  <2>1. IsFiniteSet(S)
    <3>1. IsFiniteSet(Subs)
        BY LiveBusAssumption, FS_Union DEF Subs
    <3> QED
        BY <3>1, FS_Subset
  <2>2. T = S \cup {v.sub} /\ v.sub \notin S
      BY <1>3, <1>4, <1>5
  <2>3. Cardinality(T) = Cardinality(S) + 1
      BY <2>1, <2>2, FS_AddElement
  <2>4. \A s \in registry' : cause'[s] = "none"
      BY <1>2, <1>4, <1>t DEF EvictedOnce, TypeOK
  <2> QED
      BY <1>2, <2>3, <2>4, <1>t DEF EvictedOnce
<1> QED
    BY <1>9, <1>10, <1>11 DEF FanoutInv

\* A new event, or a notice, gets the next number and a fresh snapshot.
LEMMA OriginateKeeps ==
    ASSUME FanoutInv, NEW p \in Publishers, Publish(p) \/ Notice(p)
    PROVE  FanoutInv'
<1>t. /\ TypeOK /\ RegistryInv /\ TaskOk(p) /\ Numbered /\ task[p] \in Task
      /\ task[p].toEvict \in Seq(Verdict)
    BY TaskFields DEF FanoutInv
<1>f. task \in [Publishers -> Task] /\ sent \in [Publishers -> Nat]
    BY <1>t DEF TypeOK
<1>s. /\ Snapshot \subseteq Subs \X Nat
      /\ \A a \in Snapshot : a[1] \in registry /\ a[2] \in DOMAIN arcs[a[1]]
      /\ \A a, b \in Snapshot : a[1] = b[1] => a = b
    BY <1>t, SnapshotFacts
<1>1. /\ sent' = [sent EXCEPT ![p] = @ + 1]
      /\ UNCHANGED <<registry, arcs, queue, client, wants, evicted, cause, got>>
    BY DEF Publish, Notice, busVars
<1>2. PICK next \in Task : /\ task' = [task EXCEPT ![p] = next] /\ next.todo = Snapshot
                           /\ next.held = {} /\ next.pc = "send"
  <2>1. CASE Publish(p)
    <3> DEFINE n == [Idle EXCEPT !.pc = "send", !.todo = Snapshot]
    <3>1. Idle \in Task /\ Idle.held = {}
        BY DEF Idle, Task, Topics
    <3>2. n \in Task /\ n.todo = Snapshot /\ n.held = {} /\ n.pc = "send"
        BY <1>s, <3>1 DEF Task
    <3>3. task' = [task EXCEPT ![p] = n]
        BY <2>1 DEF Publish
    <3> HIDE DEF n
    <3> QED
        BY <3>2, <3>3
  <2>2. CASE Notice(p)
    <3> DEFINE n == [pc |-> "send", topic |-> "degraded", guard |-> TRUE,
                     todo |-> Snapshot, held |-> {}, toEvict |-> Tail(task[p].toEvict)]
    <3>1. Tail(task[p].toEvict) \in Seq(Verdict)
        BY <2>2, <1>t DEF Notice, TaskOk
    <3>2. n \in Task /\ n.todo = Snapshot /\ n.held = {} /\ n.pc = "send"
        BY <1>s, <3>1 DEF Task, Topics
    <3>3. task' = [task EXCEPT ![p] = n]
        BY <2>2 DEF Notice
    <3> HIDE DEF n
    <3> QED
        BY <3>2, <3>3
  <2> QED
      BY <2>1, <2>2
<1>3. /\ task' \in [Publishers -> Task] /\ task'[p] = next
      /\ \A q \in Publishers : q # p => task'[q] = task[q]
      /\ sent' \in [Publishers -> Nat] /\ sent'[p] = sent[p] + 1
      /\ \A q \in Publishers : q # p => sent'[q] = sent[q]
    BY <1>1, <1>2, <1>f
<1>4. TypeOK'
    BY <1>1, <1>3, <1>t DEF TypeOK
<1>5. RegistryInv'
    BY <1>1, <1>2, <1>3, <1>s, <1>t DEF RegistryInv
<1>6. \A q \in Publishers : TaskOk(q)'
    BY <1>2, <1>3, <1>s DEF FanoutInv, TaskOk
<1>7. EvictedOnce' /\ PublisherOrder'
    BY <1>1 DEF FanoutInv, EvictedOnce, PublisherOrder
<1>8. Numbered'
  <2>1. \A s \in Subs : \A q \in Publishers : got[s][q] \in Nat /\ got[s][q] <= sent[q]
      BY <1>t DEF Numbered, TypeOK
  <2>2. ASSUME NEW s \in Subs, NEW i \in DOMAIN queue[s]
        PROVE  /\ queue[s][i].from \in Publishers /\ queue[s][i].n \in Nat
               /\ queue[s][i].n <= sent[queue[s][i].from]
    <3>1. queue[s] \in Seq(Event)
        BY <1>t DEF TypeOK
    <3>2. queue[s][i] \in Event
        BY <3>1
    <3> QED
        BY <3>2, <1>t DEF Event, Numbered
  <2>3. \A s \in Subs : \A q \in Publishers : got'[s][q] <= sent'[q]
      BY <1>1, <1>3, <1>f, <2>1
  <2>4. \A s \in Subs : \A i \in DOMAIN queue'[s] : queue'[s][i].n <= sent'[queue'[s][i].from]
      BY <1>1, <1>3, <1>f, <2>2
  <2>5. ASSUME NEW q \in Publishers, NEW a \in task'[q].todo PROVE Unsent(q, a[1])'
    <3>1. CASE q = p
      <4>1. a[1] \in Subs
          BY <1>2, <1>3, <1>s, <3>1
      <4> QED
          BY <1>1, <1>3, <1>f, <2>1, <2>2, <3>1, <4>1 DEF Unsent
    <3>2. CASE q # p
      <4>1. Unsent(q, a[1]) /\ sent'[q] = sent[q]
          BY <1>3, <1>t, <3>2 DEF Numbered
      <4> QED
          BY <1>1, <4>1 DEF Unsent
    <3> QED
        BY <3>1, <3>2
  <2> QED
      BY <2>3, <2>4, <2>5 DEF Numbered
<1> QED
    BY <1>4, <1>5, <1>6, <1>7, <1>8 DEF FanoutInv

\* An event joins the queue of a subscriber that has not had it, and its Arc
\* leaves the snapshot: the others on it are of other subscribers.
LEMMA SendOkKeeps ==
    ASSUME FanoutInv, NEW p \in Publishers, SendOk(p)
    PROVE  FanoutInv'
<1>t. /\ TypeOK /\ RegistryInv /\ TaskOk(p) /\ Numbered /\ PublisherOrder /\ task[p] \in Task
      /\ task[p].topic \in Topics /\ task[p].todo \subseteq Subs \X Nat /\ sent[p] \in Nat
    BY TaskFields DEF FanoutInv
<1>f. task \in [Publishers -> Task] /\ queue \in [Subs -> Seq(Event)]
    BY <1>t DEF TypeOK
<1>1. PICK a \in task[p].todo :
        /\ task[p].pc = "send"
        /\ queue' = [queue EXCEPT ![a[1]] =
                       Append(@, [from |-> p, n |-> sent[p], topic |-> task[p].topic])]
        /\ task' = [task EXCEPT ![p].todo = @ \ {a}, ![p].held = {a}, ![p].pc = "reset"]
        /\ UNCHANGED <<registry, arcs, client, wants, sent, evicted, cause, got>>
    BY DEF SendOk, TrySend, Counts, busVars
<1>2. PICK s \in Subs : s = a[1]
    BY <1>t
<1>3. PICK e \in Event : /\ e = [from |-> p, n |-> sent[p], topic |-> task[p].topic]
                         /\ e.from = p /\ e.n = sent[p]
  <2> DEFINE r == [from |-> p, n |-> sent[p], topic |-> task[p].topic]
  <2>1. r \in Event /\ r.from = p /\ r.n = sent[p]
      BY <1>t DEF Event
  <2> QED
      BY <2>1
<1> DEFINE next == [task[p] EXCEPT !.todo = @ \ {a}, !.held = {a}, !.pc = "reset"]
<1>4. next \in Task /\ next.todo = task[p].todo \ {a} /\ next.held = {a} /\ next.pc = "reset"
    BY <1>t, <1>1 DEF Task
<1>5. task' = [task EXCEPT ![p] = next]
    BY <1>f, <1>1
<1> HIDE DEF next
<1>6. /\ task' \in [Publishers -> Task] /\ task'[p] = next
      /\ \A q \in Publishers : q # p => task'[q] = task[q]
    BY <1>f, <1>4, <1>5
<1>7. /\ queue[s] \in Seq(Event) /\ Len(queue[s]) \in Nat /\ DOMAIN queue[s] = 1 .. Len(queue[s])
      /\ queue'[s] = Append(queue[s], e) /\ queue' \in [Subs -> Seq(Event)]
      /\ \A t \in Subs : t # s => queue'[t] = queue[t]
    BY <1>1, <1>2, <1>3, <1>f
<1>8. /\ DOMAIN queue'[s] = 1 .. Len(queue[s]) + 1 /\ queue'[s][Len(queue[s]) + 1] = e
      /\ \A i \in 1 .. Len(queue[s]) : queue'[s][i] = queue[s][i]
    BY <1>7
<1>9. TypeOK'
    BY <1>1, <1>6, <1>7, <1>t DEF TypeOK
<1>10. RegistryInv'
    BY <1>1, <1>4, <1>6, <1>t DEF RegistryInv
<1>11. \A q \in Publishers : TaskOk(q)'
    BY <1>4, <1>6 DEF FanoutInv, TaskOk
<1>12. EvictedOnce'
    BY <1>1 DEF FanoutInv, EvictedOnce
<1>13. Unsent(p, s)
    BY <1>2, <1>t DEF Numbered
<1>14. PublisherOrder'
  <2> SUFFICES ASSUME NEW t \in Subs, NEW i \in DOMAIN queue'[t]
               PROVE  /\ queue'[t][i].n > got'[t][queue'[t][i].from]
                      /\ \A j \in 1 .. i - 1 : queue'[t][j].from = queue'[t][i].from
                            => queue'[t][j].n < queue'[t][i].n
      BY DEF PublisherOrder
  <2>1. CASE t # s
      BY <1>1, <1>7, <1>t, <2>1 DEF PublisherOrder
  <2>2. CASE t = s /\ i \in 1 .. Len(queue[s])
    <3>0. \A j \in 1 .. i - 1 : j \in 1 .. Len(queue[s])
        BY <1>7, <2>2
    <3>1. queue'[t][i] = queue[s][i] /\ \A j \in 1 .. i - 1 : queue'[t][j] = queue[s][j]
        BY <1>8, <2>2, <3>0
    <3> QED
        BY <1>1, <1>7, <1>t, <2>2, <3>1 DEF PublisherOrder
  <2>3. CASE t = s /\ i = Len(queue[s]) + 1
    <3>1. queue'[t][i] = e /\ \A j \in 1 .. i - 1 : j \in DOMAIN queue[s] /\ queue'[t][j] = queue[s][j]
        BY <1>7, <1>8, <2>3
    <3>2. got[s][p] \in Nat
        BY <1>t DEF TypeOK
    <3> QED
        BY <1>1, <1>3, <1>13, <1>t, <2>3, <3>1, <3>2 DEF Unsent
  <2> QED
      BY <1>7, <1>8, <2>1, <2>2, <2>3
<1>15. Numbered'
  <2>1. \A t \in Subs : \A q \in Publishers : got'[t][q] <= sent'[q]
      BY <1>1, <1>t DEF Numbered
  <2>2. ASSUME NEW t \in Subs, NEW i \in DOMAIN queue'[t]
        PROVE  queue'[t][i].n <= sent'[queue'[t][i].from]
    <3>1. CASE t = s /\ i = Len(queue[s]) + 1
        BY <1>1, <1>3, <1>8, <1>t, <3>1
    <3>2. CASE ~(t = s /\ i = Len(queue[s]) + 1)
      <4>1. i \in DOMAIN queue[t] /\ queue'[t][i] = queue[t][i]
          BY <1>7, <1>8, <3>2
      <4> QED
          BY <1>1, <1>t, <4>1 DEF Numbered
    <3> QED
        BY <3>1, <3>2
  <2>3. ASSUME NEW q \in Publishers, NEW b \in task'[q].todo PROVE Unsent(q, b[1])'
    <3>1. b \in task[q].todo /\ b[1] \in Subs /\ Unsent(q, b[1]) /\ (q = p => b[1] # s)
        BY <1>2, <1>4, <1>6, <1>t, TaskFields DEF Numbered, TaskOk
    <3>2. CASE b[1] # s
      <4>1. queue'[b[1]] = queue[b[1]]
          BY <1>7, <3>1, <3>2
      <4> QED
          BY <1>1, <3>1, <4>1 DEF Unsent
    <3>3. CASE b[1] = s
      <4>1. Unsent(q, s) /\ q # p
          BY <3>1, <3>3
      <4>2. got'[s][q] < sent'[q]
          BY <1>1, <4>1 DEF Unsent
      <4>3. ASSUME NEW i \in DOMAIN queue'[s], queue'[s][i].from = q
            PROVE  queue'[s][i].n < sent'[q]
          BY <1>1, <1>3, <1>7, <1>8, <4>1, <4>3 DEF Unsent
      <4> QED
          BY <3>3, <4>2, <4>3 DEF Unsent
    <3> QED
        BY <3>2, <3>3
  <2> QED
      BY <2>1, <2>2, <2>3 DEF Numbered
<1> QED
    BY <1>9, <1>10, <1>11, <1>12, <1>14, <1>15 DEF FanoutInv

-----------------------------------------------------------------------------
\* The steps of a client that leave its queue alone.
LEMMA ClientMoves ==
    ASSUME FanoutInv, NEW s \in Subs,
           arcs' \in [Subs -> Seq(Entry)], registry' \subseteq registry \cup {s},
           client' \in [Subs -> {"none", "open", "leaving", "gone"}],
           wants' \in [Subs -> SUBSET Topics],
           \A t \in Subs : t # s => arcs'[t] = arcs[t] /\ client'[t] = client[t],
           client'[s] # "none", s \in registry' => arcs'[s] # <<>> /\ cause[s] = "none",
           DOMAIN arcs[s] \subseteq DOMAIN arcs'[s],
           UNCHANGED <<task, sent, evicted, cause, queue, got>>
    PROVE  FanoutInv'
<1>1. TypeOK'
    BY DEF FanoutInv, TypeOK
<1>2. RegistryInv'
  <2>1. \A q \in Publishers : \A a \in task[q].todo \cup task[q].held :
            a[1] \in Subs /\ a[2] \in DOMAIN arcs[a[1]]
      BY TaskFields DEF FanoutInv, RegistryInv
  <2> QED
      BY <2>1 DEF FanoutInv, RegistryInv, TypeOK
<1>3. \A p \in Publishers : TaskOk(p)'
    BY DEF FanoutInv, TaskOk
<1>4. EvictedOnce'
    BY DEF FanoutInv, EvictedOnce
<1>5. PublisherOrder' /\ Numbered'
    BY DEF FanoutInv, PublisherOrder, Numbered, Unsent
<1> QED
    BY <1>1, <1>2, <1>3, <1>4, <1>5 DEF FanoutInv

\* A client attaches, changes its patterns, leaves or is unregistered; only one
\* that never attached can enter the registry.
LEMMA ClientKeeps ==
    ASSUME FanoutInv, NEW s \in Subs,
           \/ RegisterWs(s) \/ RegisterSse(s) \/ Subscribe(s) \/ Unsubscribe(s)
           \/ CloseSeen(s) \/ ClientLeaves(s) \/ Unregister(s)
    PROVE  FanoutInv'
<1>t. /\ TypeOK /\ RegistryInv /\ arcs \in [Subs -> Seq(Entry)] /\ registry \subseteq Subs
      /\ client \in [Subs -> {"none", "open", "leaving", "gone"}]
      /\ wants \in [Subs -> SUBSET Topics]
    BY DEF FanoutInv, TypeOK
<1>c. s \in registry => arcs[s] # <<>> /\ cause[s] = "none"
    BY DEF FanoutInv, RegistryInv, EvictedOnce
<1>1. ASSUME NEW pats \in SUBSET Topics, Attach(s, pats) PROVE FanoutInv'
  <2>1. /\ client[s] = "none" /\ client' = [client EXCEPT ![s] = "open"]
        /\ registry' = registry \cup {s} /\ arcs' = [arcs EXCEPT ![s] = <<[pats |-> pats, lag |-> 0]>>]
        /\ wants' = wants /\ UNCHANGED <<task, sent, evicted, cause, queue, got>>
      BY <1>1 DEF Attach, clientVars
  <2>2. cause[s] = "none" /\ arcs[s] = <<>>
      BY <2>1, <1>t DEF RegistryInv
  <2>3. [pats |-> pats, lag |-> 0] \in Entry
      BY DEF Entry
  <2>4. <<[pats |-> pats, lag |-> 0]>> \in Seq(Entry) /\ <<[pats |-> pats, lag |-> 0]>> # <<>>
      BY <2>3
  <2>5. arcs' \in [Subs -> Seq(Entry)] /\ arcs'[s] # <<>> /\ DOMAIN arcs[s] \subseteq DOMAIN arcs'[s]
        /\ \A t \in Subs : t # s => arcs'[t] = arcs[t]
      BY <2>1, <2>2, <2>4, <1>t
  <2>6. client' \in [Subs -> {"none", "open", "leaving", "gone"}] /\ client'[s] = "open"
        /\ \A t \in Subs : t # s => client'[t] = client[t]
      BY <2>1, <1>t
  <2> QED
      BY <2>1, <2>2, <2>5, <2>6, <1>t, ClientMoves
<1>2. ASSUME NEW pats \in SUBSET Topics, Resubscribe(s, pats) PROVE FanoutInv'
  <2>1. /\ client[s] = "open" /\ wants' = [wants EXCEPT ![s] = pats] /\ UpdatePatterns(s, pats)
        /\ registry' = registry /\ client' = client
        /\ UNCHANGED <<task, sent, evicted, cause, queue, got>>
      BY <1>2 DEF Resubscribe, clientVars
  <2>2. arcs' \in [Subs -> Seq(Entry)] /\ (s \in registry => arcs'[s] # <<>>)
        /\ DOMAIN arcs[s] \subseteq DOMAIN arcs'[s]
        /\ \A t \in Subs : t # s => arcs'[t] = arcs[t]
    <3>1. CASE s \in registry
      <4>1. arcs[s] \in Seq(Entry) /\ arcs[s] # <<>>
          BY <1>c, <1>t, <3>1
      <4>2. arcs[s][Len(arcs[s])] \in Entry
          BY <4>1
      <4>3. PICK e \in Entry : e = [pats |-> pats, lag |-> arcs[s][Len(arcs[s])].lag]
          BY <4>2 DEF Entry
      <4>4. arcs' = [arcs EXCEPT ![s] = Append(arcs[s], e)]
          BY <2>1, <3>1, <4>3, <1>t DEF UpdatePatterns
      <4>5. Append(arcs[s], e) \in Seq(Entry) /\ Append(arcs[s], e) # <<>>
            /\ DOMAIN arcs[s] \subseteq DOMAIN Append(arcs[s], e)
          BY <4>1
      <4> QED
          BY <4>4, <4>5, <1>t
    <3>2. CASE s \notin registry
        BY <2>1, <3>2, <1>t DEF UpdatePatterns
    <3> QED
        BY <3>1, <3>2
  <2>3. wants' \in [Subs -> SUBSET Topics]
      BY <2>1, <1>t
  <2> QED
      BY <2>1, <2>2, <2>3, <1>c, <1>t, ClientMoves
<1>3. ASSUME NEW where \in {"leaving", "gone"}, client' = [client EXCEPT ![s] = where],
             registry' \subseteq registry, arcs' = arcs, wants' = wants,
             UNCHANGED <<task, sent, evicted, cause, queue, got>>
      PROVE  FanoutInv'
  <2>1. client' \in [Subs -> {"none", "open", "leaving", "gone"}] /\ client'[s] # "none"
        /\ \A t \in Subs : t # s => client'[t] = client[t]
      BY <1>3, <1>t
  <2> QED
      BY <1>3, <2>1, <1>c, <1>t, ClientMoves
<1>4. CASE RegisterWs(s) \/ RegisterSse(s)
    BY <1>1, <1>4, LiveBusAssumption DEF RegisterWs, RegisterSse
<1>5. CASE Subscribe(s) \/ Unsubscribe(s)
  <2>1. \A t \in Topics : wants[s] \cup {t} \in SUBSET Topics /\ wants[s] \ {t} \in SUBSET Topics
      BY <1>t
  <2> QED
      BY <1>2, <1>5, <2>1 DEF Subscribe, Unsubscribe
<1>6. CASE CloseSeen(s) \/ ClientLeaves(s)
  <2> DEFINE where == IF s \in WsSubs THEN "leaving" ELSE "gone"
  <2>1. client' = [client EXCEPT ![s] = where] /\ registry' = registry /\ arcs' = arcs
        /\ wants' = wants /\ UNCHANGED <<task, sent, evicted, cause, queue, got>>
      BY <1>6 DEF CloseSeen, ClientLeaves, Ends, clientVars
  <2>2. where \in {"leaving", "gone"}
      OBVIOUS
  <2> HIDE DEF where
  <2> QED
      BY <1>3, <2>1, <2>2
<1>7. CASE Unregister(s)
    BY <1>3, <1>7 DEF Unregister, clientVars
<1> QED
    BY <1>4, <1>5, <1>6, <1>7

\* A client reads the front of its queue: what is left is newer.
LEMMA ConsumeKeeps ==
    ASSUME FanoutInv, NEW s \in Subs, Consume(s)
    PROVE  FanoutInv'
<1>t. /\ TypeOK /\ Numbered /\ PublisherOrder /\ queue \in [Subs -> Seq(Event)]
      /\ got \in [Subs -> [Publishers -> Nat]] /\ queue[s] \in Seq(Event)
      /\ got[s] \in [Publishers -> Nat]
    BY DEF FanoutInv, TypeOK
<1>1. /\ queue[s] # <<>> /\ queue' = [queue EXCEPT ![s] = Tail(@)]
      /\ got' = [got EXCEPT ![s][Head(queue[s]).from] = Head(queue[s]).n]
      /\ UNCHANGED <<registry, arcs, client, wants, task, sent, evicted, cause>>
    BY DEF Consume, clientVars
<1>2. /\ Len(queue[s]) \in Nat /\ Len(queue[s]) >= 1 /\ DOMAIN queue[s] = 1 .. Len(queue[s])
      /\ Tail(queue[s]) \in Seq(Event) /\ DOMAIN Tail(queue[s]) = 1 .. Len(queue[s]) - 1
      /\ \A i \in 1 .. Len(queue[s]) - 1 : Tail(queue[s])[i] = queue[s][i + 1]
      /\ Head(queue[s]) = queue[s][1] /\ queue[s][1] \in Event
    BY <1>1, <1>t
<1>3. PICK e \in Event : e = queue[s][1] /\ e.from \in Publishers /\ e.n \in Nat
  <2>1. queue[s][1].from \in Publishers /\ queue[s][1].n \in Nat
      BY <1>2 DEF Event
  <2> QED
      BY <1>2, <2>1
<1>4. /\ queue' \in [Subs -> Seq(Event)] /\ queue'[s] = Tail(queue[s])
      /\ \A t \in Subs : t # s => queue'[t] = queue[t]
    BY <1>1, <1>2, <1>t
<1>5. /\ got' \in [Subs -> [Publishers -> Nat]] /\ got'[s][e.from] = e.n
      /\ \A q \in Publishers : q # e.from => got'[s][q] = got[s][q]
      /\ \A t \in Subs : t # s => got'[t] = got[t]
    BY <1>1, <1>2, <1>3, <1>t
<1>6. ASSUME NEW i \in DOMAIN queue'[s]
      PROVE  /\ i + 1 \in DOMAIN queue[s] /\ queue'[s][i] = queue[s][i + 1]
             /\ queue[s][i + 1].from = e.from => e.n < queue[s][i + 1].n
             /\ i \in Nat /\ i >= 1
  <2>1. i \in 1 .. Len(queue[s]) - 1
      BY <1>2, <1>4
  <2>2. i + 1 \in DOMAIN queue[s] /\ queue'[s][i] = queue[s][i + 1] /\ 1 \in 1 .. (i + 1) - 1
      BY <1>2, <1>4, <2>1
  <2> QED
      BY <1>3, <1>t, <2>1, <2>2 DEF PublisherOrder
<1>7. TypeOK'
    BY <1>1, <1>4, <1>5 DEF FanoutInv, TypeOK
<1>8. RegistryInv' /\ EvictedOnce' /\ \A p \in Publishers : TaskOk(p)'
    BY <1>1 DEF FanoutInv, RegistryInv, EvictedOnce, TaskOk
<1>9. PublisherOrder'
  <2> SUFFICES ASSUME NEW t \in Subs, NEW i \in DOMAIN queue'[t]
               PROVE  /\ queue'[t][i].n > got'[t][queue'[t][i].from]
                      /\ \A j \in 1 .. i - 1 : queue'[t][j].from = queue'[t][i].from
                            => queue'[t][j].n < queue'[t][i].n
      BY DEF PublisherOrder
  <2>1. CASE t # s
      BY <1>4, <1>5, <1>t, <2>1 DEF PublisherOrder
  <2>2. CASE t = s
    <3>1. /\ i + 1 \in DOMAIN queue[s] /\ queue'[s][i] = queue[s][i + 1] /\ i \in Nat
          /\ queue[s][i + 1].from = e.from => e.n < queue[s][i + 1].n
        BY <1>6, <2>2
    <3>2. queue[s][i + 1] \in Event
        BY <1>t, <3>1
    <3>3. queue[s][i + 1].from \in Publishers /\ queue[s][i + 1].n \in Nat
        BY <3>2 DEF Event
    <3>4. /\ queue[s][i + 1].n > got[s][queue[s][i + 1].from]
          /\ \A j \in 1 .. (i + 1) - 1 : queue[s][j].from = queue[s][i + 1].from
                => queue[s][j].n < queue[s][i + 1].n
        BY <1>t, <3>1 DEF PublisherOrder
    <3>5. queue'[s][i].n > got'[s][queue'[s][i].from]
        BY <1>3, <1>5, <3>1, <3>3, <3>4
    <3>6. ASSUME NEW j \in 1 .. i - 1, queue'[s][j].from = queue'[s][i].from
          PROVE  queue'[s][j].n < queue'[s][i].n
      <4>0. i \in 1 .. Len(queue[s]) - 1 /\ DOMAIN queue'[s] = 1 .. Len(queue[s]) - 1
          BY <1>2, <1>4, <2>2
      <4>1. j \in DOMAIN queue'[s] /\ j + 1 \in 1 .. (i + 1) - 1
          BY <1>2, <4>0
      <4>2. queue'[s][j] = queue[s][j + 1]
          BY <1>6, <4>1
      <4> QED
          BY <3>1, <3>4, <3>6, <4>1, <4>2
    <3> QED
        BY <2>2, <3>5, <3>6
  <2> QED
      BY <2>1, <2>2
<1>10. Numbered'
  <2>1. e.n <= sent[e.from] /\ 1 \in DOMAIN queue[s]
      BY <1>2, <1>3, <1>t DEF Numbered
  <2>2. \A t \in Subs : \A q \in Publishers : got'[t][q] <= sent'[q]
      BY <1>1, <1>5, <1>t, <2>1 DEF Numbered
  <2>3. \A t \in Subs : \A i \in DOMAIN queue'[t] : queue'[t][i].n <= sent'[queue'[t][i].from]
      BY <1>1, <1>4, <1>6, <1>t DEF Numbered
  <2>4. ASSUME NEW q \in Publishers, NEW a \in task'[q].todo PROVE Unsent(q, a[1])'
    <3>1. Unsent(q, a[1]) /\ a[1] \in Subs
        BY <1>1, <1>t, TaskFields DEF Numbered
    <3>2. CASE a[1] # s
      <4>1. queue'[a[1]] = queue[a[1]] /\ got'[a[1]] = got[a[1]]
          BY <1>4, <1>5, <3>1, <3>2
      <4> QED
          BY <1>1, <3>1, <4>1 DEF Unsent
    <3>3. CASE a[1] = s
      <4>1. got'[s][q] < sent'[q]
          BY <1>1, <1>3, <1>5, <2>1, <3>1, <3>3 DEF Unsent
      <4>2. \A i \in DOMAIN queue'[s] : queue'[s][i].from = q => queue'[s][i].n < sent'[q]
          BY <1>1, <1>6, <3>1, <3>3 DEF Unsent
      <4> QED
          BY <3>3, <4>1, <4>2 DEF Unsent
    <3> QED
        BY <3>2, <3>3
  <2> QED
      BY <2>2, <2>3, <2>4 DEF Numbered
<1> QED
    BY <1>7, <1>8, <1>9, <1>10 DEF FanoutInv

-----------------------------------------------------------------------------
\* Every step keeps the invariant.
LEMMA FanoutNext == FanoutInv /\ [Next]_vars => FanoutInv'
<1> SUFFICES ASSUME FanoutInv, [Next]_vars PROVE FanoutInv'
    OBVIOUS
<1>1. ASSUME NEW p \in Publishers, Publish(p) \/ Notice(p) PROVE FanoutInv'
    BY <1>1, OriginateKeeps
<1>2. ASSUME NEW p \in Publishers,
             SendSkips(p) \/ SendFull(p) \/ SendClosed(p) \/ Finish(p) \/ EvictMissing(p)
      PROVE  FanoutInv'
    BY <1>2, DispatchKeeps
<1>3. ASSUME NEW p \in Publishers, SendOk(p) PROVE FanoutInv'
    BY <1>3, SendOkKeeps
<1>4. ASSUME NEW p \in Publishers, LagReset(p) \/ LagGrows(p) PROVE FanoutInv'
    BY <1>4, CountKeeps
<1>5. ASSUME NEW p \in Publishers, Evict(p) PROVE FanoutInv'
    BY <1>5, EvictKeeps
<1>6. ASSUME NEW s \in Subs,
             \/ RegisterWs(s) \/ RegisterSse(s) \/ Subscribe(s) \/ Unsubscribe(s)
             \/ CloseSeen(s) \/ ClientLeaves(s) \/ Unregister(s)
      PROVE  FanoutInv'
    BY <1>6, ClientKeeps
<1>7. ASSUME NEW s \in Subs, Consume(s) PROVE FanoutInv'
    BY <1>7, ConsumeKeeps
<1>8. CASE UNCHANGED vars
    BY <1>8 DEF vars, FanoutInv, TypeOK, RegistryInv, TaskOk, EvictedOnce, PublisherOrder,
                Numbered, Unsent
<1> QED
    BY <1>1, <1>2, <1>3, <1>4, <1>5, <1>6, <1>7, <1>8 DEF Next, Step

\* FanoutInv, the strengthening, holds in every reachable state.
LEMMA FanoutInvariant == Spec => []FanoutInv
    BY FanoutInit, FanoutNext, PTL DEF Spec

\* Every variable keeps its shape (subscriber.rs).
THEOREM FanoutTypeCorrect == Spec => []TypeOK
<1>1. FanoutInv => TypeOK
    BY DEF FanoutInv
<1> QED
    BY <1>1, FanoutInvariant, PTL

\* A subscriber is evicted and counted once and never comes back, however many
\* publishers condemn it (evict's check of remove(), subscriber.rs).
THEOREM EvictionCountsOnce == Spec => []EvictedOnce
<1>1. FanoutInv => EvictedOnce
    BY DEF FanoutInv
<1> QED
    BY <1>1, FanoutInvariant, PTL

\* A subscriber sees the events of one connection in the order they arrived and
\* none of them twice, for a window of any length (dispatch, subscriber.rs).
THEOREM OrderKept == Spec => []PublisherOrder
<1>1. FanoutInv => PublisherOrder
    BY DEF FanoutInv
<1> QED
    BY <1>1, FanoutInvariant, PTL

=============================================================================
