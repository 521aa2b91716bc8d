------------------------------ MODULE LiveBus ------------------------------
(***************************************************************************)
(* Event fan-out of the livebus worker: ipc_input.rs (one task for each    *)
(* publishing connection), subscriber.rs (registry, dispatch, eviction)    *)
(* and the two transports, ws.rs and sse.rs.                               *)
(*                                                                         *)
(* The registry maps a subscriber to an Arc<Subscriber>; update_patterns   *)
(* replaces the Arc.  dispatch clones the Arcs under the read lock and     *)
(* sends without it, so a publisher may work on an Arc that is no longer   *)
(* the registered one, or on a subscriber that is gone.  arcs[s] holds     *)
(* every Arc ever made for s; the registered one is the last.  A Sender is *)
(* alive while some Arc that holds it is: the registered one, or one that  *)
(* a publisher's snapshot still has.                                       *)
(*                                                                         *)
(* Topics are abstract and a pattern list is the set of topics it matches. *)
(***************************************************************************)
EXTENDS Naturals, Sequences, FiniteSets, Functions

CONSTANTS
    Publishers,     \* IPC connections
    WsSubs, SseSubs,\* the clients that may attach, by transport
    SsePatterns,    \* the pattern lists an SSE request may name
    Window,         \* BACKPRESSURE_WINDOW: channel capacity and lag budget
    MaxEvents,      \* bound: events and notices, of all publishers
    MaxArcs         \* bound: Arcs made for one subscriber

Subs == WsSubs \cup SseSubs
Topics == {"file", "degraded"}

ASSUME LiveBusAssumption ==
    /\ IsFiniteSet(WsSubs) /\ IsFiniteSet(SseSubs)
    /\ WsSubs \cap SseSubs = {} /\ SsePatterns \subseteq SUBSET Topics
    /\ Window \in Nat \ {0} /\ MaxEvents \in Nat /\ MaxArcs \in Nat \ {0}

VARIABLES
    registry,   \* subscribers: the keys of the HashMap
    arcs,       \* the Arcs made for each subscriber, oldest first
    queue,      \* the bounded mpsc channel of each subscriber
    client,     \* none, open, leaving (ws: loop left, not unregistered) or gone
    wants,      \* active_patterns of the WebSocket task
    task,       \* where each publisher's task stands in dispatch or evict
    sent,       \* events originated by each publisher
    evicted,    \* the AtomicU64 that /health reports
    cause,      \* history: why s was evicted
    got         \* history: newest event of each publisher that s has read

vars == <<registry, arcs, queue, client, wants, task, sent, evicted, cause, got>>

\* guard: recursion_guard; todo: the rest of the snapshot; held: the Arc just
\* sent to; toEvict: to_evict of the outer dispatch.
Idle == [pc |-> "idle", topic |-> "file", guard |-> FALSE, todo |-> {},
         held |-> {}, toEvict |-> <<>>]

Init ==
    /\ registry = {} /\ arcs = [s \in Subs |-> <<>>]
    /\ queue = [s \in Subs |-> <<>>]
    /\ client = [s \in Subs |-> "none"] /\ wants = [s \in Subs |-> {}]
    /\ task = [p \in Publishers |-> Idle] /\ sent = [p \in Publishers |-> 0]
    /\ evicted = 0
    /\ cause = [s \in Subs |-> "none"]
    /\ got = [s \in Subs |-> [p \in Publishers |-> 0]]

-----------------------------------------------------------------------------
(* The transports. *)

clientVars == <<task, sent, evicted, cause>>

Attach(s, pats) ==
    /\ client[s] = "none"
    /\ client' = [client EXCEPT ![s] = "open"]
    /\ registry' = registry \cup {s}
    /\ arcs' = [arcs EXCEPT ![s] = <<[pats |-> pats, lag |-> 0]>>]
    /\ UNCHANGED <<queue, wants, got, clientVars>>

\* handle_socket registers with no patterns, sse_handler with the request's.
RegisterWs(s) == s \in WsSubs /\ Attach(s, {})
RegisterSse(s) == s \in SseSubs /\ \E pats \in SsePatterns : Attach(s, pats)

\* update_patterns: a new Arc with the lag the old one has at this moment;
\* an error, and no Arc, for a subscriber that was evicted.
UpdatePatterns(s, pats) ==
    arcs' = IF s \in registry
            THEN [arcs EXCEPT ![s] =
                    Append(@, [pats |-> pats, lag |-> @[Len(@)].lag])]
            ELSE arcs

Resubscribe(s, pats) ==
    /\ s \in WsSubs /\ client[s] = "open" /\ Len(arcs[s]) < MaxArcs
    /\ wants' = [wants EXCEPT ![s] = pats]
    /\ UpdatePatterns(s, pats)
    /\ UNCHANGED <<registry, queue, client, got, clientVars>>

Subscribe(s) == \E t \in Topics : Resubscribe(s, wants[s] \cup {t})
Unsubscribe(s) == \E t \in Topics : Resubscribe(s, wants[s] \ {t})

\* rx.recv() gives an event, which goes out on the wire.
Consume(s) ==
    /\ client[s] = "open" /\ queue[s] # <<>>
    /\ queue' = [queue EXCEPT ![s] = Tail(@)]
    /\ got' = [got EXCEPT ![s][Head(queue[s]).from] = Head(queue[s]).n]
    /\ UNCHANGED <<registry, arcs, client, wants, clientVars>>

\* A WebSocket task unregisters before it drops its receiver; an SSE stream is
\* simply dropped, and the receiver with it.
Ends(s) == client' = [client EXCEPT ![s] = IF s \in WsSubs THEN "leaving" ELSE "gone"]

Arcs(s) == {<<s, v>> : v \in 1 .. MaxArcs}
SenderAlive(s) ==
    \/ s \in registry
    \/ \E p \in Publishers : Arcs(s) \cap (task[p].todo \cup task[p].held) # {}

\* rx.recv() gives None: drained, and every Sender dropped.
CloseSeen(s) ==
    /\ client[s] = "open" /\ queue[s] = <<>> /\ ~SenderAlive(s)
    /\ Ends(s)
    /\ UNCHANGED <<registry, arcs, queue, wants, got, clientVars>>

ClientLeaves(s) ==
    /\ client[s] = "open"
    /\ Ends(s)
    /\ UNCHANGED <<registry, arcs, queue, wants, got, clientVars>>

Unregister(s) ==
    /\ client[s] = "leaving"
    /\ registry' = registry \ {s}
    /\ client' = [client EXCEPT ![s] = "gone"]
    /\ UNCHANGED <<arcs, queue, wants, got, clientVars>>

-----------------------------------------------------------------------------
(* dispatch and evict, in the task of publisher p. *)

busVars == <<client, wants, got>>

Snapshot == {<<s, Len(arcs[s])>> : s \in registry}
ArcOf(a) == arcs[a[1]][a[2]]

Budget == FoldFunction(+, 0, sent) < MaxEvents

\* handle_connection: one line read, bus.publish, and dispatch's snapshot.
Publish(p) ==
    /\ task[p].pc = "idle" /\ Budget
    /\ sent' = [sent EXCEPT ![p] = @ + 1]
    /\ task' = [task EXCEPT ![p] = [Idle EXCEPT !.pc = "send", !.todo = Snapshot]]
    /\ UNCHANGED <<registry, arcs, queue, evicted, cause, busVars>>

SendSkips(p) == \E a \in task[p].todo :
    /\ task[p].pc = "send" /\ task[p].topic \notin ArcOf(a).pats
    /\ task' = [task EXCEPT ![p].todo = @ \ {a}]
    /\ UNCHANGED <<registry, arcs, queue, sent, evicted, cause, busVars>>

TrySend(p, a) ==
    task[p].pc = "send" /\ a \in task[p].todo /\ task[p].topic \in ArcOf(a).pats
Room(s) == client[s] # "gone" /\ Len(queue[s]) < Window
Full(s) == client[s] # "gone" /\ Len(queue[s]) = Window

\* The counter of the Arc is brought up to date after try_send: a second step.
Counts(p, a, next) ==
    task' = [task EXCEPT ![p].todo = @ \ {a}, ![p].held = {a}, ![p].pc = next]

SendOk_Twice(p) == \E a \in task[p].todo : LET s == a[1] IN
    /\ TrySend(p, a) /\ Room(s)
    /\ queue' = [queue EXCEPT ![s] =
                   Append(@, [from |-> p, n |-> sent[p], topic |-> task[p].topic])]
    /\ UNCHANGED <<registry, arcs, task, sent, evicted, cause, busVars>>
SendOk(p) == \E a \in task[p].todo : LET s == a[1] IN
    /\ TrySend(p, a) /\ Room(s)
    /\ queue' = [queue EXCEPT ![s] =
                   Append(@, [from |-> p, n |-> sent[p], topic |-> task[p].topic])]
    /\ Counts(p, a, "reset")
    /\ UNCHANGED <<registry, arcs, sent, evicted, cause, busVars>>

SendFull(p) == \E a \in task[p].todo :
    /\ TrySend(p, a) /\ Full(a[1])
    /\ Counts(p, a, "grow")
    /\ UNCHANGED <<registry, arcs, queue, sent, evicted, cause, busVars>>

LagReset(p) == \E a \in task[p].held :
    /\ task[p].pc = "reset"
    /\ arcs' = [arcs EXCEPT ![a[1]][a[2]].lag = 0]
    /\ task' = [task EXCEPT ![p].pc = "send", ![p].held = {}]
    /\ UNCHANGED <<registry, queue, sent, evicted, cause, busVars>>

Condemn(p, s, why) ==
    IF task[p].guard THEN task[p].toEvict
    ELSE Append(task[p].toEvict, [sub |-> s, cause |-> why])

LagGrows(p) == \E a \in task[p].held : LET lag == ArcOf(a).lag + 1 IN
    /\ task[p].pc = "grow"
    /\ arcs' = [arcs EXCEPT ![a[1]][a[2]].lag = lag]
    /\ task' = [task EXCEPT ![p].pc = "send", ![p].held = {},
                  ![p].toEvict = IF lag >= Window THEN Condemn(p, a[1], "lag") ELSE @]
    /\ UNCHANGED <<registry, queue, sent, evicted, cause, busVars>>

SendClosed(p) == \E a \in task[p].todo :
    /\ TrySend(p, a) /\ client[a[1]] = "gone"
    /\ task' = [task EXCEPT ![p].todo = @ \ {a},
                  ![p].toEvict = Condemn(p, a[1], "closed")]
    /\ UNCHANGED <<registry, arcs, queue, sent, evicted, cause, busVars>>

\* The snapshot is used up: on to the evictions, or back to the next line.
Finish_KeepsSnapshot(p) ==
    /\ task[p].pc = "send" /\ task[p].todo = {}
    /\ task' = [task EXCEPT ![p] =
                  IF @.toEvict = <<>> THEN [Idle EXCEPT !.held = Snapshot]
                  ELSE [@ EXCEPT !.pc = "evict", !.held = Snapshot]]
    /\ UNCHANGED <<registry, arcs, queue, sent, evicted, cause, busVars>>
Finish(p) ==
    /\ task[p].pc = "send" /\ task[p].todo = {}
    /\ task' = [task EXCEPT ![p] =
                  IF @.toEvict = <<>> THEN Idle ELSE [@ EXCEPT !.pc = "evict"]]
    /\ UNCHANGED <<registry, arcs, queue, sent, evicted, cause, busVars>>

\* evict: only the caller that really removes the entry counts it, and then
\* publishes the notice and fans it out under the recursion guard.
Evict(p) == LET v == Head(task[p].toEvict) IN
    /\ task[p].pc = "evict" /\ v.sub \in registry /\ Budget
    /\ registry' = registry \ {v.sub}
    /\ evicted' = evicted + 1
    /\ cause' = [cause EXCEPT ![v.sub] = v.cause]
    /\ task' = [task EXCEPT ![p].pc = "notice"]
    /\ UNCHANGED <<arcs, queue, sent, busVars>>

EvictMissing_Counts(p) ==
    /\ task[p].pc = "evict" /\ Head(task[p].toEvict).sub \notin registry
    /\ evicted' = evicted + 1
    /\ task' = [task EXCEPT ![p].pc = "send", ![p].toEvict = Tail(@)]
    /\ UNCHANGED <<registry, arcs, queue, sent, cause, busVars>>
EvictMissing(p) ==
    /\ task[p].pc = "evict" /\ Head(task[p].toEvict).sub \notin registry
    /\ task' = [task EXCEPT ![p].pc = "send", ![p].toEvict = Tail(@)]
    /\ UNCHANGED <<registry, arcs, queue, sent, evicted, cause, busVars>>

Notice(p) ==
    /\ task[p].pc = "notice"
    /\ sent' = [sent EXCEPT ![p] = @ + 1]
    /\ task' = [task EXCEPT ![p] =
                  [pc |-> "send", topic |-> "degraded", guard |-> TRUE,
                   todo |-> Snapshot, held |-> {}, toEvict |-> Tail(@.toEvict)]]
    /\ UNCHANGED <<registry, arcs, queue, evicted, cause, busVars>>

-----------------------------------------------------------------------------
Step(p) ==
    \/ SendSkips(p) \/ SendOk(p) \/ SendFull(p) \/ SendClosed(p)
    \/ LagReset(p) \/ LagGrows(p) \/ Finish(p)
    \/ Evict(p) \/ EvictMissing(p) \/ Notice(p)

Next ==
    \/ \E p \in Publishers : Publish(p) \/ Step(p)
    \/ \E s \in Subs :
         \/ RegisterWs(s) \/ RegisterSse(s) \/ Subscribe(s) \/ Unsubscribe(s)
         \/ Consume(s) \/ CloseSeen(s) \/ ClientLeaves(s) \/ Unregister(s)

Spec == Init /\ [][Next]_vars

\* dispatch never awaits, and a WebSocket task always gets back to its select!
\* as long as its peer reads: that clients keep reading is the assumption here.
FairSpec ==
    /\ Spec
    /\ \A p \in Publishers : WF_vars(Step(p))
    /\ \A s \in WsSubs : WF_vars(Consume(s) \/ CloseSeen(s) \/ Unregister(s))

-----------------------------------------------------------------------------
(* Properties. *)

Verdict == [sub : Subs, cause : {"lag", "closed"}]
Event == [from : Publishers, n : Nat, topic : Topics]
Entry == [pats : SUBSET Topics, lag : Nat]
Task == [pc : {"idle", "send", "reset", "grow", "evict", "notice"}, topic : Topics,
         guard : BOOLEAN, todo : SUBSET (Subs \X Nat), held : SUBSET (Subs \X Nat),
         toEvict : Seq(Verdict)]

\* Every variable has the shape its comment gives it.
TypeOK ==
    /\ registry \subseteq Subs
    /\ arcs \in [Subs -> Seq(Entry)] /\ queue \in [Subs -> Seq(Event)]
    /\ client \in [Subs -> {"none", "open", "leaving", "gone"}]
    /\ wants \in [Subs -> SUBSET Topics]
    /\ task \in [Publishers -> Task]
    /\ sent \in [Publishers -> Nat] /\ evicted \in Nat
    /\ cause \in [Subs -> {"none", "lag", "closed"}]
    /\ got \in [Subs -> [Publishers -> Nat]]

\* However many publishers condemn the same subscriber, and whatever its client
\* sends meanwhile, it is evicted and counted once and never comes back
\* (evict's check of remove(), update_patterns' check of get()).
EvictedOnce ==
    /\ evicted = Cardinality({s \in Subs : cause[s] # "none"})
    /\ \A s \in registry : cause[s] = "none"

\* A subscriber sees the events of one connection in the order they arrived,
\* none of them twice, degraded-mode notices included (dispatch).
PublisherOrder ==
    \A s \in Subs : \A i \in DOMAIN queue[s] : LET e == queue[s][i] IN
        /\ e.n > got[s][e.from]
        /\ \A j \in 1 .. i - 1 : queue[s][j].from = e.from => queue[s][j].n < e.n

-----------------------------------------------------------------------------
(***************************************************************************)
(* The inductive strengthening of EvictedOnce and PublisherOrder.          *)
(***************************************************************************)
\* A client that never attached has left no trace; one that is registered has
\* an Arc, and a publisher holds only Arcs that were made.
RegistryInv ==
    /\ \A s \in Subs : client[s] = "none" =>
         s \notin registry /\ cause[s] = "none" /\ arcs[s] = <<>>
    /\ \A s \in registry : arcs[s] # <<>>
    /\ \A p \in Publishers : \A a \in task[p].todo \cup task[p].held :
         a[2] \in DOMAIN arcs[a[1]]

\* Publisher p holds one Arc of a subscriber, and something to evict where it
\* evicts; it has no snapshot left by then.
TaskOk(p) ==
    /\ \A a, b \in task[p].todo : a[1] = b[1] => a = b
    /\ task[p].pc \in {"evict", "notice"} => task[p].toEvict # <<>>
    /\ task[p].pc \in {"idle", "evict", "notice"} => task[p].todo = {}

\* The event p is sending has not reached s.
Unsent(p, s) ==
    /\ got[s][p] < sent[p]
    /\ \A i \in DOMAIN queue[s] : queue[s][i].from = p => queue[s][i].n < sent[p]

\* No subscriber has an event its publisher did not send, and the one at hand
\* only when its Arc is off the snapshot.
Numbered ==
    /\ \A s \in Subs : \A p \in Publishers : got[s][p] <= sent[p]
    /\ \A s \in Subs : \A i \in DOMAIN queue[s] : queue[s][i].n <= sent[queue[s][i].from]
    /\ \A p \in Publishers : \A a \in task[p].todo : Unsent(p, a[1])

FanoutInv ==
    /\ TypeOK /\ RegistryInv /\ (\A p \in Publishers : TaskOk(p))
    /\ EvictedOnce /\ PublisherOrder /\ Numbered

\* An evicted client that reads what is queued for it is then disconnected:
\* the last Sender goes with the last snapshot that holds it (ws.rs, "Channel
\* closed -- manager evicted us").
EvictedIsClosed == \A s \in WsSubs : cause[s] # "none" ~> client[s] = "gone"
=============================================================================
