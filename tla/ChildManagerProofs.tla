------------------------- MODULE ChildManagerProofs -------------------------
(***************************************************************************)
(* TLAPS proofs about ChildManager, for any set of children, strategies,   *)
(* process ids, concurrent kill_child calls and restart budget, with or    *)
(* without failing spawn() and wait().                                     *)
(***************************************************************************)
EXTENDS ChildManager, FiniteSetTheorems, TLAPS

\* What a queue of restart requests holds after send and after recv.
LEMMA RequestFacts ==
    ASSUME NEW s \in Seq(Children), NEW c \in Children,
           \A k, l \in DOMAIN s : s[k] = s[l] => k = l
    PROVE  /\ LET t == Append(s, c) IN
               /\ {t[k] : k \in DOMAIN t} = {s[k] : k \in DOMAIN s} \cup {c}
               /\ c \notin {s[k] : k \in DOMAIN s} =>
                    \A k, l \in DOMAIN t : t[k] = t[l] => k = l
           /\ s # <<>> =>
               /\ Tail(s) \in Seq(Children) /\ Head(s) \in {s[k] : k \in DOMAIN s}
               /\ {Tail(s)[k] : k \in DOMAIN Tail(s)} = {s[k] : k \in DOMAIN s} \ {Head(s)}
               /\ \A k, l \in DOMAIN Tail(s) : Tail(s)[k] = Tail(s)[l] => k = l
<1>1. DOMAIN s = 1..Len(s) /\ Len(s) \in Nat
    OBVIOUS
<1>2. /\ DOMAIN Append(s, c) = 1..(Len(s) + 1)
      /\ \A k \in 1..Len(s) : Append(s, c)[k] = s[k]
      /\ Append(s, c)[Len(s) + 1] = c
    OBVIOUS
<1>3. {Append(s, c)[k] : k \in DOMAIN Append(s, c)} = {s[k] : k \in DOMAIN s} \cup {c}
    BY <1>1, <1>2
<1>4. c \notin {s[k] : k \in DOMAIN s} =>
        \A k, l \in DOMAIN Append(s, c) : Append(s, c)[k] = Append(s, c)[l] => k = l
    BY <1>1, <1>2
<1>5. ASSUME s # <<>>
      PROVE  /\ Tail(s) \in Seq(Children) /\ Head(s) \in {s[k] : k \in DOMAIN s}
             /\ {Tail(s)[k] : k \in DOMAIN Tail(s)} = {s[k] : k \in DOMAIN s} \ {Head(s)}
             /\ \A k, l \in DOMAIN Tail(s) : Tail(s)[k] = Tail(s)[l] => k = l
  <2>1. /\ Tail(s) \in Seq(Children) /\ Len(s) >= 1 /\ Head(s) = s[1]
        /\ DOMAIN Tail(s) = 1..(Len(s) - 1)
        /\ \A k \in 1..(Len(s) - 1) : Tail(s)[k] = s[k + 1]
      BY <1>5
  <2>2. \A k \in DOMAIN Tail(s) : Tail(s)[k] # Head(s) /\ Tail(s)[k] \in {s[j] : j \in DOMAIN s}
      BY <1>1, <2>1
  <2>3. ASSUME NEW k \in DOMAIN s, s[k] # Head(s)
        PROVE  \E j \in DOMAIN Tail(s) : Tail(s)[j] = s[k]
    <3>1. k - 1 \in DOMAIN Tail(s) /\ Tail(s)[k - 1] = s[k]
        BY <1>1, <2>1, <2>3
    <3> QED
        BY <3>1
  <2>4. {Tail(s)[k] : k \in DOMAIN Tail(s)} = {s[k] : k \in DOMAIN s} \ {Head(s)}
      BY <2>2, <2>3
  <2>5. \A k, l \in DOMAIN Tail(s) : Tail(s)[k] = Tail(s)[l] => k = l
      BY <1>1, <2>1
  <2>6. Head(s) \in {s[k] : k \in DOMAIN s}
    <3>1. 1 \in DOMAIN s
        BY <1>1, <2>1
    <3> QED
        BY <2>1, <3>1
  <2> QED
      BY <2>1, <2>4, <2>5, <2>6
<1> QED
    BY <1>3, <1>4, <1>5

-----------------------------------------------------------------------------
\* What ProcessIsMonitored says of one child.
LEMMA MonitoredFacts ==
    ASSUME TypeOK, ProcessIsMonitored, NEW c \in Children
    PROVE  /\ mon[c].at \in {"starting", "waiting"} =>
                mon[c].pid \in Pids /\ owner[mon[c].pid] = c
           /\ \A p \in Pids : owner[p] = c =>
                mon[c].at \in {"starting", "waiting"} /\ mon[c].pid = p
<1>1. \A p \in Pids : owner[p] = c <=> mon[c].at \in {"starting", "waiting"} /\ mon[c].pid = p
    BY DEF ProcessIsMonitored, TypeOK
<1>2. mon[c].at \in {"starting", "waiting"} => mon[c].pid # NoPid
    BY DEF ProcessIsMonitored
<1>3. mon[c].pid \in Pids \cup {NoPid}
    BY DEF TypeOK, Monitor
<1> QED
    BY <1>1, <1>2, <1>3

\* A monitor that moves on keeps its process id and leaves the others alone.
LEMMA MonitorMoves ==
    ASSUME TypeOK, NEW c \in Children,
           NEW a \in {"none", "starting", "waiting", "reaped", "cleared", "deciding", "sending"},
           NEW x \in {0, 1},
           \/ mon' = [mon EXCEPT ![c].at = a]
           \/ mon' = [mon EXCEPT ![c].at = a, ![c].code = x]
    PROVE  /\ mon' \in [Children -> Monitor]
           /\ mon'[c].at = a /\ mon'[c].pid = mon[c].pid
           /\ \A d \in Children : d # c => mon'[d] = mon[d]
<1>1. mon \in [Children -> Monitor] /\ mon[c] \in Monitor
    BY DEF TypeOK
<1>2. CASE mon' = [mon EXCEPT ![c].at = a]
    BY <1>1, <1>2 DEF Monitor
<1>3. CASE mon' = [mon EXCEPT ![c].at = a, ![c].code = x]
    BY <1>1, <1>3 DEF Monitor
<1> QED
    BY <1>2, <1>3

\* A monitor that returns leaves the others alone.
LEMMA MonitorReturns ==
    ASSUME TypeOK, NEW c \in Children, mon' = [mon EXCEPT ![c] = Gone]
    PROVE  /\ mon' \in [Children -> Monitor] /\ mon'[c].at = "none"
           /\ \A d \in Children : d # c => mon'[d] = mon[d]
<1>1. Gone \in Monitor /\ Gone.at = "none"
    BY DEF Gone, Monitor, NoPid
<1> QED
    BY <1>1 DEF TypeOK

-----------------------------------------------------------------------------
\* Steps that leave the token's places alone keep it unique.
LEMMA TokenFrame ==
    ASSUME OneToken, requests' = requests, unborn' = unborn, loop' = loop,
           \A c \in Children : mon'[c].at = "none" <=> mon[c].at = "none"
    PROVE  OneToken'
    BY DEF OneToken, Requested, WithLoop

\* Steps that leave the processes and who monitors them alone.
LEMMA ProcessFrame ==
    ASSUME ProcessIsMonitored, proc' = proc, owner' = owner, mon' = mon
    PROVE  ProcessIsMonitored'
    BY DEF ProcessIsMonitored

\* The shape of Launch: a free pid becomes the process of the child's monitor.
LEMMA LaunchFacts ==
    ASSUME TypeOK, ProcessIsMonitored, NEW c \in Children, mon[c].at = "none", Launch(c)
    PROVE  /\ ProcessIsMonitored'
           /\ mon' \in [Children -> Monitor]
           /\ mon'[c].at = "starting"
           /\ \A d \in Children : d # c => mon'[d] = mon[d]
           /\ proc' \in [Pids -> {"free", "live", "exited", "killed"}]
           /\ owner' \in [Pids -> Children \cup {NoChild}]
           /\ registered' \subseteq Children /\ aborting' \subseteq Children
           /\ unspawned' \subseteq Children
<1> USE ChildManagerAssumption
<1>1. PICK p \in Pids :
        /\ proc[p] = "free"
        /\ proc' = [proc EXCEPT ![p] = "live"]
        /\ owner' = [owner EXCEPT ![p] = c]
        /\ mon' = [mon EXCEPT ![c] = [at |-> "starting", pid |-> p, code |-> 0]]
    BY DEF Launch
<1>2. /\ mon'[c] = [at |-> "starting", pid |-> p, code |-> 0]
      /\ \A d \in Children : d # c => mon'[d] = mon[d]
      /\ mon' \in [Children -> Monitor]
  <2>1. [at |-> "starting", pid |-> p, code |-> 0] \in Monitor
      BY DEF Monitor
  <2> QED
      BY <1>1, <2>1 DEF TypeOK
<1>3. /\ proc' \in [Pids -> {"free", "live", "exited", "killed"}]
      /\ owner' \in [Pids -> Children \cup {NoChild}]
      /\ registered' \subseteq Children /\ aborting' \subseteq Children
      /\ unspawned' \subseteq Children
    BY <1>1 DEF TypeOK, Launch
<1>4. /\ \A q \in Pids : q # p => proc'[q] = proc[q] /\ owner'[q] = owner[q]
      /\ proc'[p] = "live" /\ owner'[p] = c /\ owner[p] = NoChild /\ p # NoPid /\ c # NoChild
    BY <1>1 DEF TypeOK, ProcessIsMonitored, NoPid
<1>5. mon'[c].at = "starting" /\ mon'[c].pid = p
    BY <1>2
<1>6. \A q \in Pids : owner[q] # c
    BY DEF ProcessIsMonitored
<1>7. ProcessIsMonitored'
  <2>1. ASSUME NEW q \in Pids PROVE proc'[q] = "free" <=> owner'[q] = NoChild
    <3>1. CASE q = p
        BY <1>4, <3>1
    <3>2. CASE q # p
      <4>1. proc[q] = "free" <=> owner[q] = NoChild
          BY DEF ProcessIsMonitored
      <4> QED
          BY <1>4, <3>2, <4>1
    <3> QED
        BY <3>1, <3>2
  <2>2. ASSUME NEW d \in Children, NEW q \in Pids
        PROVE  owner'[q] = d <=> mon'[d].at \in {"starting", "waiting"} /\ mon'[d].pid = q
    <3>1. CASE d = c
        BY <1>4, <1>5, <1>6, <3>1
    <3>2. CASE d # c
      <4>1. mon'[d] = mon[d]
          BY <1>2, <3>2
      <4>2. owner[q] = d <=> mon[d].at \in {"starting", "waiting"} /\ mon[d].pid = q
          BY DEF ProcessIsMonitored, TypeOK
      <4>3. CASE q = p
          BY <1>4, <3>2, <4>1, <4>2, <4>3
      <4>4. CASE q # p
          BY <1>4, <4>1, <4>2, <4>4
      <4> QED
          BY <4>3, <4>4
    <3> QED
        BY <3>1, <3>2
  <2>3. \A d \in Children : mon'[d].at \in {"starting", "waiting"} => mon'[d].pid # NoPid
      BY <1>2, <1>4, <1>5 DEF ProcessIsMonitored
  <2> QED
      BY <2>1, <2>2, <2>3 DEF ProcessIsMonitored
<1> QED
    BY <1>2, <1>3, <1>5, <1>7

\* A monitor that has reaped its process moves on without touching any.
LEMMA NoProcessFrame ==
    ASSUME TypeOK, ProcessIsMonitored, NEW c \in Children,
           mon[c].at \notin {"starting", "waiting"}, mon'[c].at \notin {"starting", "waiting"},
           \A d \in Children : d # c => mon'[d] = mon[d], proc' = proc, owner' = owner
    PROVE  ProcessIsMonitored'
<1>1. \A d \in Children : mon'[d].at \in {"starting", "waiting"} => mon'[d] = mon[d]
    OBVIOUS
<1>2. \A d \in Children : mon[d].at \in {"starting", "waiting"} => mon'[d] = mon[d]
    OBVIOUS
<1> QED
    BY <1>1, <1>2 DEF ProcessIsMonitored, TypeOK

\* A monitor lets go of its process (reaped, or killed by kill_on_drop).
LEMMA DroppedProcess ==
    ASSUME TypeOK, ProcessIsMonitored, NEW c \in Children, mon[c].pid \in Pids,
           owner[mon[c].pid] = c, mon'[c].at \notin {"starting", "waiting"},
           \A d \in Children : d # c => mon'[d] = mon[d],
           proc' = [proc EXCEPT ![mon[c].pid] = "free"],
           owner' = [owner EXCEPT ![mon[c].pid] = NoChild]
    PROVE  ProcessIsMonitored'
<1> USE ChildManagerAssumption
<1> DEFINE p == mon[c].pid
<1>1. /\ proc'[p] = "free" /\ owner'[p] = NoChild
      /\ \A q \in Pids : q # p => proc'[q] = proc[q] /\ owner'[q] = owner[q]
    BY DEF TypeOK
<1>2. \A q \in Pids : proc'[q] = "free" <=> owner'[q] = NoChild
    BY <1>1 DEF ProcessIsMonitored
<1>3. ASSUME NEW d \in Children, NEW q \in Pids
      PROVE  owner'[q] = d <=> mon'[d].at \in {"starting", "waiting"} /\ mon'[d].pid = q
  <2>1. owner[q] = d <=> mon[d].at \in {"starting", "waiting"} /\ mon[d].pid = q
      BY DEF ProcessIsMonitored, TypeOK
  <2>2. CASE d = c
      BY <1>1, <2>1, <2>2 
  <2>3. CASE d # c
    <3>1. mon'[d] = mon[d]
        BY <2>3
    <3>2. CASE q = p
        BY <1>1, <2>1, <2>3, <3>1, <3>2
    <3>3. CASE q # p
        BY <1>1, <2>1, <3>1, <3>3
    <3> QED
        BY <3>2, <3>3
  <2> QED
      BY <2>2, <2>3
<1>4. \A d \in Children : mon'[d].at \in {"starting", "waiting"} => mon'[d].pid # NoPid
    BY DEF ProcessIsMonitored
<1> QED
    BY <1>2, <1>3, <1>4 DEF ProcessIsMonitored

-----------------------------------------------------------------------------
\* The invariant holds when run() starts.
LEMMA ChildInit == Init => ChildInv
<1> USE ChildManagerAssumption
<1> SUFFICES ASSUME Init PROVE ChildInv
    OBVIOUS
<1>1. TypeOK
  <2>1. Gone \in Monitor /\ LoopIdle \in RestartLoop
      BY DEF Gone, LoopIdle, Monitor, RestartLoop, NoPid
  <2>2. boot \in [child : Children \cup {NoChild}, stale : BOOLEAN]
      BY DEF Init, BootIdle
  <2>3. recent \in [Children -> 0..(MaxRestarts + 1)] /\ requests \in Seq(Children)
      BY DEF Init
  <2> QED
      BY <2>1, <2>2, <2>3 DEF Init, TypeOK
<1>2. Requested = {} /\ loop.child = NoChild /\ loop.pc = "idle" /\ main # "inserting"
    BY DEF Init, Requested, LoopIdle
<1>3. \A c \in Children : mon[c].at = "none" /\ ~GivenUp(c)
    BY DEF Init, Gone, GivenUp
<1>4. OneToken
    BY <1>2, <1>3 DEF Init, OneToken, WithLoop
<1>5. ProcessIsMonitored
    BY <1>3 DEF Init, ProcessIsMonitored
<1> QED
    BY <1>1, <1>2, <1>3, <1>4, <1>5 DEF ChildInv, GivenUpHasNoToken

\* Every step of boot, monitors, restart loop, kills, exits and shutdown keeps
\* the invariant.
LEMMA ChildNext == ChildInv /\ [Next]_vars => ChildInv'
<1> USE ChildManagerAssumption
<1> SUFFICES ASSUME ChildInv, [Next]_vars PROVE ChildInv'
    OBVIOUS
<1> DEFINE Loops == loop.child = NoChild <=> loop.pc = "idle"
           Inserts == main = "inserting" => boot.child # NoChild
<1>t. TypeOK /\ Loops /\ Inserts /\ OneToken /\ ProcessIsMonitored /\ GivenUpHasNoToken
    BY DEF ChildInv
<1>q. ASSUME TypeOK', Loops', Inserts', OneToken', ProcessIsMonitored', GivenUpHasNoToken'
      PROVE  ChildInv'
    BY <1>q DEF ChildInv
<1>g. Gone \in Monitor /\ Gone.at = "none" /\ LoopIdle.child = NoChild /\ LoopIdle.pc = "idle"
      /\ LoopIdle \in RestartLoop
      /\ BootIdle \in [child : Children \cup {NoChild}, stale : BOOLEAN]
    BY DEF Gone, LoopIdle, BootIdle, NoPid, Monitor, RestartLoop
<1>l. /\ loop.child \in Children \cup {NoChild} /\ (loop.pc # "idle" => loop.child \in Children)
      /\ \A pc \in {"sleeping", "spawning", "registering"} :
            LET l == [loop EXCEPT !.pc = pc]
            IN  l \in RestartLoop /\ l.pc = pc /\ l.child = loop.child
    BY <1>t DEF TypeOK, RestartLoop
\* Steps outside the token, the processes and the decision to give up.
<1>f. ASSUME requests' = requests, unborn' = unborn, loop' = loop, mon' = mon,
             proc' = proc, owner' = owner,
             \A c \in Children : GivenUp(c)' => GivenUp(c), TypeOK', Inserts'
      PROVE  ChildInv'
  <2>1. OneToken'
      BY <1>t, <1>f, TokenFrame
  <2>2. ProcessIsMonitored'
      BY <1>t, <1>f, ProcessFrame
  <2>3. GivenUpHasNoToken'
      BY <1>t, <1>f DEF GivenUpHasNoToken, Requested
  <2> QED
      BY <1>t, <1>f, <1>q, <2>1, <2>2, <2>3
\* Processes exit or are killed, and stay with their monitors.
<1>e. ASSUME requests' = requests, unborn' = unborn, loop' = loop, mon' = mon,
             proc' \in [Pids -> {"free", "live", "exited", "killed"}],
             \A p \in Pids : proc'[p] = "free" <=> proc[p] = "free",
             killer' \in [Killers -> Pids \cup {NoPid}],
             UNCHANGED <<status, hpid, recent, registered, aborting, main, boot, flag,
                         owner, unspawned>>
      PROVE  ChildInv'
  <2>1. TypeOK' /\ Inserts'
      BY <1>t, <1>e DEF TypeOK
  <2>2. OneToken'
      BY <1>t, <1>e, TokenFrame
  <2>3. ProcessIsMonitored'
      BY <1>t, <1>e DEF ProcessIsMonitored
  <2>4. GivenUpHasNoToken'
      BY <1>t, <1>e DEF GivenUpHasNoToken, GivenUp, Requested
  <2> QED
      BY <1>t, <1>e, <1>q, <2>1, <2>2, <2>3, <2>4
<1>1. CASE BootRegisters
  <2>1. TypeOK' /\ Inserts'
      BY <1>1, <1>t, <1>g DEF BootRegisters, TypeOK, AfterBoot, handles, os, BootIdle
  <2> QED
      BY <1>1, <1>f, <2>1 DEF BootRegisters, handles, os, GivenUp
<1>2. CASE BootFails
  <2>1. mon' = [c \in Children |-> Gone] /\ requests' = <<>> /\ loop' = LoopIdle /\ unborn' = {}
        /\ main' = "failed" /\ \A p \in Pids : proc'[p] = "free" /\ owner'[p] = NoChild
      BY <1>2, <1>t DEF BootFails, ProcessIsMonitored
  <2>2. TypeOK'
      BY <1>2, <1>t, <1>g, <2>1 DEF BootFails, TypeOK, handles
  <2>3. Requested' = {} /\ \A c \in Children : mon'[c].at = "none"
      BY <1>g, <2>1 DEF Requested
  <2>4. OneToken' /\ ProcessIsMonitored' /\ GivenUpHasNoToken'
      BY <1>g, <2>1, <2>3 DEF OneToken, ProcessIsMonitored, GivenUpHasNoToken, WithLoop
  <2> QED
      BY <1>g, <1>q, <2>1, <2>2, <2>4
<1>3. ASSUME NEW c \in Children, BootSpawn(c) PROVE ChildInv'
  <2>1. mon[c].at = "none" /\ c \notin Requested /\ ~WithLoop(c) /\ ~GivenUp(c)
      BY <1>3, <1>t DEF BootSpawn, OneToken, GivenUpHasNoToken
  <2>2. /\ ProcessIsMonitored' /\ mon' \in [Children -> Monitor] /\ mon'[c].at = "starting"
        /\ \A d \in Children : d # c => mon'[d] = mon[d]
        /\ proc' \in [Pids -> {"free", "live", "exited", "killed"}]
        /\ owner' \in [Pids -> Children \cup {NoChild}]
        /\ registered' \subseteq Children /\ aborting' \subseteq Children
        /\ unspawned' \subseteq Children
      BY <1>3, <1>t, <2>1, LaunchFacts DEF BootSpawn
  <2>3. unborn' = unborn \ {c} /\ requests' = requests /\ loop' = loop /\ main' = "inserting"
        /\ boot' = [child |-> c, stale |-> FALSE] /\ status' = status /\ recent' = recent
        /\ hpid' = hpid /\ killer' = killer /\ flag' = flag
      BY <1>3 DEF BootSpawn, handles
  <2>4. TypeOK' /\ Inserts'
      BY <1>t, <2>2, <2>3 DEF TypeOK
  <2>5. OneToken' /\ GivenUpHasNoToken'
      BY <1>t, <2>1, <2>2, <2>3 DEF OneToken, GivenUpHasNoToken, GivenUp, Requested, WithLoop
  <2> QED
      BY <1>t, <1>q, <2>2, <2>3, <2>4, <2>5
<1>4. ASSUME NEW c \in Children, BootSkip(c) PROVE ChildInv'
  <2>1. TypeOK' /\ Inserts'
      BY <1>4, <1>t DEF BootSkip, TypeOK, AfterBoot, handles, os
  <2>2. OneToken' /\ ProcessIsMonitored' /\ GivenUpHasNoToken' /\ loop' = loop
      BY <1>4, <1>t DEF BootSkip, OneToken, ProcessIsMonitored, GivenUpHasNoToken, GivenUp,
          Requested, WithLoop, handles, os
  <2> QED
      BY <1>t, <1>q, <2>1, <2>2
<1>5. ASSUME NEW c \in Children, MonitorStarts(c) PROVE ChildInv'
  <2>1. /\ mon[c].at = "starting" /\ mon' \in [Children -> Monitor]
        /\ mon'[c].at = "waiting" /\ mon'[c].pid = mon[c].pid
        /\ \A d \in Children : d # c => mon'[d] = mon[d]
      BY <1>5, <1>t, MonitorMoves DEF MonitorStarts
  <2>2. TypeOK' /\ Inserts'
    <3>1. mon[c].pid \in Pids \cup {NoPid}
        BY <1>t DEF TypeOK, Monitor
    <3> QED
        BY <1>5, <1>t, <2>1, <3>1 DEF MonitorStarts, TypeOK, os
  <2>3. OneToken'
      BY <1>5, <1>t, <2>1, TokenFrame DEF MonitorStarts
  <2>4. ProcessIsMonitored'
      BY <1>5, <1>t, <2>1 DEF MonitorStarts, os, ProcessIsMonitored, TypeOK
  <2>5. GivenUpHasNoToken'
      BY <1>5, <1>t, <2>1 DEF MonitorStarts, GivenUpHasNoToken, GivenUp, Requested, TypeOK
  <2> QED
      BY <1>5, <1>t, <1>q, <2>2, <2>3, <2>4, <2>5 DEF MonitorStarts
<1>6. ASSUME NEW c \in Children, MonitorReaps(c) PROVE ChildInv'
  <2> DEFINE p == mon[c].pid
  <2>1. mon[c].at = "waiting" /\ p \in Pids /\ owner[p] = c
      BY <1>6, <1>t, MonitoredFacts DEF MonitorReaps
  <2>2. /\ mon' \in [Children -> Monitor] /\ mon'[c].at = "reaped"
        /\ \A d \in Children : d # c => mon'[d] = mon[d]
    <3>1. PICK code \in {0, 1} : mon' = [mon EXCEPT ![c].at = "reaped", ![c].code = code]
        BY <1>6 DEF MonitorReaps
    <3> QED
        BY <1>t, <3>1, MonitorMoves
  <2>3. /\ proc' = [proc EXCEPT ![p] = "free"] /\ owner' = [owner EXCEPT ![p] = NoChild]
      BY <1>6 DEF MonitorReaps
  <2> HIDE DEF p
  <2>4. TypeOK' /\ Inserts'
      BY <1>6, <1>t, <2>1, <2>2, <2>3 DEF MonitorReaps, TypeOK, handles
  <2>5. OneToken'
      BY <1>6, <1>t, <2>1, <2>2, TokenFrame DEF MonitorReaps
  <2>6. ProcessIsMonitored'
      BY <1>t, <2>1, <2>2, <2>3, DroppedProcess DEF p
  <2>7. GivenUpHasNoToken'
      BY <1>6, <1>t, <2>1, <2>2 DEF MonitorReaps, GivenUpHasNoToken, GivenUp, Requested, handles
  <2> QED
      BY <1>6, <1>t, <1>q, <2>4, <2>5, <2>6, <2>7 DEF MonitorReaps
<1>7. ASSUME NEW c \in Children, MonitorWaitFails(c) PROVE ChildInv'
  <2> DEFINE p == mon[c].pid
  <2>1. mon[c].at = "waiting" /\ p \in Pids /\ owner[p] = c
      BY <1>7, <1>t, MonitoredFacts DEF MonitorWaitFails
  <2>2. /\ mon' \in [Children -> Monitor] /\ mon'[c].at = "none"
        /\ \A d \in Children : d # c => mon'[d] = mon[d]
      BY <1>7, <1>t, MonitorReturns DEF MonitorWaitFails
  <2>3. /\ proc' = [proc EXCEPT ![p] = "free"] /\ owner' = [owner EXCEPT ![p] = NoChild]
      BY <1>7 DEF MonitorWaitFails
  <2> HIDE DEF p
  <2>4. TypeOK' /\ Inserts'
      BY <1>7, <1>t, <2>1, <2>2, <2>3 DEF MonitorWaitFails, TypeOK, handles
  <2>5. OneToken'
      BY <1>7, <1>t, <2>1, <2>2 DEF MonitorWaitFails, OneToken, Requested, WithLoop
  <2>6. ProcessIsMonitored'
      BY <1>t, <2>1, <2>2, <2>3, DroppedProcess DEF p
  <2>7. GivenUpHasNoToken'
      BY <1>7, <1>t, <2>1, <2>2 DEF MonitorWaitFails, GivenUpHasNoToken, GivenUp, Requested, handles
  <2> QED
      BY <1>7, <1>t, <1>q, <2>4, <2>5, <2>6, <2>7 DEF MonitorWaitFails
<1>8. ASSUME NEW c \in Children, MonitorClears(c) PROVE ChildInv'
  <2>1. /\ mon[c].at = "reaped" /\ mon' \in [Children -> Monitor] /\ mon'[c].at = "cleared"
        /\ \A d \in Children : d # c => mon'[d] = mon[d]
      BY <1>8, <1>t, MonitorMoves DEF MonitorClears
  <2>2. TypeOK' /\ Inserts'
      BY <1>8, <1>t, <2>1 DEF MonitorClears, TypeOK, os
  <2>3. OneToken'
      BY <1>8, <1>t, <2>1, TokenFrame DEF MonitorClears
  <2>4. ProcessIsMonitored'
      BY <1>8, <1>t, <2>1, NoProcessFrame DEF MonitorClears, os
  <2>5. GivenUpHasNoToken'
      BY <1>8, <1>t, <2>1 DEF MonitorClears, GivenUpHasNoToken, GivenUp, Requested
  <2> QED
      BY <1>8, <1>t, <1>q, <2>2, <2>3, <2>4, <2>5 DEF MonitorClears
<1>9. ASSUME NEW c \in Children, MonitorChecksShutdown(c) PROVE ChildInv'
  <2>1. /\ mon[c].at = "cleared" /\ mon' \in [Children -> Monitor]
        /\ mon'[c].at \in {"none", "deciding"}
        /\ \A d \in Children : d # c => mon'[d] = mon[d]
      BY <1>9, <1>t, MonitorMoves, MonitorReturns DEF MonitorChecksShutdown
  <2>2. \A d \in Children : status'[d] = "degraded" => status[d] = "degraded"
      BY <1>9, <1>t DEF MonitorChecksShutdown, TypeOK
  <2>3. TypeOK' /\ Inserts'
      BY <1>9, <1>t, <2>1 DEF MonitorChecksShutdown, TypeOK, os
  <2>4. OneToken'
      BY <1>9, <1>t, <2>1 DEF MonitorChecksShutdown, OneToken, Requested, WithLoop
  <2>5. ProcessIsMonitored'
      BY <1>9, <1>t, <2>1, NoProcessFrame DEF MonitorChecksShutdown, os
  <2>6. GivenUpHasNoToken'
      BY <1>9, <1>t, <2>1, <2>2 DEF MonitorChecksShutdown, GivenUpHasNoToken, GivenUp, Requested
  <2> QED
      BY <1>9, <1>t, <1>q, <2>3, <2>4, <2>5, <2>6 DEF MonitorChecksShutdown
<1>10. ASSUME NEW c \in Children, MonitorDecides(c) PROVE ChildInv'
  <2>1. /\ mon[c].at = "deciding" /\ mon' \in [Children -> Monitor]
        /\ mon'[c].at \in {"none", "sending"}
        /\ \A d \in Children : d # c => mon'[d] = mon[d]
      BY <1>10, <1>t, MonitorMoves, MonitorReturns DEF MonitorDecides
  <2>2. \A d \in Children : status'[d] = "degraded" => status[d] = "degraded"
      BY <1>10, <1>t DEF MonitorDecides, TypeOK
  <2>3. TypeOK' /\ Inserts'
      BY <1>10, <1>t, <2>1 DEF MonitorDecides, TypeOK, os
  <2>4. OneToken'
      BY <1>10, <1>t, <2>1 DEF MonitorDecides, OneToken, Requested, WithLoop
  <2>5. ProcessIsMonitored'
      BY <1>10, <1>t, <2>1, NoProcessFrame DEF MonitorDecides, os
  <2>6. GivenUpHasNoToken'
      BY <1>10, <1>t, <2>1, <2>2 DEF MonitorDecides, GivenUpHasNoToken, GivenUp, Requested
  <2> QED
      BY <1>10, <1>t, <1>q, <2>3, <2>4, <2>5, <2>6 DEF MonitorDecides
<1>11. ASSUME NEW c \in Children, MonitorSends(c) PROVE ChildInv'
  <2>1. /\ mon[c].at = "sending" /\ mon' \in [Children -> Monitor] /\ mon'[c].at = "none"
        /\ \A d \in Children : d # c => mon'[d] = mon[d]
      BY <1>11, <1>t, MonitorReturns DEF MonitorSends
  <2>2. requests' = Append(requests, c) /\ c \notin Requested /\ ~WithLoop(c) /\ ~GivenUp(c)
        /\ c \notin unborn /\ requests \in Seq(Children)
        /\ \A k, l \in DOMAIN requests : requests[k] = requests[l] => k = l
      BY <1>11, <1>t, <2>1 DEF MonitorSends, OneToken, GivenUpHasNoToken, TypeOK
  <2>3. Requested' = Requested \cup {c}
        /\ \A k, l \in DOMAIN requests' : requests'[k] = requests'[l] => k = l
      BY <2>2, RequestFacts DEF Requested
  <2>4. TypeOK' /\ Inserts'
      BY <1>11, <1>t, <2>1, <2>2 DEF MonitorSends, TypeOK, os, handles
  <2>5. OneToken'
      BY <1>11, <1>t, <2>1, <2>2, <2>3 DEF MonitorSends, OneToken, WithLoop
  <2>6. ProcessIsMonitored'
      BY <1>11, <1>t, <2>1, NoProcessFrame DEF MonitorSends, os
  <2>7. GivenUpHasNoToken'
      BY <1>11, <1>t, <2>1, <2>2, <2>3 DEF MonitorSends, GivenUpHasNoToken, GivenUp, handles
  <2> QED
      BY <1>11, <1>t, <1>q, <2>4, <2>5, <2>6, <2>7 DEF MonitorSends
<1>12. CASE LoopTakes
  <2> DEFINE c == Head(requests)
  <2>1. loop.pc = "idle" /\ loop.child = NoChild /\ requests # <<>> /\ requests' = Tail(requests)
        /\ requests \in Seq(Children) /\ c \in Children
        /\ \A k, l \in DOMAIN requests : requests[k] = requests[l] => k = l
      BY <1>12, <1>t DEF LoopTakes, TypeOK, OneToken
  <2>2. c \in Requested /\ Requested' = Requested \ {c} /\ Tail(requests) \in Seq(Children)
        /\ \A k, l \in DOMAIN requests' : requests'[k] = requests'[l] => k = l
    <3> HIDE DEF c
    <3>1. /\ Tail(requests) \in Seq(Children) /\ c \in {requests[k] : k \in DOMAIN requests}
          /\ {Tail(requests)[k] : k \in DOMAIN Tail(requests)} =
                {requests[k] : k \in DOMAIN requests} \ {c}
          /\ \A k, l \in DOMAIN Tail(requests) : Tail(requests)[k] = Tail(requests)[l] => k = l
        BY <2>1, RequestFacts DEF c
    <3>2. Requested' = {Tail(requests)[k] : k \in DOMAIN Tail(requests)}
        BY <2>1 DEF Requested
    <3>3. \A k, l \in DOMAIN requests' : requests'[k] = requests'[l] => k = l
        BY <2>1, <3>1, Zenon
    <3> QED
        BY <3>1, <3>2, <3>3, Zenon DEF Requested
  <2>3. mon[c].at = "none" /\ c \notin unborn /\ ~GivenUp(c)
      BY <1>t, <2>1, <2>2 DEF OneToken, GivenUpHasNoToken
  <2>4. loop' = LoopIdle \/ loop' = [pc |-> "budget", child |-> c]
      BY <1>12 DEF LoopTakes
  <2> HIDE DEF c
  <2>5. /\ loop' \in RestartLoop
        /\ Loops' /\ loop'.child \in {NoChild, c}
      BY <1>g, <2>1, <2>4 DEF RestartLoop
  <2>6. TypeOK' /\ Inserts'
      BY <1>12, <1>t, <2>1, <2>2, <2>5 DEF LoopTakes, TypeOK, os, handles
  <2>7. OneToken'
      BY <1>12, <1>t, <2>1, <2>2, <2>3, <2>5 DEF LoopTakes, OneToken, WithLoop
  <2>8. ProcessIsMonitored'
      BY <1>12, <1>t, ProcessFrame DEF LoopTakes, os
  <2>9. GivenUpHasNoToken'
      BY <1>12, <1>t, <2>2, <2>3, <2>5 DEF LoopTakes, GivenUpHasNoToken, GivenUp, handles
  <2> QED
      BY <1>q, <2>5, <2>6, <2>7, <2>8, <2>9
<1>13. CASE LoopBudget
  <2> DEFINE c == loop.child
  <2>1. loop.pc = "budget" /\ c \in Children /\ WithLoop(c)
      BY <1>13, <1>l DEF LoopBudget, WithLoop
  <2>2. mon[c].at = "none" /\ c \notin Requested /\ c \notin unborn /\ ~GivenUp(c)
      BY <1>t, <2>1 DEF OneToken, GivenUpHasNoToken
  <2>3. recent[c] \in Nat /\ recent[c] <= MaxRestarts
      BY <1>t, <2>1, <2>2 DEF GivenUp, TypeOK
  <2>4. recent' = [recent EXCEPT ![c] = @ + 1] /\ UNCHANGED <<mon, requests, unborn>>
      BY <1>13 DEF LoopBudget
  <2>5. recent'[c] = recent[c] + 1 /\ \A d \in Children : d # c => recent'[d] = recent[d]
      BY <1>t, <2>1, <2>4 DEF TypeOK
  <2>6. \/ /\ recent'[c] > MaxRestarts /\ loop' = LoopIdle
           /\ status' = [status EXCEPT ![c] = "degraded"]
        \/ /\ recent'[c] <= MaxRestarts /\ loop' = [loop EXCEPT !.pc = "sleeping"]
           /\ status' = status
      BY <1>13, <2>3, <2>5 DEF LoopBudget
  <2>7. /\ loop' \in RestartLoop
        /\ Loops'
        /\ loop' = LoopIdle \/ (loop'.child = c /\ loop'.pc = "sleeping"
                              /\ status'[c] # "degraded" /\ recent'[c] <= MaxRestarts)
      BY <1>g, <1>l, <2>1, <2>2, <2>6 DEF GivenUp
  <2>8. /\ status' \in [Children -> {"pending", "running", "restarting", "degraded", "stopped"}]
        /\ \A d \in Children : d # c => status'[d] = status[d]
      BY <1>t, <2>1, <2>6 DEF TypeOK
  <2> HIDE DEF c
  <2>9. TypeOK' /\ Inserts'
    <3>1. recent' \in [Children -> 0..(MaxRestarts + 1)]
        BY <1>t, <2>1, <2>3, <2>4 DEF TypeOK
    <3> QED
        BY <1>13, <1>t, <2>7, <2>8, <3>1 DEF LoopBudget, TypeOK, os
  <2>10. OneToken'
      BY <1>t, <1>g, <2>1, <2>2, <2>4, <2>7 DEF OneToken, WithLoop, Requested
  <2>11. ProcessIsMonitored'
      BY <1>13, <1>t, ProcessFrame DEF LoopBudget, os
  <2>12. GivenUpHasNoToken'
    <3> SUFFICES ASSUME NEW d \in Children, GivenUp(d)'
                 PROVE  mon'[d].at = "none" /\ d \notin Requested' /\ d \notin unborn'
                        /\ loop'.child # d
        BY DEF GivenUpHasNoToken
    <3>1. Requested' = Requested
        BY <2>4 DEF Requested
    <3>2. CASE d = c
        BY <1>g, <2>2, <2>3, <2>4, <2>5, <2>7, <3>1, <3>2 DEF GivenUp
    <3>3. CASE d # c
      <4>1. GivenUp(d)
          BY <2>5, <2>8, <3>3 DEF GivenUp
      <4> QED
          BY <1>t, <1>g, <2>4, <2>7, <3>1, <3>3, <4>1 DEF GivenUpHasNoToken
    <3> QED
        BY <3>2, <3>3
  <2> QED
      BY <1>q, <2>7, <2>9, <2>10, <2>11, <2>12
<1>14. CASE LoopWakes
  <2>1. loop.pc = "sleeping" /\ loop.child \in Children
      BY <1>14, <1>l DEF LoopWakes
  <2>2. /\ loop' \in RestartLoop
        /\ Loops'
        /\ loop' = LoopIdle \/ (loop'.child = loop.child /\ loop'.pc = "spawning")
      BY <1>14, <1>g, <1>l, <2>1 DEF LoopWakes
  <2>3. TypeOK' /\ Inserts'
      BY <1>14, <1>t, <2>2 DEF LoopWakes, TypeOK, handles, os
  <2>4. OneToken'
      BY <1>14, <1>t, <1>g, <2>1, <2>2 DEF LoopWakes, OneToken, WithLoop, Requested
  <2>5. ProcessIsMonitored'
      BY <1>14, <1>t, ProcessFrame DEF LoopWakes, os
  <2>6. GivenUpHasNoToken'
      BY <1>14, <1>t, <1>g, <2>2 DEF LoopWakes, GivenUpHasNoToken, GivenUp, Requested, handles
  <2> QED
      BY <1>q, <2>2, <2>3, <2>4, <2>5, <2>6
<1>15. CASE LoopSpawns
  <2> DEFINE c == loop.child
  <2>1. loop.pc = "spawning" /\ c \in Children /\ WithLoop(c)
      BY <1>15, <1>l DEF LoopSpawns, WithLoop
  <2>2. mon[c].at = "none" /\ c \notin Requested /\ c \notin unborn /\ ~GivenUp(c)
      BY <1>t, <2>1 DEF OneToken, GivenUpHasNoToken
  <2>3. /\ ProcessIsMonitored' /\ mon' \in [Children -> Monitor] /\ mon'[c].at = "starting"
        /\ \A d \in Children : d # c => mon'[d] = mon[d]
        /\ proc' \in [Pids -> {"free", "live", "exited", "killed"}]
        /\ owner' \in [Pids -> Children \cup {NoChild}]
        /\ registered' \subseteq Children /\ aborting' \subseteq Children
        /\ unspawned' \subseteq Children
      BY <1>15, <1>t, <2>1, <2>2, LaunchFacts DEF LoopSpawns
  <2>4. /\ loop' \in RestartLoop
        /\ loop'.child = c /\ loop'.pc = "registering" /\ Loops'
      BY <1>15, <1>l, <2>1 DEF LoopSpawns
  <2>5. boot' \in [child : Children \cup {NoChild}, stale : BOOLEAN] /\ boot'.child = boot.child
      BY <1>15, <1>t DEF LoopSpawns, TypeOK
  <2>6. UNCHANGED <<status, hpid, recent, requests, killer, main, unborn, flag>>
      BY <1>15 DEF LoopSpawns, handles
  <2> HIDE DEF c
  <2>7. TypeOK' /\ Inserts'
      BY <1>t, <2>3, <2>4, <2>5, <2>6 DEF TypeOK
  <2>8. OneToken'
      BY <1>t, <2>2, <2>3, <2>4, <2>6 DEF OneToken, WithLoop, Requested, c
  <2>9. GivenUpHasNoToken'
      BY <1>t, <2>2, <2>3, <2>4, <2>6 DEF GivenUpHasNoToken, GivenUp, Requested, c
  <2> QED
      BY <1>q, <2>3, <2>4, <2>7, <2>8, <2>9
<1>16. CASE LoopSpawnFails
  <2>1. loop.child \in Children /\ loop' = LoopIdle
      BY <1>16, <1>l DEF LoopSpawnFails
  <2>2. TypeOK' /\ Inserts'
      BY <1>16, <1>t, <1>g, <2>1 DEF LoopSpawnFails, TypeOK, handles
  <2>3. OneToken' /\ GivenUpHasNoToken'
      BY <1>16, <1>t, <1>g, <2>1 DEF LoopSpawnFails, OneToken, WithLoop, Requested,
          GivenUpHasNoToken, GivenUp, handles
  <2>4. ProcessIsMonitored'
      BY <1>16, <1>t, ProcessFrame DEF LoopSpawnFails
  <2> QED
      BY <1>g, <1>q, <2>1, <2>2, <2>3, <2>4
<1>17. CASE LoopRegisters
  <2>1. loop.child \in Children /\ loop' = LoopIdle
      BY <1>17, <1>l DEF LoopRegisters
  <2>2. TypeOK' /\ Inserts'
      BY <1>17, <1>t, <1>g, <2>1 DEF LoopRegisters, TypeOK, handles, os
  <2>3. OneToken' /\ GivenUpHasNoToken'
      BY <1>17, <1>t, <1>g, <2>1 DEF LoopRegisters, OneToken, WithLoop, Requested,
          GivenUpHasNoToken, GivenUp, handles
  <2>4. ProcessIsMonitored'
      BY <1>17, <1>t, ProcessFrame DEF LoopRegisters, os
  <2> QED
      BY <1>g, <1>q, <2>1, <2>2, <2>3, <2>4
<1>18. ASSUME NEW k \in Killers, NEW c \in Children, KillReadsPid(k, c) PROVE ChildInv'
  <2>1. TypeOK' /\ Inserts'
      BY <1>18, <1>t DEF KillReadsPid, TypeOK, handles, os
  <2> QED
      BY <1>18, <1>f, <2>1 DEF KillReadsPid, GivenUp, handles, os
<1>19. ASSUME NEW k \in Killers, KillFires(k) PROVE ChildInv'
  <2>1. killer[k] \in Pids
      BY <1>19, <1>t DEF KillFires, TypeOK
  <2>2. /\ proc' \in [Pids -> {"free", "live", "exited", "killed"}]
        /\ \A p \in Pids : proc'[p] = "free" <=> proc[p] = "free"
      BY <1>19, <1>t, <2>1 DEF KillFires, TypeOK
  <2>3. killer' \in [Killers -> Pids \cup {NoPid}]
      BY <1>19, <1>t DEF KillFires, TypeOK
  <2> QED
      BY <1>19, <1>e, <2>2, <2>3 DEF KillFires, handles
<1>20. ASSUME NEW p \in Pids, ProcessExits(p) PROVE ChildInv'
  <2>1. /\ proc' \in [Pids -> {"free", "live", "exited", "killed"}]
        /\ \A q \in Pids : proc'[q] = "free" <=> proc[q] = "free"
      BY <1>20, <1>t DEF ProcessExits, TypeOK
  <2> QED
      BY <1>20, <1>t, <1>e, <2>1 DEF ProcessExits, handles, TypeOK
<1>21. ASSUME NEW c \in Children, WindowSlides(c) PROVE ChildInv'
  <2>1. recent' \in [Children -> 0..(MaxRestarts + 1)]
        /\ \A d \in Children : recent[d] \in Nat /\ recent'[d] \in Nat /\ recent'[d] <= recent[d]
      BY <1>21, <1>t DEF WindowSlides, TypeOK
  <2>2. TypeOK' /\ Inserts'
      BY <1>21, <1>t, <2>1 DEF WindowSlides, TypeOK, os
  <2>3. \A d \in Children : GivenUp(d)' => GivenUp(d)
      BY <1>21, <2>1 DEF WindowSlides, GivenUp
  <2> QED
      BY <1>21, <1>f, <2>2, <2>3 DEF WindowSlides, os
<1>22. CASE StopFlag
  <2>1. TypeOK' /\ Inserts'
      BY <1>22, <1>t DEF StopFlag, TypeOK, handles, os
  <2> QED
      BY <1>22, <1>f, <2>1 DEF StopFlag, GivenUp, handles, os
<1>23. CASE StopDrains
  <2>1. TypeOK' /\ Inserts'
      BY <1>23, <1>t DEF StopDrains, TypeOK, handles, os
  <2> QED
      BY <1>23, <1>f, <2>1 DEF StopDrains, GivenUp, handles, os
<1>24. CASE StopMarks
  <2>1. TypeOK' /\ Inserts'
      BY <1>24, <1>t DEF StopMarks, TypeOK, os
  <2>2. \A d \in Children : GivenUp(d)' => GivenUp(d)
      BY <1>24 DEF StopMarks, GivenUp
  <2> QED
      BY <1>24, <1>f, <2>1, <2>2 DEF StopMarks, os
<1>25. ASSUME NEW c \in Children, AbortTakes(c) PROVE ChildInv'
  <2>1. /\ mon' \in [Children -> Monitor] /\ mon'[c].at = "none"
        /\ \A d \in Children : d # c => mon'[d] = mon[d]
      BY <1>25, <1>t, MonitorReturns DEF AbortTakes
  <2>2. /\ proc' \in [Pids -> {"free", "live", "exited", "killed"}]
        /\ owner' \in [Pids -> Children \cup {NoChild}]
      BY <1>25, <1>t DEF AbortTakes, TypeOK
  <2>3. TypeOK' /\ Inserts'
      BY <1>25, <1>t, <2>1, <2>2 DEF AbortTakes, TypeOK, handles
  <2>4. OneToken' /\ GivenUpHasNoToken'
      BY <1>25, <1>t, <2>1 DEF AbortTakes, OneToken, WithLoop, Requested,
          GivenUpHasNoToken, GivenUp, handles
  <2>5. ProcessIsMonitored'
    <3>1. CASE mon[c].at \in {"starting", "waiting"}
      <4>1. mon[c].pid \in Pids /\ owner[mon[c].pid] = c
          BY <1>t, <3>1, MonitoredFacts
      <4>2. /\ proc' = [proc EXCEPT ![mon[c].pid] = "free"]
            /\ owner' = [owner EXCEPT ![mon[c].pid] = NoChild]
          BY <1>25, <1>t, <3>1, <4>1 DEF AbortTakes, TypeOK
      <4> QED
          BY <1>t, <2>1, <4>1, <4>2, DroppedProcess
    <3>2. CASE mon[c].at \notin {"starting", "waiting"}
      <4>1. proc' = proc /\ owner' = owner
          BY <1>25, <1>t, <3>2 DEF AbortTakes, TypeOK
      <4> QED
          BY <1>t, <2>1, <3>2, <4>1, NoProcessFrame
    <3> QED
        BY <3>1, <3>2
  <2> QED
      BY <1>25, <1>t, <1>q, <2>3, <2>4, <2>5 DEF AbortTakes
<1>26. CASE UNCHANGED vars
  <2>1. TypeOK' /\ Inserts'
      BY <1>26, <1>t DEF vars, TypeOK, handles, os
  <2> QED
      BY <1>26, <1>f, <2>1 DEF vars, GivenUp, handles, os
<1>27. ASSUME NEW k \in Killers, NEW c \in Children, WatchdogKills(k, c) \/ IpcRestart(k, c)
       PROVE  ChildInv'
    BY <1>18, <1>27 DEF WatchdogKills, IpcRestart
<1> QED
    BY <1>1, <1>2, <1>3, <1>4, <1>5, <1>6, <1>7, <1>8, <1>9, <1>10, <1>11, <1>12, <1>13,
       <1>14, <1>15, <1>16, <1>17, <1>19, <1>20, <1>21, <1>22, <1>23, <1>24, <1>25, <1>26, <1>27
       DEF Next, MonitorStep, LoopStep

-----------------------------------------------------------------------------
\* Every variable of the child manager keeps its type: in particular the restart
\* counter never passes max_restarts_per_window + 1.
THEOREM ChildTypeCorrect == Spec => []TypeOK
<1>1. ChildInv => TypeOK
    BY DEF ChildInv
<1> QED
    BY <1>1, ChildInit, ChildNext, PTL DEF Spec

\* A child never has two processes, and one that was given up has no process and
\* no restart on its way, whatever the watchdog, IPC kills, failing waits and
\* shutdown do between the monitor's and the restart loop's steps.
THEOREM OneProcess == Spec => []OneProcessPerChild
<1>1. ChildInv => OneProcessPerChild
  <2> SUFFICES ASSUME ChildInv, NEW c \in Children
               PROVE  /\ Cardinality(Live(c)) <= 1
                      /\ status[c] = "degraded" => Live(c) = {} /\ ~Scheduled(c)
      BY DEF OneProcessPerChild
  <2>1. Live(c) \in SUBSET {mon[c].pid}
      BY MonitoredFacts DEF ChildInv, Live
  <2>2. IsFiniteSet({mon[c].pid}) /\ Cardinality({mon[c].pid}) = 1
      BY FS_Singleton
  <2>3. Cardinality(Live(c)) <= 1
      BY <2>1, <2>2, FS_Subset
  <2>4. ASSUME status[c] = "degraded" PROVE Live(c) = {} /\ ~Scheduled(c)
    <3>1. mon[c].at = "none" /\ c \notin Requested /\ loop.child # c
        BY <2>4 DEF ChildInv, GivenUpHasNoToken, GivenUp
    <3>2. Live(c) = {}
        BY <3>1, MonitoredFacts DEF ChildInv, Live
    <3> QED
        BY <3>1, <3>2 DEF Scheduled, Requested
  <2> QED
      BY <2>3, <2>4
<1> QED
    BY <1>1, ChildInit, ChildNext, PTL DEF Spec

\* The restart budget is never overdrawn: record_restart counts before the loop
\* decides, and a child over budget is never spawned again.
THEOREM BudgetHolds == Spec => []BudgetRespected
<1>1. ChildInv => BudgetRespected
  <2> SUFFICES ASSUME ChildInv, NEW c \in Children,
                      Live(c) # {} \/ (loop.child = c /\ loop.pc \in {"sleeping", "spawning"})
               PROVE  recent[c] <= MaxRestarts
      BY DEF BudgetRespected
  <2>1. mon[c].at # "none" \/ loop.child = c
      BY MonitoredFacts DEF ChildInv, Live
  <2>2. ~GivenUp(c)
      BY <2>1 DEF ChildInv, GivenUpHasNoToken
  <2>3. recent[c] \in Int /\ MaxRestarts \in Int
      BY ChildManagerAssumption DEF ChildInv, TypeOK
  <2> QED
      BY <2>2, <2>3 DEF GivenUp
<1> QED
    BY <1>1, ChildInit, ChildNext, PTL DEF Spec

=============================================================================
