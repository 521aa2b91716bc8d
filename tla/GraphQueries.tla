---------------------------- MODULE GraphQueries ----------------------------
(***************************************************************************)
(* The questions asked of graph.db, by the command line and the supervisor *)
(* (cli/src/commands/blast.rs, godnodes.rs, supervisor/src/ipc.rs, module  *)
(* query_runner) and by the MCP tools (mcp/src/store.ts).  The two walks   *)
(* that keep a work list, blast and detectCycles, are state machines with  *)
(* one step for each turn of their loop; a query that is one statement of  *)
(* SQL is an operator on the tables.                                       *)
(*                                                                         *)
(* A node is its qualified name; Bare is the column name, and may itself   *)
(* be some node's qualified name.  An edge may have an end that is no row  *)
(* of nodes.  Rows come in the order a statement asks for and no other, so *)
(* a LIMIT may cut any of those that tie, and a walk takes the next one    *)
(* from a set.  Left out: the limit of 500 results of the MCP tools, line  *)
(* numbers, labels and signatures, and compute_risk, a table of thresholds.*)
(***************************************************************************)
EXTENDS Naturals, FiniteSets, Sequences

CONSTANTS
    QNames,         \* qualified names
    Unlisted,       \* those that are the end of an edge at most, and no row of nodes
    Bare,           \* the name column of each row
    FileOf,         \* the file_path column of each row
    StartLimit,     \* LIMIT of the target statement (10 in the code)
    MaxDepth,       \* the deepest walk asked for
    MaxEdges        \* bound on the rows of edges

ASSUME GraphAssumption ==
    /\ IsFiniteSet(QNames) /\ Unlisted \subseteq QNames /\ StartLimit \in Nat \ {0}
    /\ {MaxDepth, MaxEdges} \subseteq Nat /\ DOMAIN Bare = QNames /\ DOMAIN FileOf = QNames

VARIABLES
    graph,      \* edges: pairs <<source_qualified, target_qualified>>
    query,      \* the question: its kind, its target and its depth
    walk,       \* blast: visited (with depths) and the frontier
    tarjan      \* detectCycles: its maps, its stack, its work list, its result

graphVars == <<graph, query, walk, tarjan>>

NoNode == "none"

-----------------------------------------------------------------------------
\* Single statements.

Listed == QNames \ Unlisted

\* What ORDER BY `before` LIMIT n may leave of a set of rows.
Limited(rows, n, before(_, _)) ==
    {S \in SUBSET rows :
        /\ Cardinality(S) = IF Cardinality(rows) < n THEN Cardinality(rows) ELSE n
        /\ \A p \in S, q \in rows \ S : ~before(q, p)}

\* resolve_target: by qualified name, by name or by file, in this order, as many
\* as its LIMIT allows.
MatchRank(q, target) == IF q = target THEN 0 ELSE IF Bare[q] = target THEN 1 ELSE 2
Matching(target) ==
    {q \in Listed : q = target \/ Bare[q] = target \/ FileOf[q] = target}
ResolveTarget_AnyOrder(target) == Limited(Matching(target), StartLimit, LAMBDA p, q : FALSE)
ResolveTarget(target) ==
    Limited(Matching(target), StartLimit, LAMBDA p, q : MatchRank(p, target) < MatchRank(q, target))

\* The prepared statement of blast: edges to the node, or to a node that has it
\* as its bare name.
Consumers(node) ==
    {e[1] : e \in {f \in graph : f[2] = node \/ (f[2] \in Listed /\ Bare[f[2]] = node)}}

\* godnodes, with fan-in and fan-out, joined with nodes; the order of the names
\* among nodes of one degree is left out.
FanIn(q) == Cardinality({e \in graph : e[2] = q})
FanOut(q) == Cardinality({e \in graph : e[1] = q})
GodNodes(n) ==
    LET degree(q) == FanIn(q) + FanOut(q)
    IN Limited({q \in Listed : degree(q) > 0}, n, LAMBDA p, q : degree(p) > degree(q))

\* callGraphBfs: all edges here are calls.
NextOf(direction, n) ==
    (IF direction \in {"callees", "both"} THEN {e[2] : e \in {f \in graph : f[1] = n}} ELSE {})
    \cup (IF direction \in {"callers", "both"} THEN {e[1] : e \in {f \in graph : f[2] = n}} ELSE {})

CallGraph(fn, direction, depth) ==
    LET level[d \in 0..depth] ==
          IF d = 0 THEN {fn}
          ELSE level[d - 1] \cup UNION {NextOf(direction, n) : n \in level[d - 1]}
    IN level[depth]

-----------------------------------------------------------------------------
\* run_blast and the direct-db fallback of the blast command.
NoWalk == [visited |-> <<>>, frontier |-> <<>>]
NoTarjan == [index |-> 0, indices |-> <<>>, low |-> <<>>, stack |-> <<>>, work |-> <<>>, out |-> {}]

\* What one may ask of.
Targets == QNames \cup {Bare[q] : q \in QNames} \cup {FileOf[q] : q \in QNames}

GraphInit ==
    /\ graph \in {g \in SUBSET (QNames \X QNames) : Cardinality(g) <= MaxEdges}
    /\ query \in [op : {"blast"}, target : Targets, depth : 1..MaxDepth]
                 \cup [op : {"cycles"}, target : {NoNode}, depth : {0}]
    /\ walk = NoWalk /\ tarjan = NoTarjan

\* Some order of a set, as the statement returns its rows.
Orders(S) == {s \in [1..Cardinality(S) -> S] : \A i, j \in DOMAIN s : s[i] = s[j] => i = j}

BlastStarts ==
    /\ query.op = "blast" /\ walk = NoWalk
    /\ \E starts \in ResolveTarget(query.target) : \E s \in Orders(starts) :
            walk' = [visited |-> [q \in starts |-> 0], frontier |-> s]
    /\ UNCHANGED <<graph, query, tarjan>>

\* One turn of the loop: pop_front, then every source that was not visited.
BlastPops_Deeper(node) ==
    /\ walk.frontier # <<>> /\ node = Head(walk.frontier)
    /\ LET d == walk.visited[node]
           new == IF d > query.depth THEN {} ELSE Consumers(node) \ DOMAIN walk.visited
       IN \E s \in Orders(new) :
            walk' = [visited |-> [q \in DOMAIN walk.visited \cup new |->
                                    IF q \in new THEN d + 1 ELSE walk.visited[q]],
                     frontier |-> Tail(walk.frontier) \o s]
    /\ UNCHANGED <<graph, query, tarjan>>

BlastPops(node) ==
    /\ walk.frontier # <<>> /\ node = Head(walk.frontier)
    /\ LET d == walk.visited[node]
           new == IF d >= query.depth THEN {} ELSE Consumers(node) \ DOMAIN walk.visited
       IN \E s \in Orders(new) :
            walk' = [visited |-> [q \in DOMAIN walk.visited \cup new |->
                                    IF q \in new THEN d + 1 ELSE walk.visited[q]],
                     frontier |-> Tail(walk.frontier) \o s]
    /\ UNCHANGED <<graph, query, tarjan>>

-----------------------------------------------------------------------------
\* detectCycles: Tarjan's algorithm with an explicit work list.
AllNodes == {e[1] : e \in graph} \cup {e[2] : e \in graph}
Succ(v) == {e[2] : e \in {f \in graph : f[1] = v}}
Put(f, k, v) == [x \in DOMAIN f \cup {k} |-> IF x = k THEN v ELSE f[x]]
Top(s) == s[Len(s)]
Front1(s) == SubSeq(s, 1, Len(s) - 1)
Least(a, b) == IF a < b THEN a ELSE b
OnStack(v) == \E i \in DOMAIN tarjan.stack : tarjan.stack[i] = v

\* A node met for the first time.
Visit(v) ==
    [tarjan EXCEPT !.index = @ + 1, !.indices = Put(@, v, tarjan.index),
                   !.low = Put(@, v, tarjan.index), !.stack = Append(@, v)]

StrongConnect(v) ==
    /\ query.op = "cycles" /\ tarjan.work = <<>>
    /\ v \in AllNodes \ DOMAIN tarjan.indices
    /\ tarjan' = [Visit(v) EXCEPT !.work = <<[v |-> v, left |-> Succ(v)]>>]
    /\ UNCHANGED <<graph, query, walk>>

\* The next successor of the frame on top.
Successor_Ignores(w) ==
    /\ tarjan.work # <<>>
    /\ LET frame == Top(tarjan.work)
           rest == Append(Front1(tarjan.work), [frame EXCEPT !.left = @ \ {w}])
       IN /\ w \in frame.left
          /\ tarjan' = IF w \notin DOMAIN tarjan.indices
                       THEN [Visit(w) EXCEPT !.work = Append(rest, [v |-> w, left |-> Succ(w)])]
                       ELSE [tarjan EXCEPT !.work = rest,
                                           !.low[frame.v] = Least(@, tarjan.indices[w])]
    /\ UNCHANGED <<graph, query, walk>>

Successor(w) ==
    /\ tarjan.work # <<>>
    /\ LET frame == Top(tarjan.work)
           rest == Append(Front1(tarjan.work), [frame EXCEPT !.left = @ \ {w}])
       IN /\ w \in frame.left
          /\ tarjan' = IF w \notin DOMAIN tarjan.indices
                       THEN [Visit(w) EXCEPT !.work = Append(rest, [v |-> w, left |-> Succ(w)])]
                       ELSE IF OnStack(w)
                       THEN [tarjan EXCEPT !.work = rest,
                                           !.low[frame.v] = Least(@, tarjan.indices[w])]
                       ELSE [tarjan EXCEPT !.work = rest]
    /\ UNCHANGED <<graph, query, walk>>

\* The frame on top is finished: a root pops its component (kept from two nodes
\* on), and the parent takes over the low link.
FrameDone ==
    /\ tarjan.work # <<>> /\ Top(tarjan.work).left = {}
    /\ LET v == Top(tarjan.work).v
           at == CHOOSE i \in DOMAIN tarjan.stack : tarjan.stack[i] = v
           comp == {tarjan.stack[i] : i \in at..Len(tarjan.stack)}
           root == tarjan.low[v] = tarjan.indices[v]
           rest == Front1(tarjan.work)
           lowered == [tarjan.low EXCEPT ![Top(rest).v] = Least(@, tarjan.low[v])]
       IN tarjan' = [tarjan EXCEPT
                       !.work = rest,
                       !.stack = IF root THEN SubSeq(@, 1, at - 1) ELSE @,
                       !.out = IF root /\ Cardinality(comp) >= 2 THEN @ \cup {comp} ELSE @,
                       !.low = IF rest = <<>> THEN @ ELSE lowered]
    /\ UNCHANGED <<graph, query, walk>>

GraphNext ==
    \/ BlastStarts
    \/ \E n \in QNames : BlastPops(n) \/ StrongConnect(n) \/ Successor(n)
    \/ FrameDone

GraphSpec == GraphInit /\ [][GraphNext]_graphVars

-----------------------------------------------------------------------------
\* What is meant, independently of any walk.
Ball(starts, depth) ==
    LET level[d \in 0..depth] ==
          IF d = 0 THEN starts
          ELSE level[d - 1] \cup UNION {Consumers(n) : n \in level[d - 1]}
    IN level
Starts(visited) == {n \in DOMAIN visited : visited[n] = 0}

Reaches(a, b) ==
    b \in CallGraph(a, "callees", Cardinality(QNames))

\* The blast walk of the supervisor and of the command line reports exactly the
\* nodes that depend, within the depth asked for, on what the target resolves to,
\* each one once and at its shortest distance, however the rows are ordered and
\* names coincide.  A target resolves to the rows it matches, or to as many as the
\* LIMIT allows: of a file with more nodes the others are not looked at.
BlastIsShortest ==
    query.op = "blast" /\ walk # NoWalk /\ walk.frontier = <<>> =>
        LET starts == Starts(walk.visited)
            ball == Ball(starts, query.depth)
        IN /\ starts \in ResolveTarget(query.target)
           /\ DOMAIN walk.visited = ball[query.depth]
           /\ \A n \in DOMAIN walk.visited :
                LET d == walk.visited[n] IN n \in ball[d] /\ (d > 0 => n \notin ball[d - 1])

\* detectCycles (cyclic_deps) ends with exactly the strongly connected
\* components of two or more nodes, in whatever order edges and roots come.
CyclesAreComponents ==
    query.op = "cycles" /\ tarjan.work = <<>> /\ AllNodes \subseteq DOMAIN tarjan.indices =>
        tarjan.out = {C \in SUBSET AllNodes :
                        /\ Cardinality(C) >= 2
                        /\ \A a \in C, b \in AllNodes :
                             b \in C <=> Reaches(a, b) /\ Reaches(b, a)}

\* Whatever godnodes lists can be asked of blast by the name it lists: blast starts
\* there, however many rows have this name for their bare name or their file and
\* contend for the limit.
GodsCanBeAsked ==
    \A n \in 1 .. Cardinality(QNames) : \A S \in GodNodes(n) :
        \A q \in S : \A starts \in ResolveTarget(q) : q \in starts

\* What the graph commands answer is what the graph holds, up to the limits they
\* set: the blast radius, the cycles, and the nodes with most edges.
GraphAnswersAreExact == BlastIsShortest /\ CyclesAreComponents /\ GodsCanBeAsked
-----------------------------------------------------------------------------
(* The invariants behind the walks, which are proved in DataProofs for every    *)
(* graph.  The frontier is in order of distance, and a node that left it has    *)
(* its consumers visited.                                                       *)
Walked(far, frontier) ==
    LET ball == Ball(Starts(far), query.depth)
        queued == {frontier[i] : i \in DOMAIN frontier}
    IN  /\ far \in [DOMAIN far -> 0..query.depth] /\ frontier \in Seq(DOMAIN far)
        /\ Starts(far) \in ResolveTarget(query.target)
        /\ \A n \in DOMAIN far : n \in ball[far[n]] /\ (far[n] > 0 => n \notin ball[far[n] - 1])
        /\ \A i, j \in DOMAIN frontier : i < j =>
              /\ far[frontier[i]] <= far[frontier[j]]
              /\ far[frontier[j]] <= far[frontier[i]] + 1
        /\ \A n \in DOMAIN far \ queued :
              /\ \A q \in queued : far[n] <= far[q]
              /\ far[n] < query.depth => Consumers(n) \subseteq DOMAIN far

BlastInv ==
    /\ query.depth \in Nat
    /\ walk # NoWalk => Walked(walk.visited, walk.frontier)

\* What is on the stack, and what has left it for good.
Stacked == {tarjan.stack[i] : i \in DOMAIN tarjan.stack}
Settled == DOMAIN tarjan.indices \ Stacked
FrameAt(i) == tarjan.work[i].v

\* The stack falls into stretches: one from the node of a frame to the next one.
Before(x, i) ==
    i = Len(tarjan.work) \/ tarjan.indices[x] < tarjan.indices[FrameAt(i + 1)]

\* The successors a frame has still to look at.
Pending(x) == UNION {tarjan.work[i].left : i \in {j \in DOMAIN tarjan.work : FrameAt(j) = x}}

Component(C) ==
    /\ Cardinality(C) >= 2
    /\ \A a \in C, b \in AllNodes : b \in C <=> Reaches(a, b) /\ Reaches(b, a)

TarjanTypeOK ==
    /\ tarjan \in [index : Nat, indices : [DOMAIN tarjan.indices -> Nat], low : [DOMAIN tarjan.indices -> Nat],
                   stack : Seq(DOMAIN tarjan.indices), out : SUBSET SUBSET AllNodes,
                   work : Seq([v : DOMAIN tarjan.indices, left : SUBSET AllNodes])]
    /\ DOMAIN tarjan.indices \subseteq AllNodes
    /\ \A x \in DOMAIN tarjan.indices : tarjan.indices[x] < tarjan.index

\* Stack and work list are in the order in which their nodes were met.
InOrder ==
    /\ \A i, j \in DOMAIN tarjan.stack : i < j => tarjan.indices[tarjan.stack[i]] < tarjan.indices[tarjan.stack[j]]
    /\ \A i, j \in DOMAIN tarjan.work : i < j => tarjan.indices[FrameAt(i)] < tarjan.indices[FrameAt(j)]
    /\ \A i \in DOMAIN tarjan.work : FrameAt(i) \in Stacked /\ tarjan.work[i].left \subseteq Succ(FrameAt(i))
    /\ \A x \in Stacked : tarjan.work # <<>> /\ tarjan.indices[FrameAt(1)] <= tarjan.indices[x]

\* A frame reaches what is above it on the stack, and what is below the next
\* frame reaches it.
StackConnected ==
    \A i \in DOMAIN tarjan.work : \A x \in Stacked :
        /\ tarjan.indices[FrameAt(i)] <= tarjan.indices[x] => Reaches(FrameAt(i), x)
        /\ Before(x, i) => Reaches(x, FrameAt(i))

\* The low link of a frame is met on the stack, and no edge seen from its stretch
\* leads further down.
LowIsLeast ==
    \A i \in DOMAIN tarjan.work :
        LET v == FrameAt(i)
        IN  /\ tarjan.low[v] <= tarjan.indices[v]
            /\ \E u \in Stacked : tarjan.indices[u] = tarjan.low[v] /\ Reaches(v, u)
            /\ \A x \in Stacked : tarjan.indices[v] <= tarjan.indices[x] /\ Before(x, i) =>
                  \A w \in Succ(x) \ Pending(x) :
                     w \in DOMAIN tarjan.indices /\ (w \in Stacked => tarjan.low[v] <= tarjan.indices[w])

TarjanInv ==
    /\ TarjanTypeOK /\ InOrder /\ StackConnected /\ LowIsLeast
    /\ \A x \in Settled : Succ(x) \subseteq Settled
    /\ tarjan.out = {C \in SUBSET Settled : Component(C)}

GraphInv == graph \subseteq QNames \X QNames /\ BlastInv /\ TarjanInv
=============================================================================
