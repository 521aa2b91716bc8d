----------------------------- MODULE Clustering -----------------------------
(***************************************************************************)
(* Community detection (brain/src/leiden.rs) and the runner that splits    *)
(* communities that are too large (brain/src/cluster_runner.rs).           *)
(*                                                                         *)
(* The solver works on the graph that a set of vertices induces: nodes are *)
(* moved to the neighbouring community with the largest gain, pass by      *)
(* pass, in a shuffled order; then the communities are refined, each node  *)
(* being considered once; then the labels are lifted and made dense.  The  *)
(* shuffled order is made up as the first pass goes on.  The sums of       *)
(* strengths for each community are kept up to date step by step, as the   *)
(* code keeps them.  Gains and modularities are multiplied by (2m)^2 and   *)
(* by the denominator of the resolution, which makes them integers.        *)
(* Vertices are numbered in the order of their names, in a subgraph too.   *)
(* Left out: cohesion, the order of the result, loops and parallel edges.  *)
(***************************************************************************)
EXTENDS Integers, FiniteSets, Sequences

CONSTANTS
    Graphs,         \* graphs to cluster: symmetric weight functions on 1 .. N
    MaxOuter,       \* max_iterations (16 in the code)
    MaxPasses,      \* passes of local_move (32 in the code)
    OversizeShare,  \* 1 / oversize_ratio (4 in the code)
    MinThreshold,   \* smallest threshold that is acted upon (4 in the code)
    MaxSplitDepth   \* max_split_depth (3 in the code)

ASSUME ClusterAssumption ==
    /\ {MaxOuter, MaxPasses, OversizeShare, MinThreshold} \subseteq Nat \ {0} /\ MaxSplitDepth \in Nat
    /\ \A g \in Graphs : /\ g \in Seq([DOMAIN g -> Nat])
                          /\ \A u, v \in DOMAIN g : g[u][v] = g[v][u] /\ g[u][u] = 0

VARIABLES
    weight,     \* the graph
    solve,      \* the solver: its vertices, depth, phase, shuffled order, nodes seen, counters
    label,      \* partition of the vertices at work: [vertex -> label]
    fine,       \* the refined partition
    sigma,      \* sum of strengths for each label
    todo,       \* communities the runner has to look at: members, depth, total
    found       \* communities of the result

clusterVars == <<weight, solve, label, fine, sigma, todo, found>>

Vertices == DOMAIN weight
LowestOf(S) == CHOOSE x \in S : \A y \in S : x <= y

\* The sum of f over a set of vertices.
SumOver(V, f) ==
    LET upTo[n \in 0 .. Len(weight)] == IF n = 0 THEN 0 ELSE upTo[n - 1] + IF n \in V THEN f[n] ELSE 0
    IN  upTo[Len(weight)]
Links(u, V) == SumOver(V, weight[u])
Neighbours(V, u) == {v \in V : weight[u][v] > 0}
Strength(V) == [u \in V |-> Links(u, V)]

\* build_graph: vertices without an edge do not get in.
Joined(V) == {u \in V : Neighbours(V, u) # {}}

\* resolution at a depth: the step is 3/2.
Resolution(depth) == [num |-> 3 ^ depth, den |-> 2 ^ depth]

\* The first vertex of u's class, and dense labels in the order of first
\* appearance; labels count from 1 here.
FirstOf(V, p, u) == LowestOf({v \in V : p[v] = p[u]})
Compress(V, p) ==
    LET firsts == {FirstOf(V, p, u) : u \in V}
    IN  [u \in V |-> Cardinality({f \in firsts : f <= FirstOf(V, p, u)})]

-----------------------------------------------------------------------------
(* One node: the gain of a community, and the best of the candidates *)

\* sigma counts without u's share in its own community.
Gain(u, own, c, links) ==
    LET share == solve.strength[u]
    IN  links * solve.twoM * solve.res.den
            - solve.res.num * (sigma[c] - IF c = own THEN share ELSE 0) * share

\* The smallest label with the largest positive gain, or u's own.
Best(u, own, p, cands) ==
    LET scored == {<<Gain(u, own, c, Links(u, {v \in cands : p[v] = c})), c>> : c \in {p[v] : v \in cands}}
        top == {x \in scored : x[1] > 0 /\ \A y \in scored : y[1] <= x[1]}
    IN  IF top = {} THEN own ELSE LowestOf({x[2] : x \in top})

StayGain(u, own, p, cands) ==
    Gain(u, own, own, Links(u, {v \in cands : p[v] = own}))

Moved_OnlyLeaves(u, from, to) ==
    [sigma EXCEPT ![from] = IF from = to THEN @ ELSE @ - solve.strength[u]]

Moved(u, from, to) ==
    IF from = to THEN sigma
    ELSE [sigma EXCEPT ![from] = @ - solve.strength[u], ![to] = @ + solve.strength[u]]

-----------------------------------------------------------------------------
(* The solver *)

Singletons(V) == [u \in V |-> u]

\* One term of modularity, and modularity as the code computes it: only pairs
\* with an edge count.
Term(s, u, v) ==
    weight[u][v] * s.twoM * s.res.den - s.res.num * s.strength[u] * s.strength[v]
TermsOf(s, u) == [v \in s.verts |-> Term(s, u, v)]
CodeModularity(s, p) ==
    SumOver(s.verts, [u \in s.verts |-> SumOver({v \in Neighbours(s.verts, u) : p[u] = p[v]}, TermsOf(s, u))])

StartSolve(V, depth) ==
    LET strength == Strength(V)
        s == [verts |-> V, depth |-> depth, strength |-> strength,
              twoM |-> SumOver(V, strength), res |-> Resolution(depth),
              phase |-> "move", order |-> <<>>, seen |-> {}, moved |-> FALSE,
              passes |-> 1, outer |-> 1, prevQ |-> 0]
    IN  /\ solve' = [s EXCEPT !.prevQ = CodeModularity(s, Singletons(V))]
        /\ label' = Singletons(V) /\ fine' = <<>> /\ sigma' = strength

\* local_move, one node: any in the first pass, in the same order later.
MoveNode(u) ==
    /\ solve.phase = "move" /\ u \in solve.verts \ solve.seen
    /\ solve.passes > 1 => u = solve.order[Cardinality(solve.seen) + 1]
    /\ LET own == label[u]
           cands == Neighbours(solve.verts, u)
           best == Best(u, own, label, cands)
           links == Links(u, {v \in cands : label[v] = best})
           goes == best # own /\ Gain(u, own, best, links) > StayGain(u, own, label, cands)
           to == IF goes THEN best ELSE own
       IN  /\ label' = [label EXCEPT ![u] = to]
           /\ sigma' = Moved(u, own, to)
           /\ solve' = [solve EXCEPT !.seen = @ \cup {u}, !.moved = @ \/ goes,
                                    !.order = IF solve.passes = 1 THEN Append(@, u) ELSE @]
    /\ UNCHANGED <<weight, fine, todo, found>>

\* The pass is over; the order stays the same in the next one.
EndPass ==
    /\ solve.phase = "move" /\ solve.seen = solve.verts
    /\ IF solve.moved /\ solve.passes < MaxPasses
       THEN /\ solve' = [solve EXCEPT !.seen = {}, !.moved = FALSE, !.passes = @ + 1]
            /\ UNCHANGED <<fine, sigma>>
       ELSE /\ solve' = [solve EXCEPT !.phase = "refine", !.order = <<>>, !.seen = {}]
            /\ fine' = Singletons(solve.verts) /\ sigma' = solve.strength
    /\ UNCHANGED <<weight, label, todo, found>>

\* refine, one node: only neighbours of the same community count.
RefineNode(u) ==
    /\ solve.phase = "refine" /\ u \in solve.verts \ solve.seen
    /\ LET own == fine[u]
           cands == {v \in Neighbours(solve.verts, u) : label[v] = label[u]}
           to == Best(u, own, fine, cands)
       IN  /\ fine' = [fine EXCEPT ![u] = to]
           /\ sigma' = Moved(u, own, to)
           /\ solve' = [solve EXCEPT !.seen = @ \cup {u}]
    /\ UNCHANGED <<weight, label, todo, found>>

\* sigma_tot afresh: labels are vertices, or dense.
Sigmas(p) ==
    [c \in solve.verts \cup 1 .. Cardinality(solve.verts) |->
        SumOver({u \in solve.verts : p[u] = c}, solve.strength)]

\* aggregate and the lifting: a refined community is seeded with the number of
\* its first node, so the next partition is the refined one, renumbered.
Aggregate ==
    /\ solve.phase = "refine" /\ solve.seen = solve.verts
    /\ label' = Compress(solve.verts, [u \in solve.verts |-> FirstOf(solve.verts, fine, u)])
    /\ fine' = <<>> /\ solve' = [solve EXCEPT !.phase = "compare"]
    /\ UNCHANGED <<weight, sigma, todo, found>>

\* The end of an outer iteration: no more gain, or enough iterations.
EndIteration ==
    /\ solve.phase = "compare"
    /\ LET q == CodeModularity(solve, label)
       IN  solve' = IF q = solve.prevQ \/ solve.outer >= MaxOuter
                    THEN [solve EXCEPT !.phase = "solved"]
                    ELSE [solve EXCEPT !.phase = "move", !.order = <<>>, !.seen = {}, !.moved = FALSE,
                                       !.passes = 1, !.outer = @ + 1, !.prevQ = q]
    /\ sigma' = Sigmas(label)
    /\ UNCHANGED <<weight, label, fine, todo, found>>

\* The communities in the order of their labels, which are dense.
Communities ==
    [c \in 1 .. Cardinality({label[u] : u \in solve.verts}) |-> {u \in solve.verts : label[u] = c}]

-----------------------------------------------------------------------------
(* The runner *)

NoSolve ==
    [verts |-> {}, depth |-> 0, strength |-> <<>>, twoM |-> 0, res |-> Resolution(0), phase |-> "idle",
     order |-> <<>>, seen |-> {}, moved |-> FALSE, passes |-> 0, outer |-> 0, prevQ |-> 0]
Whole == [members |-> {}, depth |-> 0, total |-> 0]

ClusterInit ==
    /\ weight \in Graphs
    /\ solve = NoSolve /\ label = <<>> /\ fine = <<>> /\ sigma = <<>>
    /\ todo = <<>> /\ found = {}

\* ClusterRunner::run on the whole graph.
RunClusters ==
    /\ solve.phase = "idle" /\ todo = <<>> /\ found = {} /\ Joined(Vertices) # {}
    /\ StartSolve(Joined(Vertices), 0)
    /\ todo' = <<Whole>>
    /\ UNCHANGED <<weight, found>>

Threshold(total) == (total + OversizeShare - 1) \div OversizeShare
Splits(item) ==
    /\ item.depth < MaxSplitDepth
    /\ Threshold(item.total) >= MinThreshold
    /\ Cardinality(item.members) > Threshold(item.total)
    /\ Joined(item.members) # {}

\* The solver is done: its communities take the place of the one it split, if
\* it split it at all.
TakeCommunities ==
    /\ solve.phase = "solved"
    /\ LET item == Head(todo)
           whole == item = Whole
           depth == IF whole THEN 0 ELSE item.depth + 1
           total == IF whole THEN Cardinality(solve.verts) ELSE Cardinality(item.members)
           pieces == [c \in DOMAIN Communities |->
                        [members |-> Communities[c], depth |-> depth, total |-> total]]
       IN  IF whole \/ Len(pieces) > 1
           THEN todo' = pieces \o Tail(todo) /\ UNCHANGED found
           ELSE todo' = Tail(todo) /\ found' = found \cup {item.members}
    /\ solve' = NoSolve /\ label' = <<>> /\ sigma' = <<>>
    /\ UNCHANGED <<weight, fine>>

KeepCommunity ==
    /\ solve.phase = "idle" /\ todo # <<>> /\ ~Splits(Head(todo))
    /\ found' = found \cup {Head(todo).members} /\ todo' = Tail(todo)
    /\ UNCHANGED <<weight, solve, label, fine, sigma>>

SplitCommunity ==
    /\ solve.phase = "idle" /\ todo # <<>> /\ Splits(Head(todo))
    /\ StartSolve(Joined(Head(todo).members), Head(todo).depth + 1)
    /\ UNCHANGED <<weight, todo, found>>

ClusterNext ==
    \/ \E u \in solve.verts : MoveNode(u) \/ RefineNode(u)
    \/ EndPass \/ Aggregate \/ EndIteration
    \/ RunClusters \/ TakeCommunities \/ KeepCommunity \/ SplitCommunity

ClusterSpec == ClusterInit /\ [][ClusterNext]_clusterVars

-----------------------------------------------------------------------------
\* Modularity by its definition, over all pairs.
Modularity(s, p) ==
    SumOver(s.verts, [u \in s.verts |-> SumOver({v \in s.verts : p[u] = p[v]}, TermsOf(s, u))])

\* A node is moved only if that strictly increases the modularity of the
\* partition, by its definition and not by the code's sums of strengths: the
\* sums that each move updates in two places never drift from the partition,
\* over passes, refinements and splits.
MovesImprove ==
    [][(solve.phase = "move" /\ solve'.phase = "move" /\ solve'.outer = solve.outer /\ label' # label) =>
        Modularity(solve, label') > Modularity(solve, label)]_clusterVars
-----------------------------------------------------------------------------
(* The invariant behind it, which is proved in DataProofs: while nodes move, the *)
(* sums that are kept step by step are those of the partition.                   *)
SolveTypeOK ==
    /\ DOMAIN solve = DOMAIN NoSolve /\ solve.phase \in {"move", "refine", "compare", "solved"}
    /\ solve.verts \subseteq Vertices
    /\ solve.strength = Strength(solve.verts) /\ {solve.twoM, solve.res.num, solve.res.den} \subseteq Int

ClusterInv ==
    /\ weight \in Graphs
    /\ todo \in Seq([members : SUBSET Vertices, depth : Nat, total : Nat])
    /\ solve.phase # "idle" => SolveTypeOK /\ todo # <<>>
    /\ solve.phase = "compare" => label \in [solve.verts -> 1 .. Cardinality(solve.verts)]
    /\ solve.phase = "move" =>
         /\ label \in [solve.verts -> DOMAIN sigma] /\ DOMAIN sigma \subseteq Nat
         /\ \A c \in DOMAIN sigma : sigma[c] = SumOver({u \in solve.verts : label[u] = c}, solve.strength)
=============================================================================
