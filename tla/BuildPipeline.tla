--------------------------- MODULE BuildPipeline ---------------------------
(***************************************************************************)
(* The build, rebuild and graphify commands (cli/src/commands/build.rs,    *)
(* rebuild.rs, graphify.rs), the client they talk to the supervisor with   *)
(* (cli/src/ipc.rs, daemon.rs) and the rows they leave in a project's      *)
(* shards, while the user edits the files.                                 *)
(*                                                                         *)
(* A file is at a version, 0 when it is not there.  A code file has a node *)
(* of its own and one whose id depends on the version (stable_id hashes    *)
(* the byte offset), with an edge between them; a document at version v    *)
(* has v pages.  A walk takes the files in any order.  The build lock,     *)
(* which admits one build or rebuild at a time, is the subject of          *)
(* BuildLock; the queue of the supervisor, which is reduced to three       *)
(* counters here, of JobQueue.  The parse worker answers a dispatched job  *)
(* without storing anything.  Left out: the rows of the file watcher, the  *)
(* counts that are printed.                                                *)
(***************************************************************************)
EXTENDS Naturals, FiniteSets

CONSTANTS
    CodeFiles,      \* files with an enabled language
    DocFiles,       \* files the multimodal registry claims
    Unparsable,     \* code files whose read, parse or extraction fails
    BigProject,     \* BIG_PROJECT_FILE_THRESHOLD
    BuildLimits,    \* values of --limit, 0 for none
    DaemonCap,      \* max_pending of the supervisor's queue
    MaxVersion,     \* bound on the versions of a file
    MaxBuilds,      \* bound on commands
    MaxLostRows     \* bound on failing inserts

ASSUME BuildAssumption ==
    /\ CodeFiles \cap DocFiles = {} /\ Unparsable \subseteq CodeFiles
    /\ BuildLimits \subseteq Nat /\ {BigProject, DaemonCap, MaxVersion, MaxBuilds, MaxLostRows} \subseteq Nat

VARIABLES
    disk,       \* version of each file
    daemon,     \* the supervisor: up, and how many jobs are pending, moving and in flight
    build,      \* the build or rebuild that holds the lock
    graphify,   \* a graphify, which takes no lock
    graphDb,    \* nodes: version of the content of each row; edges: number of rows
    mediaDb,    \* version of each media row
    indexedAt,  \* meta.db: whether last_indexed_at is set
    builds,     \* number of commands run
    lostRows    \* number of inserts that failed

buildVars == <<disk, daemon, build, graphify, graphDb, mediaDb, indexedAt, builds, lostRows>>

AllFiles == CodeFiles \cup DocFiles
NodesOf(f, v) == {<<f, 0>>, <<f, v>>}
EdgeOf(f, v) == <<f, 0, v>>
PagesOf(d, v) == {<<d, p>> : p \in 1 .. v}
MediaOf(d) == <<d, 0>>
NoRows == [nodes |-> <<>>, edges |-> <<>>]
Present(S) == {f \in S : disk[f] # 0}

\* clean: nothing that changes what the run leaves behind has happened to it.
NoBuild == [op |-> "none", pc |-> "idle", todo |-> {}, taken |-> 0, limit |-> 0, dispatch |-> FALSE,
            clean |-> TRUE, rebuilt |-> FALSE]
NoGraphify == [pc |-> "idle", todo |-> {}, orphan |-> FALSE]

BuildInit ==
    /\ disk = [f \in AllFiles |-> 1]
    /\ daemon = [up |-> FALSE, pending |-> 0, moving |-> 0, inflight |-> 0]
    /\ build = NoBuild /\ graphify = NoGraphify
    /\ graphDb = NoRows /\ mediaDb = <<>> /\ indexedAt = FALSE /\ builds = 0 /\ lostRows = 0

\* INSERT OR REPLACE of a set of keys, INSERT of a row that no key protects.
Upsert(rows, keys, v) ==
    [k \in DOMAIN rows \cup keys |-> IF k \in keys THEN v ELSE rows[k]]
AddRow(rows, e) ==
    [k \in DOMAIN rows \cup {e} |-> (IF k \in DOMAIN rows THEN rows[k] ELSE 0) + IF k = e THEN 1 ELSE 0]

-----------------------------------------------------------------------------
(* The client.  A request that finds no supervisor starts one, waits for   *)
(* three seconds and tries once more; Ping and Stop do not.  A request     *)
(* that times out may have been carried out.                               *)

Reachable(request) == {daemon.up} \cup IF request \in {"ping", "stop"} THEN {} ELSE {TRUE}

Submitted(d) == [d EXCEPT !.up = TRUE, !.pending = @ + 1]
Waiting == daemon.pending + daemon.inflight

\* The dispatch handler of the supervisor.
DispatchReplies ==
    {[reply |-> "error", then |-> daemon]}
    \cup (IF TRUE \in Reachable("dispatch")
          THEN {[reply |-> "error", then |-> [daemon EXCEPT !.up = TRUE]]}
               \cup IF Waiting < DaemonCap
                    THEN {[reply |-> r, then |-> Submitted(daemon)] : r \in {"queued", "error"}}
                    ELSE {}
          ELSE {})

-----------------------------------------------------------------------------
(* build and rebuild *)

\* Too many files without --yes end the command before the lock.
Accepted(yes) == yes \/ Cardinality(Present(CodeFiles)) <= BigProject

StartBuild(limit, dispatch, yes) ==
    /\ build.op = "none" /\ builds < MaxBuilds /\ builds' = builds + 1
    /\ Accepted(yes)
    /\ build' = [NoBuild EXCEPT !.op = "build", !.limit = limit, !.clean = (limit = 0),
                     !.dispatch = dispatch /\ daemon.up,
                     !.pc = IF dispatch /\ daemon.up THEN "submit" ELSE "open",
                     !.todo = IF dispatch /\ daemon.up THEN Present(CodeFiles) ELSE {}]
    /\ UNCHANGED <<disk, daemon, graphify, graphDb, mediaDb, indexedAt, lostRows>>

\* rebuild --yes.  A supervisor that is up answers that it does not know the
\* command, and that answer ends rebuild; only one that does not answer is
\* bypassed.
StartRebuild(noIpc, answers) ==
    /\ build.op = "none" /\ builds < MaxBuilds /\ builds' = builds + 1
    /\ answers => daemon.up
    /\ build' = [NoBuild EXCEPT !.op = "rebuild", !.pc = IF answers /\ ~noIpc THEN "ended" ELSE "drop"]
    /\ UNCHANGED <<disk, daemon, graphify, graphDb, mediaDb, indexedAt, lostRows>>

\* The walk of run_dispatched: one job for each file, until the limit.
SubmitFile(f) ==
    /\ build.pc = "submit" /\ f \in build.todo
    /\ build.limit = 0 \/ build.taken < build.limit
    /\ \E r \in DispatchReplies :
        /\ daemon' = r.then
        /\ build' = IF r.reply = "queued"
                    THEN [build EXCEPT !.todo = @ \ {f}, !.taken = @ + 1]
                    ELSE [build EXCEPT !.pc = "open", !.todo = {}, !.taken = 0]
    /\ UNCHANGED <<disk, graphify, graphDb, mediaDb, indexedAt, builds, lostRows>>

WalkSubmitted ==
    /\ build.pc = "submit"
    /\ build.todo = {} \/ (build.limit > 0 /\ build.taken >= build.limit)
    /\ build' = [build EXCEPT !.pc = "poll", !.todo = {}]
    /\ UNCHANGED <<disk, daemon, graphify, graphDb, mediaDb, indexedAt, builds, lostRows>>

\* JobQueueStatus: the build is over when nothing is pending or in flight; a
\* job on its way from one to the other is in neither.  The request starts a
\* supervisor that is gone.  An unanswered poll, or ten minutes, turn to the
\* inline build.
Poll ==
    /\ build.pc = "poll"
    /\ \/ /\ daemon.up /\ Waiting = 0
          /\ build' = [build EXCEPT !.pc = "ended"] /\ UNCHANGED daemon
       \/ /\ build' = [build EXCEPT !.pc = "open", !.taken = 0] /\ UNCHANGED daemon
       \/ /\ ~daemon.up /\ TRUE \in Reachable("status")
          /\ daemon' = [daemon EXCEPT !.up = TRUE] /\ UNCHANGED build
    /\ UNCHANGED <<disk, graphify, graphDb, mediaDb, indexedAt, builds, lostRows>>

\* rebuild removes the files of four shards; meta.db stays as it is.
DropShards_KeepsGraph ==
    /\ build.pc = "drop"
    /\ mediaDb' = <<>>
    /\ graphify' = [graphify EXCEPT !.orphan = (graphify.pc # "idle")]
    /\ build' = [build EXCEPT !.pc = "open"]
    /\ UNCHANGED <<disk, daemon, graphDb, indexedAt, builds, lostRows>>

DropShards ==
    /\ build.pc = "drop"
    /\ graphDb' = NoRows /\ mediaDb' = <<>>
    /\ graphify' = [graphify EXCEPT !.orphan = (graphify.pc # "idle")]
    /\ build' = [build EXCEPT !.pc = "open"]
    /\ UNCHANGED <<disk, daemon, indexedAt, builds, lostRows>>

\* A file that cannot be removed ends the rebuild, the ones before it are gone.
DropFails ==
    /\ build.pc = "drop"
    /\ graphDb' \in {graphDb, NoRows}
    /\ build' = NoBuild
    /\ UNCHANGED <<disk, daemon, graphify, mediaDb, indexedAt, builds, lostRows>>

\* run_inline: the shard is ready, the walk begins.
OpenShard ==
    /\ build.pc = "open"
    /\ build' = [build EXCEPT !.pc = "code", !.todo = Present(CodeFiles), !.rebuilt = (build.op = "rebuild")]
    /\ UNCHANGED <<disk, daemon, graphify, graphDb, mediaDb, indexedAt, builds, lostRows>>

\* One code file: its rows are inserted one by one and no answer is looked at.
\* A file that went away meanwhile cannot be read.
IndexFile(f, lost) ==
    /\ build.pc = "code" /\ f \in build.todo
    /\ build.limit = 0 \/ build.taken < build.limit
    /\ lostRows + Cardinality(lost) <= MaxLostRows /\ lostRows' = lostRows + Cardinality(lost)
    /\ LET v == disk[f]
           e == EdgeOf(f, v)
       IN  IF v = 0 \/ f \in Unparsable
           THEN /\ lost = {} /\ build' = [build EXCEPT !.todo = @ \ {f}]
                /\ UNCHANGED graphDb
           ELSE /\ lost \subseteq NodesOf(f, v) \cup {e}
                /\ graphDb' = [nodes |-> Upsert(graphDb.nodes, NodesOf(f, v) \ lost, v),
                               edges |-> IF e \in lost THEN graphDb.edges ELSE AddRow(graphDb.edges, e)]
                /\ build' = [build EXCEPT !.todo = @ \ {f}, !.taken = @ + 1, !.clean = @ /\ lost = {}]
    /\ UNCHANGED <<disk, daemon, graphify, mediaDb, indexedAt, builds>>

CodeWalked ==
    /\ build.pc = "code"
    /\ build.todo = {} \/ (build.limit > 0 /\ build.taken >= build.limit)
    /\ build' = [build EXCEPT !.pc = "docs", !.todo = Present(DocFiles)]
    /\ UNCHANGED <<disk, daemon, graphify, graphDb, mediaDb, indexedAt, builds, lostRows>>

\* One document: the media row first, and if it fails no page; a page that
\* fails is skipped.
IndexDoc(d, lost) ==
    /\ build.pc = "docs" /\ d \in build.todo
    /\ lostRows + Cardinality(lost) <= MaxLostRows /\ lostRows' = lostRows + Cardinality(lost)
    /\ lost \subseteq PagesOf(d, disk[d]) \cup {MediaOf(d)}
    /\ IF disk[d] = 0 \/ MediaOf(d) \in lost
       THEN UNCHANGED <<graphDb, mediaDb>>
       ELSE /\ mediaDb' = Upsert(mediaDb, {d}, disk[d])
            /\ graphDb' = [graphDb EXCEPT !.nodes = Upsert(@, PagesOf(d, disk[d]) \ lost, disk[d])]
    /\ build' = [build EXCEPT !.todo = @ \ {d}, !.clean = @ /\ lost = {}]
    /\ UNCHANGED <<disk, daemon, graphify, indexedAt, builds>>

\* mark_indexed comes after the last document, whatever failed before it, and
\* may fail itself.
Stamp ==
    /\ build.pc = "docs" /\ build.todo = {}
    /\ build' = [build EXCEPT !.pc = "ended"]
    /\ indexedAt' \in {TRUE, indexedAt}
    /\ UNCHANGED <<disk, daemon, graphify, graphDb, mediaDb, builds, lostRows>>

EndBuild ==
    /\ build.pc = "ended"
    /\ build' = NoBuild
    /\ UNCHANGED <<disk, daemon, graphify, graphDb, mediaDb, indexedAt, builds, lostRows>>

KillBuild ==
    /\ build.pc \notin {"idle", "ended"}
    /\ build' = NoBuild
    /\ UNCHANGED <<disk, daemon, graphify, graphDb, mediaDb, indexedAt, builds, lostRows>>

-----------------------------------------------------------------------------
(* graphify: media rows only.  A shard dropped under its open connection    *)
(* takes its later rows with it.                                            *)
StartGraphify ==
    /\ graphify.pc = "idle" /\ builds < MaxBuilds /\ builds' = builds + 1
    /\ graphify' = [pc |-> "walk", todo |-> Present(DocFiles), orphan |-> FALSE]
    /\ UNCHANGED <<disk, daemon, build, graphDb, mediaDb, indexedAt, lostRows>>

GraphifyDoc(d) ==
    /\ graphify.pc = "walk" /\ d \in graphify.todo
    /\ graphify' = [graphify EXCEPT !.todo = @ \ {d}]
    /\ mediaDb' \in {mediaDb, IF graphify.orphan \/ disk[d] = 0 THEN mediaDb
                              ELSE Upsert(mediaDb, {d}, disk[d])}
    /\ UNCHANGED <<disk, daemon, build, graphDb, indexedAt, builds, lostRows>>

\* The walk is over, --limit is reached, or the command is killed.
EndGraphify ==
    /\ graphify.pc = "walk"
    /\ graphify' = NoGraphify
    /\ UNCHANGED <<disk, daemon, build, graphDb, mediaDb, indexedAt, builds, lostRows>>

-----------------------------------------------------------------------------
(* Everybody else *)

\* A save, a new file or a removal.
Edit(f, v) ==
    /\ disk[f] # v /\ disk' = [disk EXCEPT ![f] = v]
    /\ build' = [build EXCEPT !.clean = @ /\ build.op = "none"]
    /\ UNCHANGED <<daemon, graphify, graphDb, mediaDb, indexedAt, builds, lostRows>>

\* daemon start, daemon stop or a crash; jobs.db brings every job back.
ToggleDaemon ==
    /\ daemon' = [up |-> ~daemon.up, pending |-> Waiting + daemon.moving, moving |-> 0, inflight |-> 0]
    /\ UNCHANGED <<disk, build, graphify, graphDb, mediaDb, indexedAt, builds, lostRows>>

\* The router takes a job off the queue, writes it to a worker, marks it; the
\* worker's report ends it.
RouteJob ==
    /\ daemon.up
    /\ \/ /\ daemon.pending > 0 /\ daemon.moving = 0
          /\ daemon' = [daemon EXCEPT !.pending = @ - 1, !.moving = 1]
       \/ /\ daemon.moving = 1
          /\ daemon' = [daemon EXCEPT !.moving = 0, !.inflight = @ + 1]
       \/ /\ daemon.inflight > 0
          /\ daemon' = [daemon EXCEPT !.inflight = @ - 1]
    /\ UNCHANGED <<disk, build, graphify, graphDb, mediaDb, indexedAt, builds, lostRows>>

BuildNext ==
    \/ \E limit \in BuildLimits, dispatch, yes \in BOOLEAN : StartBuild(limit, dispatch, yes)
    \/ \E noIpc, answers \in BOOLEAN : StartRebuild(noIpc, answers)
    \/ \E f \in CodeFiles : SubmitFile(f)
    \/ WalkSubmitted \/ Poll \/ DropShards \/ DropFails \/ OpenShard \/ CodeWalked \/ Stamp \/ EndBuild \/ KillBuild
    \/ \E f \in CodeFiles : \E lost \in SUBSET (NodesOf(f, disk[f]) \cup {EdgeOf(f, disk[f])}) :
        IndexFile(f, lost)
    \/ \E d \in DocFiles : \E lost \in SUBSET (PagesOf(d, disk[d]) \cup {MediaOf(d)}) : IndexDoc(d, lost)
    \/ StartGraphify \/ (\E d \in DocFiles : GraphifyDoc(d)) \/ EndGraphify
    \/ \E f \in AllFiles, v \in 0 .. MaxVersion : Edit(f, v)
    \/ ToggleDaemon \/ RouteJob

BuildSpec == BuildInit /\ [][BuildNext]_buildVars

-----------------------------------------------------------------------------
\* A rebuild that ended with every row stored and no file changed under it has
\* left exactly the graph of the files in graph.db, each edge once, whatever
\* builds, limits, failures, kills, edits and removals came before: "drop
\* everything and re-parse from scratch".
RebuildIsExact ==
    (build.pc = "ended" /\ build.rebuilt /\ build.clean) =>
        LET read == Present(CodeFiles) \ Unparsable
        IN  /\ DOMAIN graphDb.nodes = UNION ({NodesOf(f, disk[f]) : f \in read}
                                             \cup {PagesOf(d, disk[d]) : d \in DocFiles})
            /\ \A n \in DOMAIN graphDb.nodes : graphDb.nodes[n] = disk[n[1]]
            /\ graphDb.edges = [e \in {EdgeOf(f, disk[f]) : f \in read} |-> 1]

\* The inductive strengthening of RebuildIsExact: a rebuild that is still clean
\* has in the graph exactly the rows of the files it has worked off.
BuildRecord == [op : {"none", "build", "rebuild"},
                pc : {"idle", "submit", "poll", "open", "drop", "code", "docs", "ended"},
                todo : SUBSET AllFiles, taken : Nat, limit : Nat,
                dispatch : BOOLEAN, clean : BOOLEAN, rebuilt : BOOLEAN]

BuildShape ==
    /\ disk \in [AllFiles -> Nat] /\ build \in BuildRecord
    /\ graphDb = [nodes |-> graphDb.nodes, edges |-> graphDb.edges]
    /\ build.op = "rebuild" =>
        build.pc \in {"drop", "open", "code", "docs", "ended"} /\ build.limit = 0
    /\ build.rebuilt => build.op = "rebuild" /\ build.pc \in {"code", "docs", "ended"}
    /\ build.pc \in {"submit", "poll"} => build.op = "build"

GraphIs(code, docs) ==
    /\ DOMAIN graphDb.nodes = UNION ({NodesOf(f, disk[f]) : f \in code}
                                     \cup {PagesOf(d, disk[d]) : d \in docs})
    /\ \A n \in DOMAIN graphDb.nodes : graphDb.nodes[n] = disk[n[1]]
    /\ graphDb.edges = [e \in {EdgeOf(f, disk[f]) : f \in code} |-> 1]

RebuiltSoFar ==
    /\ build.op = "rebuild" /\ build.pc = "open" => graphDb = NoRows
    /\ build.rebuilt /\ build.clean =>
        /\ build.pc = "code" =>
            /\ build.todo \subseteq Present(CodeFiles)
            /\ GraphIs((Present(CodeFiles) \ build.todo) \ Unparsable, {})
        /\ build.pc = "docs" =>
            /\ build.todo \subseteq Present(DocFiles)
            /\ GraphIs(Present(CodeFiles) \ Unparsable, DocFiles \ build.todo)
        /\ build.pc = "ended" => GraphIs(Present(CodeFiles) \ Unparsable, DocFiles)

RebuildInv == BuildShape /\ RebuiltSoFar
=============================================================================
