------------------------------ MODULE Watcher ------------------------------
(***************************************************************************)
(* Re-index on save (supervisor/watcher.rs): notify events go through an   *)
(* unbounded channel to the debouncer, which coalesces them per path and   *)
(* hands each ripe path to a job of its own (reindex_one); jobs run        *)
(* concurrently and write the graph statement by statement through the     *)
(* store (StoreWriter).  Any of these calls may fail or time out, and a    *)
(* job never notices: a failed query is an empty list                      *)
(* (unwrap_or_default), the answer of a write is dropped (`let _ =`).      *)
(* A write that timed out is taken to have failed: if the shard's writer   *)
(* still gets to it, then before it gets to any later write.               *)
(*                                                                         *)
(* The content of a file is the set of symbols it defines.  A symbol is a  *)
(* node; it has one edge, to Callee[symbol].  Nodes are a table with a     *)
(* unique qualified name, edges a table without: a bag.  A path is ripe    *)
(* any time after its last event, so Flush needs no clock.                 *)
(***************************************************************************)
EXTENDS Naturals, Sequences, FiniteSets

CONSTANTS
    Files, Symbols,
    Unsupported,    \* files in no enabled language
    Callee,         \* [Files \X Symbols -> Files \X Symbols]
    MaxPending,     \* MAX_PENDING
    MaxChanges,     \* bound: changes the user makes
    MaxJobs,        \* bound: jobs that overlap
    IgnoredPaths,   \* whether paths on the ignore list change, too
    Faults          \* whether reads, parses, queries and writes may fail

Nodes == Files \X Symbols
Jobs == 1 .. MaxJobs
Absent == {"absent"}      \* no content

ASSUME WatcherAssumption ==
    /\ Unsupported \subseteq Files
    /\ Callee \in [Nodes -> Nodes] /\ "absent" \notin Symbols /\ "ignored" \notin Files
    /\ MaxPending \in Nat \ {0} /\ MaxChanges \in Nat /\ MaxJobs \in Nat \ {0}
    /\ IgnoredPaths \in BOOLEAN /\ Faults \in BOOLEAN

VARIABLES
    disk,       \* content of each file, or Absent
    changes,
    raw,        \* the channel from notify: <<path, kind>>
    pending,    \* the debounce table: kind for each pending path
    debouncer,  \* running or stuck
    stats,      \* the stats mutex: free or stuck
    job,        \* the reindex_one tasks
    nodes,      \* the nodes table
    edges,      \* the edges table: rows for each source node
    unread,     \* history: files saved since a job last read them
    lost,       \* history: files whose last event the debouncer dropped or merged
    spaced,     \* history: the user waited for each change to be indexed
    missed,     \* history: files whose last job failed, or lost a query or a write
    orphaned    \* history: files one of whose jobs, ever, lost what may leave edges
                \* of unknown nodes: the insert of a node, a deletion's query or unlinking

graphVars == <<nodes, edges, missed, orphaned>>
vars == <<disk, changes, raw, pending, debouncer, stats, job, nodes, edges,
          unread, lost, spaced, missed, orphaned>>

\* todo: what the loop at hand has still to do; new: the content that was read.
NoJob == [pc |-> "none", file |-> "none", todo |-> {}, new |-> {}]

Init ==
    /\ disk = [f \in Files |-> Absent] /\ changes = 0
    /\ raw = <<>> /\ pending = <<>>
    /\ debouncer = "running" /\ stats = "free"
    /\ job = [j \in Jobs |-> NoJob]
    /\ nodes = {} /\ edges = [x \in Nodes |-> 0]
    /\ unread = {} /\ lost = {} /\ spaced = TRUE /\ missed = {} /\ orphaned = {}

NodesOf(f, syms) == {f} \X syms
Drained == raw = <<>> /\ DOMAIN pending = {} /\ \A j \in Jobs : job[j].pc = "none"

-----------------------------------------------------------------------------
(* The user, and what notify reports of each change. *)

userVars == <<pending, debouncer, stats, job, graphVars>>

Reports(evs) ==
    /\ changes < MaxChanges /\ changes' = changes + 1
    /\ raw' = raw \o evs
    /\ spaced' = (spaced /\ Drained)

Saves(f) ==
    /\ \E syms \in SUBSET Symbols : disk' = [disk EXCEPT ![f] = syms]
    /\ Reports(<<<<f, "upsert">>>>)
    /\ unread' = unread \cup {f} /\ lost' = lost \ {f}
    /\ UNCHANGED userVars

Removes(f) ==
    /\ disk[f] # Absent
    /\ disk' = [disk EXCEPT ![f] = Absent]
    /\ Reports(<<<<f, "delete">>>>)
    /\ unread' = unread \ {f} /\ lost' = lost \ {f}
    /\ UNCHANGED userVars

\* RenameMode::From is a delete, RenameMode::To an upsert.
Renames(f, g) ==
    /\ disk[f] # Absent /\ f # g
    /\ disk' = [disk EXCEPT ![f] = Absent, ![g] = disk[f]]
    /\ Reports(<<<<f, "delete">>, <<g, "upsert">>>>)
    /\ unread' = (unread \ {f}) \cup {g} /\ lost' = lost \ {f, g}
    /\ UNCHANGED userVars

IgnoredChanges ==
    /\ IgnoredPaths
    /\ Reports(<<<<"ignored", "upsert">>>>)
    /\ UNCHANGED <<disk, userVars, unread, lost>>

-----------------------------------------------------------------------------
(* The debouncer. *)

Full == Cardinality(DOMAIN pending) >= MaxPending

\* "Delete wins over upsert when both happen in the window".
Coalesce(f, kind) ==
    IF f \in DOMAIN pending /\ pending[f] = "delete" THEN "delete" ELSE kind

Pends(f, kind) ==
    [g \in DOMAIN pending \cup {f} |-> IF g = f THEN Coalesce(f, kind) ELSE pending[g]]

Debounce_SkipsBusy ==
    /\ debouncer = "running" /\ raw # <<>> /\ Head(raw)[1] \in Files
    /\ raw' = Tail(raw)
    /\ LET f == Head(raw)[1]
            kind == Head(raw)[2]
       IN /\ pending' = IF Full \/ \E j \in Jobs : job[j].file = f THEN pending ELSE Pends(f, kind)
          /\ lost' = IF Full \/ kind # Coalesce(f, kind) THEN lost \cup {f} ELSE lost
    /\ UNCHANGED <<disk, changes, debouncer, stats, job, graphVars, unread, spaced>>
\* A full table drops the event, even one for a path it already holds.
Debounce ==
    /\ debouncer = "running" /\ raw # <<>> /\ Head(raw)[1] \in Files
    /\ raw' = Tail(raw)
    /\ LET f == Head(raw)[1]
            kind == Head(raw)[2]
       IN /\ pending' = IF Full THEN pending ELSE Pends(f, kind)
          /\ lost' = IF Full \/ kind # Coalesce(f, kind) THEN lost \cup {f} ELSE lost
    /\ UNCHANGED <<disk, changes, debouncer, stats, job, graphVars, unread, spaced>>

\* bump_ignored locks the stats twice in one statement: the guard of the right
\* hand side lives until its end, so the second lock waits for the first.
BumpIgnored == stats' = "stuck"

DebounceIgnored ==
    /\ debouncer = "running" /\ raw # <<>> /\ Head(raw)[1] \notin Files
    /\ raw' = Tail(raw)
    /\ BumpIgnored /\ debouncer' = "stuck"
    /\ UNCHANGED <<disk, changes, pending, job, graphVars, unread, lost, spaced>>

FreeJob == CHOOSE j \in Jobs : job[j].pc = "none"

\* Mutant: the table is flushed by its size, not by the tick.
Flush_WhenFull(f) ==
    /\ debouncer = "running" /\ f \in DOMAIN pending /\ Full
    /\ \E j \in Jobs : job[j].pc = "none"
    /\ pending' = [g \in DOMAIN pending \ {f} |-> pending[g]]
    /\ job' = [job EXCEPT ![FreeJob] = [NoJob EXCEPT !.file = f, !.pc = pending[f]]]
    /\ UNCHANGED <<disk, changes, raw, debouncer, stats, graphVars, unread, lost, spaced>>

\* A tick takes the ripe paths out of the table; the worker spawns the job.
Flush(f) ==
    /\ debouncer = "running" /\ f \in DOMAIN pending
    /\ \E j \in Jobs : job[j].pc = "none"
    /\ pending' = [g \in DOMAIN pending \ {f} |-> pending[g]]
    /\ job' = [job EXCEPT ![FreeJob] = [NoJob EXCEPT !.file = f, !.pc = pending[f]]]
    /\ UNCHANGED <<disk, changes, raw, debouncer, stats, graphVars, unread, lost, spaced>>

-----------------------------------------------------------------------------
(* reindex_one. *)

watchVars == <<disk, changes, raw, pending, debouncer, stats, lost, spaced>>
KnownNodes(f) == {x \in nodes : x[1] = f}

At(j, place) == job[j].pc = place
TurnsTo(j, place, todo, new) ==
    job' = [job EXCEPT ![j].pc = place, ![j].todo = todo, ![j].new = new]
Without(x) == job' = [job EXCEPT ![x[1]].todo = @ \ {x[2]}]
\* What the histories note of a call that fails.
Misses(j, orphans) ==
    /\ missed' = missed \cup {job[j].file}
    /\ orphaned' = IF orphans THEN orphaned \cup {job[j].file} ELSE orphaned

\* SELECT qualified_name of the file: what the job goes through next.
AsksNodes(j, place, new, orphans) ==
    \/ /\ TurnsTo(j, place, KnownNodes(job[j].file), new)
       /\ missed' = missed \ {job[j].file} /\ UNCHANGED orphaned
    \/ Faults /\ TurnsTo(j, place, {}, new) /\ Misses(j, orphans)

\* A write takes effect or fails; the job goes on.
Writes(j, effect, orphans) ==
    \/ effect /\ UNCHANGED <<missed, orphaned>>
    \/ Faults /\ UNCHANGED <<nodes, edges>> /\ Misses(j, orphans)

\* Delete: the qualified names, their edges both ways, then the nodes.
DeleteReads(j) ==
    /\ At(j, "delete")
    /\ AsksNodes(j, "unlink", {}, TRUE)
    /\ UNCHANGED <<watchVars, nodes, edges, unread>>

Unlinks(x) ==
    /\ edges' = [y \in Nodes |-> IF y = x \/ Callee[y] = x THEN 0 ELSE edges[y]]
    /\ UNCHANGED nodes

DeleteUnlinks(j) == \E x \in job[j].todo :
    /\ At(j, "unlink")
    /\ Writes(j, Unlinks(x), TRUE)
    /\ Without(<<j, x>>)
    /\ UNCHANGED <<watchVars, unread>>

Forgets(f) == nodes' = nodes \ KnownNodes(f) /\ UNCHANGED edges

DeleteNodes(j) ==
    /\ At(j, "unlink") /\ job[j].todo = {}
    /\ Writes(j, Forgets(job[j].file), FALSE)
    /\ TurnsTo(j, "record", {}, {})
    /\ UNCHANGED <<watchVars, unread>>

UpsertUnsupported(j) ==
    /\ At(j, "upsert") /\ job[j].file \in Unsupported
    /\ BumpIgnored /\ TurnsTo(j, "stuck", {}, {})
    /\ unread' = unread \ {job[j].file}
    /\ UNCHANGED <<disk, changes, raw, pending, debouncer, lost, spaced, graphVars>>

\* Upsert: a file that cannot be read, gone or not, is skipped.
UpsertSkips(j) == job' = [job EXCEPT ![j] = NoJob]

UpsertReads(j) == LET f == job[j].file IN
    /\ At(j, "upsert") /\ f \notin Unsupported
    /\ \/ /\ disk[f] # Absent /\ TurnsTo(j, "parse", {}, NodesOf(f, disk[f]))
          /\ UNCHANGED <<missed, orphaned>>
       \/ disk[f] = Absent /\ UpsertSkips(j) /\ UNCHANGED <<missed, orphaned>>
       \/ disk[f] # Absent /\ Faults /\ UpsertSkips(j) /\ Misses(j, FALSE)
    /\ unread' = unread \ {f}
    /\ UNCHANGED <<watchVars, nodes, edges>>

\* parse_file or extract fails.
UpsertFails(j) ==
    /\ Faults /\ At(j, "parse")
    /\ UpsertSkips(j)
    /\ Misses(j, FALSE)
    /\ UNCHANGED <<watchVars, nodes, edges, unread>>

\* The names of the nodes the graph has for this file.
UpsertParses(j) ==
    /\ At(j, "parse")
    /\ AsksNodes(j, "wipe", job[j].new, FALSE)
    /\ UNCHANGED <<watchVars, nodes, edges, unread>>

Wipes(x) == edges' = [edges EXCEPT ![x] = 0] /\ UNCHANGED nodes

UpsertWipes_Skips(j) == \E x \in job[j].todo :
    /\ At(j, "wipe")
    /\ Without(<<j, x>>)
    /\ UNCHANGED <<watchVars, graphVars, unread>>
UpsertWipes(j) == \E x \in job[j].todo :
    /\ At(j, "wipe")
    /\ Writes(j, Wipes(x), FALSE)
    /\ Without(<<j, x>>)
    /\ UNCHANGED <<watchVars, unread>>

UpsertWiped(j) ==
    /\ At(j, "wipe") /\ job[j].todo = {}
    /\ TurnsTo(j, "nodes", job[j].new, job[j].new)
    /\ UNCHANGED <<watchVars, graphVars, unread>>

\* INSERT OR REPLACE: at most one row for a qualified name.
InsertsNode(x) == nodes' = nodes \cup {x} /\ UNCHANGED edges

UpsertInsertsNode(j) == \E x \in job[j].todo :
    /\ At(j, "nodes")
    /\ Writes(j, InsertsNode(x), TRUE)
    /\ Without(<<j, x>>)
    /\ UNCHANGED <<watchVars, unread>>

UpsertHasNodes(j) ==
    /\ At(j, "nodes") /\ job[j].todo = {}
    /\ TurnsTo(j, "edges", job[j].new, {})
    /\ UNCHANGED <<watchVars, graphVars, unread>>

InsertsEdge(x) == edges' = [edges EXCEPT ![x] = @ + 1] /\ UNCHANGED nodes

UpsertInsertsEdge(j) == \E x \in job[j].todo :
    /\ At(j, "edges")
    /\ Writes(j, InsertsEdge(x), FALSE)
    /\ Without(<<j, x>>)
    /\ UNCHANGED <<watchVars, unread>>

UpsertDone(j) ==
    /\ At(j, "edges") /\ job[j].todo = {}
    /\ TurnsTo(j, "record", {}, {})
    /\ UNCHANGED <<watchVars, graphVars, unread>>

\* stats.record, then the file_reindexed event.
Records(j) ==
    /\ At(j, "record") /\ stats = "free"
    /\ job' = [job EXCEPT ![j] = NoJob]
    /\ UNCHANGED <<watchVars, graphVars, unread>>

-----------------------------------------------------------------------------
JobStep(j) ==
    \/ DeleteReads(j) \/ DeleteUnlinks(j) \/ DeleteNodes(j)
    \/ UpsertUnsupported(j) \/ UpsertReads(j) \/ UpsertFails(j) \/ UpsertParses(j)
    \/ UpsertWipes(j) \/ UpsertWiped(j) \/ UpsertInsertsNode(j) \/ UpsertHasNodes(j)
    \/ UpsertInsertsEdge(j) \/ UpsertDone(j) \/ Records(j)

Next ==
    \/ \E f \in Files : Saves(f) \/ Removes(f) \/ Flush(f) \/ \E g \in Files : Renames(f, g)
    \/ IgnoredChanges
    \/ Debounce \/ DebounceIgnored
    \/ \E j \in Jobs : JobStep(j)

Spec == Init /\ [][Next]_vars

\* The debouncer's select! and its ticker keep running, spawned jobs run; the
\* user is not obliged to do anything.
FairSpec ==
    /\ Spec
    /\ WF_vars(Debounce \/ DebounceIgnored)
    /\ \A f \in Files : WF_vars(Flush(f))
    /\ \A j \in Jobs : WF_vars(JobStep(j))

-----------------------------------------------------------------------------
(* Properties. *)

\* Every variable has the shape its comment gives it.
TypeOK ==
    /\ disk \in [Files -> (SUBSET Symbols) \cup {Absent}]
    /\ \A i \in DOMAIN raw : raw[i] \in (Files \cup {"ignored"}) \X {"upsert", "delete"}
    /\ DOMAIN pending \subseteq Files /\ Cardinality(DOMAIN pending) <= MaxPending
    /\ \A f \in DOMAIN pending : pending[f] \in {"upsert", "delete"}
    /\ \A j \in Jobs : job[j].todo \cup job[j].new \subseteq Nodes
    /\ nodes \subseteq Nodes /\ edges \in [Nodes -> Nat]

\* A save that no job has read yet is still on its way, in the channel, in the
\* table or with a job that is about to read: a job that overlaps with it reads
\* the new content or leaves an event behind.  Only a full table and a delete
\* in the same window lose it (debouncer, reindex_one's read).
NoSaveForgotten ==
    \A f \in unread \ lost :
        \/ \E i \in DOMAIN raw : raw[i] = <<f, "upsert">>
        \/ f \in DOMAIN pending
        \/ \E j \in Jobs : job[j].file = f /\ job[j].pc = "upsert"

\* File f is current: the graph holds nothing of a file that is gone; of any
\* other, each node it has now, with its edge, once.  An edge into another file
\* may have gone with that file, and nodes of symbols the file no longer has
\* stay, as upsert deletes edges only.
Indexed(f) ==
    IF disk[f] = Absent THEN KnownNodes(f) = {} /\ \A x \in NodesOf(f, Symbols) : edges[x] = 0
    ELSE \A x \in NodesOf(f, disk[f]) :
           /\ x \in nodes
           /\ edges[x] = 1 \/ (edges[x] = 0 /\ Callee[x][1] # f)

\* A user who waits for each change to be indexed finds every file current whose
\* last job lost no statement: what an earlier job lost, of this file or of
\* others, is made up for by the next job (the comment at the wipe: nodes "self-
\* heal").  That fails for good only for edges whose node the graph does not
\* know, left by a lost insert of a node or a lost part of a deletion: the wipe
\* does not meet them.
SpacedChangesAreIndexed ==
    spaced /\ Drained => \A f \in Files \ (lost \cup missed \cup orphaned) : Indexed(f)

\* Nothing but the stats mutex stops the pipeline: events, pending paths and
\* jobs drain, whatever overlaps with what and however full the table is.
DrainsUnlessStuck == []<>(Drained \/ stats = "stuck")

\* Claim of the header ("incremental re-index on save") and of total_ignored
\* ("files the watcher dropped because they were ignored"): ignored paths do
\* not stop it.
EverythingDrains == []<>Drained

-----------------------------------------------------------------------------
(* The inductive invariant behind TypeOK and NoSaveForgotten (WaitingProofs). *)

Kinds == {"upsert", "delete"}
Places == {"none", "delete", "unlink", "upsert", "parse", "wipe", "nodes", "edges",
           "record", "stuck"}
JobRecords == [pc : Places, file : Files \cup {"none"}, todo : SUBSET Nodes, new : SUBSET Nodes]

QueueOK ==
    /\ raw \in Seq((Files \cup {"ignored"}) \X Kinds)
    /\ DOMAIN pending \in SUBSET Files /\ pending \in [DOMAIN pending -> Kinds]
    /\ IsFiniteSet(DOMAIN pending) /\ Cardinality(DOMAIN pending) <= MaxPending

JobsOK ==
    /\ job \in [Jobs -> JobRecords]
    /\ \A j \in Jobs : job[j].pc # "none" => job[j].file \in Files

TablesOK ==
    /\ disk \in [Files -> (SUBSET Symbols) \cup {Absent}] /\ unread \subseteq Files
    /\ nodes \subseteq Nodes /\ edges \in [Nodes -> Nat]
    /\ missed \subseteq Files /\ orphaned \subseteq Files

\* In the table it waits as an upsert: as a delete no job would read it.
OnItsWay(f) ==
    \/ \E i \in DOMAIN raw : raw[i] = <<f, "upsert">>
    \/ f \in DOMAIN pending /\ pending[f] = "upsert"
    \/ \E j \in Jobs : job[j].file = f /\ job[j].pc = "upsert"

SavesOnTheirWay == \A f \in unread \ lost : OnItsWay(f)

\* A delete still in the channel that could overwrite the pending upsert of a
\* saved file is older than the save: the save's own event comes after it.
DeletesAreOlder ==
    \A f \in unread : \A i \in DOMAIN raw :
        raw[i] = <<f, "delete">> => \E k \in DOMAIN raw : k > i /\ raw[k] = <<f, "upsert">>

SaveInv == QueueOK /\ JobsOK /\ TablesOK /\ SavesOnTheirWay /\ DeletesAreOlder

\* And the one behind SpacedChangesAreIndexed.  While changes are spaced a file
\* is in one place at a time: in the channel, in the table or with one job, and
\* what is to be done agrees with the disk.
Busy(j) == job[j].pc # "none"
Needs(f) == IF disk[f] = Absent THEN "delete" ELSE "upsert"

InOnePlace ==
    /\ \A i \in DOMAIN raw : raw[i][1] \in Files =>
         /\ raw[i][2] = Needs(raw[i][1])
         /\ raw[i][1] \notin DOMAIN pending
         /\ \A k \in DOMAIN raw : raw[k][1] = raw[i][1] => k = i
         /\ \A j \in Jobs : Busy(j) => job[j].file # raw[i][1]
    /\ \A f \in DOMAIN pending :
         /\ pending[f] = Needs(f)
         /\ \A j \in Jobs : Busy(j) => job[j].file # f
    /\ \A j, k \in Jobs : Busy(j) /\ Busy(k) /\ job[j].file = job[k].file => j = k

Waits(f) ==
    \/ \E i \in DOMAIN raw : raw[i][1] = f
    \/ f \in DOMAIN pending
    \/ \E j \in Jobs : Busy(j) /\ job[j].file = f

\* The edge of x is there, or went with the file it leads to.
Linked(x) == edges[x] = 1 \/ (edges[x] = 0 /\ Callee[x][1] # x[1])

\* What a job has done so far, place by place: what it is about, what of it no
\* orphan spoils, and what only holds while it has lost nothing.
Plan(j) ==
    LET f == job[j].file
        now == NodesOf(f, disk[f])
    IN  /\ job[j].pc \in {"delete", "unlink"} => disk[f] = Absent
        /\ job[j].pc \in {"upsert", "parse", "wipe", "nodes", "edges"} => disk[f] # Absent
        /\ job[j].pc \in {"parse", "wipe", "nodes"} => job[j].new = now
        /\ job[j].pc \in {"unlink", "wipe"} => job[j].todo \subseteq NodesOf(f, Symbols)
        /\ job[j].pc \in {"nodes", "edges"} => job[j].todo \subseteq now

Whole(j) ==
    LET f == job[j].file
        now == NodesOf(f, disk[f])
    IN  /\ job[j].pc = "unlink" => \A x \in NodesOf(f, Symbols) : edges[x] > 0 => x \in job[j].todo
        /\ job[j].pc = "nodes" => now \ job[j].todo \subseteq nodes
        /\ job[j].pc = "edges" => now \subseteq nodes

Exact(j) ==
    LET f == job[j].file
        now == NodesOf(f, disk[f])
    IN  /\ job[j].pc = "wipe" => \A x \in NodesOf(f, Symbols) : edges[x] > 0 => x \in job[j].todo
        /\ job[j].pc = "nodes" => \A x \in NodesOf(f, Symbols) : edges[x] = 0
        /\ job[j].pc = "edges" => \A x \in now : IF x \in job[j].todo THEN edges[x] = 0 ELSE Linked(x)
        /\ job[j].pc = "record" => Indexed(f)

Progress(j) ==
    /\ Plan(j)
    /\ job[j].file \notin orphaned => Whole(j)
    /\ job[j].file \notin missed \cup orphaned => Exact(j)

\* Edges belong to known nodes, orphans apart, so a job that goes through the
\* known nodes of a file meets every edge of it.
EdgesOfNodes == \A x \in Nodes : edges[x] > 0 => x \in nodes \/ x[1] \in orphaned

FreshInv ==
    spaced =>
        /\ InOnePlace /\ EdgesOfNodes
        /\ \A j \in Jobs : Busy(j) => Progress(j)
        /\ \A f \in Files \ (lost \cup missed \cup orphaned) : Waits(f) \/ Indexed(f)
=============================================================================
