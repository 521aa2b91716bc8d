--------------------------- MODULE StoreLifecycle ---------------------------
(***************************************************************************)
(* The files of one project's shards: the builder (builder.rs) that makes  *)
(* them and the lifecycle operations (lifecycle.rs) that copy, rename and  *)
(* replace them while a writer of query.rs may hold one open.  Requests on *)
(* different connections overlap; each goes layer by layer.                *)
(*                                                                         *)
(* A name refers to an inode; a writer keeps the inode it opened when the  *)
(* name moves on.  A snapshot is a copy.  Names that carry a time carry it *)
(* to the second.  Shards are in WAL mode: from the first connection that  *)
(* may write until the last one closes in order, part of a file's rows may *)
(* be in a -wal beside it, under the name of the layer.  A rename or a     *)
(* copy moves the .db alone, so such a file and those that take its place  *)
(* beside the foreign -wal are doomed: nothing is assumed of their rows.   *)
(* Left out: archive, which only copies, integrity_check, which only       *)
(* reads, migrate, which does nothing, power failures, permissions, sizes  *)
(* and the columns of meta.db.                                             *)
(***************************************************************************)
EXTENDS Naturals, FiniteSets, Sequences

CONSTANTS
    Layers,         \* shards of the project, in the order of all_per_project
    Conns,          \* connections of the store worker, one request each
    MaxStamp,       \* bound on the clock, in seconds
    MaxRows,        \* bound on rows written
    MaxInodes       \* bound on files created

ASSUME LifecycleAssumption ==
    /\ Layers \in Seq({"graph", "semantic", "history"}) /\ Layers # <<>> /\ IsFiniteSet(Conns)
    /\ {MaxRows, MaxInodes} \subseteq Nat /\ MaxStamp \in Nat \ {0}

VARIABLES
    shard,      \* inode of each shard_db, or 0
    inode,      \* contents: rows, and whether the schema was applied and is sound
    holds,      \* inode the writer of each layer has open, or 0
    logged,     \* layers whose shard has a -wal that holds frames, or may come to
    stray,      \* layers beside whose name another file's -wal may lie
    aside,      \* inodes renamed to <layer>.pre-restore.<second> or .corrupt.<second>
    snaps,      \* snapshots/<second>/<layer>: rows, or NoCopy
    away,       \* rows and inodes that rebuild moved out of the project
    stamp,      \* the clock
    req,        \* the request each connection is working on
    acked,      \* (history) rows acknowledged
    excused,    \* (history) rows that nothing is promised of
    doomed      \* (history) inodes without a name, or apart from their -wal

lifecycleVars == <<shard, inode, holds, logged, stray, aside, snaps, away, stamp, req, acked,
                   excused, doomed>>

LayerSet == {Layers[i] : i \in DOMAIN Layers}
Stamps == 1..MaxStamp
NoCopy == {0}
Fresh1 == [rows |-> {}, schema |-> FALSE, sound |-> TRUE]
AsideNames == {"restore", "repair"} \X Stamps
NoReq == [op |-> "none", todo |-> <<>>, at |-> 0, half |-> FALSE]

LifecycleInit ==
    /\ shard = [l \in LayerSet |-> 0] /\ inode = <<>> /\ holds = [l \in LayerSet |-> 0]
    /\ logged = {} /\ stray = {}
    /\ aside = [l \in LayerSet |-> [n \in AsideNames |-> 0]]
    /\ snaps = [s \in Stamps |-> [l \in LayerSet |-> NoCopy]]
    /\ away = [rows |-> {}, inodes |-> {}] /\ stamp = 1 /\ req = [c \in Conns |-> NoReq] /\ acked = {}
    /\ excused = {} /\ doomed = {}

-----------------------------------------------------------------------------
Used == DOMAIN inode
NewInode(content) ==
    Cardinality(Used) < MaxInodes /\ inode' = [i \in Used \cup {Cardinality(Used) + 1} |->
                                                 IF i \in Used THEN inode[i] ELSE content]
Created == Cardinality(Used) + 1

Asks(c, op, at) ==
    req[c] = NoReq /\ req' = [req EXCEPT ![c] = [op |-> op, todo |-> Layers, at |-> at,
                                                 half |-> FALSE]]
At1(c, op, l) == req[c].op = op /\ l = Head(req[c].todo)
LayerDone(c) ==
    LET left == Tail(req[c].todo)
    IN req' = [req EXCEPT ![c] = IF left = <<>> THEN NoReq
                                 ELSE [@ EXCEPT !.todo = left, !.half = FALSE]]
Answers(c) == req' = [req EXCEPT ![c] = NoReq]

RowsIn(i) == IF i = 0 THEN {} ELSE inode[i].rows
HasCopy(c, l) == req[c].at \in Stamps /\ snaps[req[c].at][l] # NoCopy
\* Between the two halves of a layer of restore or repair.
HalfWay(c, l) == req[c].op \in {"restore", "repair"} /\ req[c].half /\ l = Head(req[c].todo)
GoesHalfWay(c) == req' = [req EXCEPT ![c].half = TRUE]

\* A file under the name of layer l; beside a foreign -wal it is doomed.
Creates(l, content) ==
    /\ shard[l] = 0 /\ NewInode(content)
    /\ shard' = [shard EXCEPT ![l] = Created]
    /\ doomed' = doomed \cup IF l \in stray THEN {Created} ELSE {}

\* build_or_migrate, init_shard: open or create, then the schema, idempotently.
InitShard(c, l) ==
    /\ At1(c, "build", l) /\ LayerDone(c)
    /\ \/ /\ shard[l] # 0 /\ inode' = [inode EXCEPT ![shard[l]].schema = TRUE]
          /\ UNCHANGED <<shard, doomed>>
       \/ Creates(l, [Fresh1 EXCEPT !.schema = TRUE])
    /\ logged' = logged \cup {l}
    /\ UNCHANGED <<holds, stray, aside, snaps, away, stamp, acked, excused>>

\* The first write of a layer opens the shard, creating an empty file if there
\* is none...
WriterOpens(l) ==
    /\ holds[l] = 0
    /\ \/ shard[l] # 0 /\ UNCHANGED <<shard, inode, doomed>>
       \/ Creates(l, Fresh1)
    /\ holds' = [holds EXCEPT ![l] = shard'[l]] /\ logged' = logged \cup {l}
    /\ UNCHANGED <<stray, aside, snaps, away, stamp, req, acked, excused>>

\* ...and every write goes to the file that was opened.  Rows written to a file
\* that is about to be copied over are not promised anything.
WriteRow(l) ==
    /\ holds[l] # 0 /\ inode[holds[l]].schema /\ inode[holds[l]].sound
    /\ Cardinality(acked) < MaxRows
    /\ LET r == Cardinality(acked) + 1
           atRisk == holds[l] \in doomed
                     \/ \E c \in Conns, k \in LayerSet : HalfWay(c, k) /\ shard[k] = holds[l]
       IN /\ inode' = [inode EXCEPT ![holds[l]].rows = @ \cup {r}]
          /\ acked' = acked \cup {r}
          /\ excused' = excused \cup IF atRisk THEN {r} ELSE {}
    /\ UNCHANGED <<shard, holds, logged, stray, aside, snaps, away, stamp, req, doomed>>

\* Another connection that may write: vacuum, the read pool.
Opens(l) ==
    /\ shard[l] # 0 /\ logged' = logged \cup {l}
    /\ UNCHANGED <<shard, inode, holds, stray, aside, snaps, away, stamp, req, acked, excused, doomed>>

\* The last connection to a shard closes: its -wal is written back and removed.
LastCloses(l) ==
    /\ l \in logged /\ holds[l] # shard[l] /\ logged' = logged \ {l}
    /\ UNCHANGED <<shard, inode, holds, stray, aside, snaps, away, stamp, req, acked, excused, doomed>>

\* A doomed file is read and written through the wrong -wal.
Spoils(i) ==
    /\ i \in doomed
    /\ \E rows \in SUBSET inode[i].rows :
         inode' = [inode EXCEPT ![i] = [rows |-> rows, schema |-> @.schema, sound |-> FALSE]]
    /\ UNCHANGED <<shard, holds, logged, stray, aside, snaps, away, stamp, req, acked, excused, doomed>>

-----------------------------------------------------------------------------
\* snapshot: the online backup of one layer, into the directory of the second
\* in which the request began; an earlier copy there is overwritten.  A backup
\* that breaks off leaves a part of the rows, and ends the request.
SnapshotLayer(c, l) ==
    /\ At1(c, "snapshot", l) /\ shard[l] # 0
    /\ \E rows \in SUBSET RowsIn(shard[l]) :
         /\ IF rows = RowsIn(shard[l]) THEN LayerDone(c) ELSE Answers(c)
         /\ snaps' = [snaps EXCEPT ![req[c].at][l] = rows]
         /\ excused' = excused \cup (snaps[req[c].at][l] \ rows)
    /\ UNCHANGED <<shard, inode, holds, logged, stray, aside, away, stamp, acked, doomed>>

\* Nothing is promised of these files any more.
GivesUp(files) ==
    doomed' = doomed \cup files /\ excused' = excused \cup UNION {RowsIn(i) : i \in files}

\* The shard of layer l, if it would part from its -wal; that stays.
Loose(l) == IF l \in logged THEN {shard[l]} ELSE {}
LeavesLog(l) == stray' = IF l \in logged THEN stray \cup {l} ELSE stray

\* A rename destroys what had the new name.
Renames(l, name) ==
    /\ aside' = [aside EXCEPT ![l][name] = shard[l]]
    /\ shard' = [shard EXCEPT ![l] = 0]
    /\ GivesUp(({aside[l][name]} \ {0}) \cup Loose(l)) /\ LeavesLog(l) /\ logged' = logged \ {l}

\* restore, first half of a layer: an existing shard is renamed out of the way.
MoveAside_Not(c, l) ==
    /\ At1(c, "restore", l) /\ ~req[c].half /\ HasCopy(c, l)
    /\ GoesHalfWay(c)
    /\ UNCHANGED <<shard, inode, holds, logged, stray, aside, snaps, away, stamp, acked, excused, doomed>>
MoveAside(c, l) ==
    /\ At1(c, "restore", l) /\ ~req[c].half /\ HasCopy(c, l)
    /\ GoesHalfWay(c)
    /\ IF shard[l] = 0 THEN UNCHANGED <<shard, logged, stray, aside, excused, doomed>>
       ELSE Renames(l, <<"restore", stamp>>)
    /\ UNCHANGED <<inode, holds, snaps, away, stamp, acked>>

\* Second half, of repair too: fs::copy, which writes into the file if there is
\* one by now.  It may break off; the request ends.
Copied(l, content) ==
    \/ /\ shard[l] # 0 /\ inode' = [inode EXCEPT ![shard[l]] = content]
       /\ doomed' = doomed \cup Loose(l) /\ LeavesLog(l)
       /\ UNCHANGED shard
    \/ Creates(l, content) /\ UNCHANGED stray

CopyBack(c, l) ==
    /\ HalfWay(c, l) /\ HasCopy(c, l)
    /\ \/ LayerDone(c) /\ Copied(l, [rows |-> snaps[req[c].at][l], schema |-> TRUE, sound |-> TRUE])
       \/ Answers(c) /\ Copied(l, [rows |-> {}, schema |-> TRUE, sound |-> FALSE])
    /\ UNCHANGED <<holds, logged, aside, snaps, away, stamp, acked, excused>>

-----------------------------------------------------------------------------
\* The list of snapshots is sorted by name, newest first; repair asks for it
\* before it begins.
Latest == {s \in Stamps : /\ \E l \in LayerSet : snaps[s][l] # NoCopy
                          /\ \A t \in Stamps : t > s => \A l \in LayerSet : snaps[t][l] = NoCopy}

\* repair of a layer: VACUUM and REINDEX may mend it...
RepairMends(c, l) ==
    /\ At1(c, "repair", l) /\ ~req[c].half /\ UNCHANGED req
    /\ \/ /\ shard[l] # 0 /\ inode' = [inode EXCEPT ![shard[l]].sound = TRUE]
          /\ UNCHANGED <<shard, doomed>>
       \/ Creates(l, Fresh1)
    /\ logged' = logged \cup {l}
    /\ UNCHANGED <<holds, stray, aside, snaps, away, stamp, acked, excused>>

\* ...if not, a snapshot replaces it.  A rename that fails is ignored, and the
\* copy is made over the shard.
RepairMoves(c, l) ==
    /\ At1(c, "repair", l) /\ ~req[c].half /\ HasCopy(c, l)
    /\ shard[l] # 0 /\ ~inode[shard[l]].sound
    /\ GoesHalfWay(c)
    /\ \/ Renames(l, <<"repair", stamp>>)
       \/ excused' = excused \cup RowsIn(shard[l]) /\ UNCHANGED <<shard, logged, stray, aside, doomed>>
    /\ UNCHANGED <<inode, holds, snaps, away, stamp, acked>>

\* A layer with nothing to copy, or that repair finds or makes sound.
SkipLayer(c, l) ==
    /\ \/ At1(c, "snapshot", l) /\ shard[l] = 0
       \/ At1(c, "restore", l) /\ ~req[c].half /\ ~HasCopy(c, l)
       \/ At1(c, "repair", l) /\ ~req[c].half
    /\ LayerDone(c)
    /\ UNCHANGED <<shard, inode, holds, logged, stray, aside, snaps, away, stamp, acked, excused, doomed>>

\* Any step may fail: the request ends with the layers it has got to.
RequestFails(c) ==
    /\ req[c] # NoReq /\ Answers(c)
    /\ UNCHANGED <<shard, inode, holds, logged, stray, aside, snaps, away, stamp, acked, excused, doomed>>

-----------------------------------------------------------------------------
Inodes ==
    {i \in Used : \E l \in LayerSet : i = shard[l] \/ \E n \in AsideNames : i = aside[l][n]}
Kept ==
    UNION ({RowsIn(i) : i \in Inodes} \cup {snaps[s][l] : s \in Stamps, l \in LayerSet})

EmptyProject ==
    /\ shard' = [l \in LayerSet |-> 0] /\ logged' = {} /\ stray' = {}
    /\ aside' = [l \in LayerSet |-> [n \in AsideNames |-> 0]]
    /\ snaps' = [s \in Stamps |-> [l \in LayerSet |-> NoCopy]]

\* rebuild with archive renames the project directory, -wal, open files and all...
RebuildArchives ==
    /\ Inodes # {} /\ EmptyProject
    /\ away' = [rows |-> away.rows \cup Kept, inodes |-> away.inodes \cup Inodes]
    /\ UNCHANGED <<inode, holds, stamp, req, acked, excused, doomed>>

\* ...purge with its token, and rebuild without archive, remove it.
Purge ==
    /\ Inodes # {} /\ EmptyProject
    /\ excused' = excused \cup Kept /\ doomed' = doomed \cup Inodes
    /\ UNCHANGED <<inode, holds, away, stamp, req, acked>>

-----------------------------------------------------------------------------
\* A file is damaged.
Damage(l) ==
    /\ shard[l] # 0 /\ inode[shard[l]].sound
    /\ inode' = [inode EXCEPT ![shard[l]].sound = FALSE]
    /\ UNCHANGED <<shard, holds, logged, stray, aside, snaps, away, stamp, req, acked, excused, doomed>>

\* The store worker exits or is killed: its requests end; connections that close
\* in order take their -wal with them, others leave it.
WorkerExits ==
    /\ holds' = [l \in LayerSet |-> 0] /\ req' = [c \in Conns |-> NoReq]
    /\ logged' \in SUBSET logged
    /\ UNCHANGED <<shard, inode, stray, aside, snaps, away, stamp, acked, excused, doomed>>

NextSecond ==
    /\ stamp < MaxStamp /\ stamp' = stamp + 1
    /\ UNCHANGED <<shard, inode, holds, logged, stray, aside, snaps, away, req, acked, excused, doomed>>

Request(c) ==
    /\ \/ Asks(c, "build", 0) \/ Asks(c, "snapshot", stamp)
       \/ \E s \in Stamps : (\E l \in LayerSet : snaps[s][l] # NoCopy) /\ Asks(c, "restore", s)
       \/ \E s \in Latest : Asks(c, "repair", s)
       \/ Latest = {} /\ Asks(c, "repair", 0)
    /\ UNCHANGED <<shard, inode, holds, logged, stray, aside, snaps, away, stamp, acked, excused, doomed>>

LifecycleNext ==
    \/ \E c \in Conns : Request(c) \/ RequestFails(c)
    \/ \E c \in Conns, l \in LayerSet :
        InitShard(c, l) \/ SnapshotLayer(c, l) \/ MoveAside(c, l) \/ SkipLayer(c, l)
        \/ CopyBack(c, l) \/ RepairMends(c, l) \/ RepairMoves(c, l)
    \/ \E l \in LayerSet : WriterOpens(l) \/ WriteRow(l) \/ Opens(l) \/ LastCloses(l) \/ Damage(l)
    \/ \E i \in Used : Spoils(i)
    \/ RebuildArchives \/ Purge \/ WorkerExits \/ NextSecond

LifecycleSpec == LifecycleInit /\ [][LifecycleNext]_lifecycleVars

-----------------------------------------------------------------------------
\* Every acknowledged row stays in a file of the project or in an archive, through
\* snapshots that break off, restores and repairs that stop half-way, a clash
\* with the writer, rebuilds and restarts.  Not promised are rows that were
\*  - in a file whose new name another operation chose in the same second;
\*  - in a file that restore or repair moved or copied over while it had a -wal:
\*    a connection was open, or a kill had left it there; or written to a file
\*    that took its place before the project was emptied;
\*  - in a file that repair could not rename, or that was about to be copied over;
\*  - in what purge, or rebuild without archive, removed.
RowsSurvive ==
    acked \ excused \subseteq
        Kept \cup away.rows \cup UNION {RowsIn(i) : i \in away.inodes}

\* The inductive strengthening of RowsSurvive.  A file that exists has a name in
\* the project or in an archive, or is doomed; every row of a doomed file is in
\* a copy or excused; and while a restore or a repair is half-way through a layer,
\* so is every row of the file that stands in its place, so that copying over it
\* destroys nothing.
Copies == away.rows \cup excused \cup UNION {snaps[s][l] : s \in Stamps, l \in LayerSet}

LifecycleContent == [rows : SUBSET Nat, schema : BOOLEAN, sound : BOOLEAN]
LifecycleRequest == [op : {"build", "snapshot", "restore", "repair"}, todo : Seq(LayerSet) \ {<<>>},
                     at : Stamps \cup {0}, half : BOOLEAN]
FilesOK ==
    /\ \E n \in 0 .. MaxInodes : Used = 1 .. n
    /\ inode \in [Used -> LifecycleContent]
    /\ shard \in [LayerSet -> Used \cup {0}] /\ holds \in [LayerSet -> Used \cup {0}]
    /\ doomed \subseteq Used
    /\ aside \in [LayerSet -> [AsideNames -> Used \cup {0}]]
    /\ snaps \in [Stamps -> [LayerSet -> SUBSET Nat]]
    /\ away \in [rows : SUBSET Nat, inodes : SUBSET Used]
    /\ stamp \in Stamps /\ \E n \in 0 .. MaxRows : acked = 1 .. n
RequestsOK ==
    /\ req \in [Conns -> {NoReq} \cup LifecycleRequest]
    /\ \A c \in Conns : req[c].op \in {"snapshot", "restore"} => req[c].at \in Stamps
LifecycleTypeOK == FilesOK /\ RequestsOK

LifecycleInv ==
    /\ LifecycleTypeOK /\ RowsSurvive
    /\ Used \subseteq Inodes \cup away.inodes \cup doomed
    /\ \A i \in doomed : inode[i].rows \subseteq Copies
    /\ \A c \in Conns, l \in LayerSet : HalfWay(c, l) => RowsIn(shard[l]) \subseteq Copies
=============================================================================
