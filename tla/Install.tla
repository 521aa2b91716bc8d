------------------------------ MODULE Install -------------------------------
(***************************************************************************)
(* `mneme install`, `uninstall`, `register-mcp`, `unregister-mcp` and      *)
(* `rollback` (cli/src/commands, receipts.rs, markers.rs) on the files of  *)
(* the platforms in module Platforms.  One command runs at a time, file by *)
(* file; between its steps the user (or the host) edits files, the clock   *)
(* moves, a write fails or the command dies.                               *)
(*                                                                         *)
(* A file's content keeps what the commands tell apart: which text of the  *)
(* user it holds, what is in mneme's own section, whether mneme has        *)
(* printed or padded the rest, whether a config parses.  A SHA-256 is the  *)
(* content itself.  Left out: --dry-run and --list, which write nothing,   *)
(* the `.bak` alias, which nothing reads, and PATH and Defender actions,   *)
(* which no command records.                                               *)
(***************************************************************************)
EXTENDS Integers, Sequences, FiniteSets, Platforms

CONSTANTS
    Named,          \* platforms given with --platform
    AutoDetect,     \* whether commands without --platform are run
    PresentPlatforms,   \* platforms whose directory detect() finds
    Scopes,         \* scopes in use
    MaxSeconds,     \* bound on the clock, which backups are named after
    MaxEvents,      \* bound on edits, failed writes and crashes together
    MaxCommands     \* bound on commands started

ASSUME InstallAssumption ==
    /\ Named \cup PresentPlatforms \subseteq ToSet(AllKnown) /\ AutoDetect \in BOOLEAN
    /\ Scopes \subseteq {"user", "project"} /\ "user" \in Scopes
    /\ {MaxSeconds, MaxEvents, MaxCommands} \subseteq Nat /\ MaxSeconds >= 1

VARIABLES
    files,      \* content of each file, or Gone
    baks,       \* file.mneme-<second>.bak
    seconds,    \* the clock
    receipts,   \* ~/.mneme/install-receipts, oldest first
    cmd,        \* the running command
    events,     \* edits and faults so far; the number of an edit is its text
    wrote,      \* (history) the last text the user left in each file
    clobbered,  \* (history) files with a backup overwritten by a different one
    undo        \* (history) the files as the last install found them

installVars == <<files, baks, seconds, receipts, cmd, events, wrote, clobbered, undo>>

Targets ==
    {<<p>> : p \in Named} \cup IF AutoDetect THEN {DetectInstalled(PresentPlatforms)} ELSE {}
PathsOf(p, scope) ==
    {ManifestPath(p, scope), McpConfigPath(p, scope), HooksPath(p, scope)} \ {""}
Files == UNION {PathsOf(p, s) : p \in UNION {ToSet(t) : t \in Targets}, s \in Scopes}
Seconds == 1..MaxSeconds
Nothing == [user |-> 0, mneme |-> "none", made |-> FALSE, valid |-> TRUE]
Gone == [Nothing EXCEPT !.mneme = "gone"]   \* no file
Torn == [Nothing EXCEPT !.valid = FALSE]    \* a write cut off after the truncation

NoCommand == [op |-> "idle", todo |-> <<>>, done |-> <<>>, force |-> FALSE]

InstallInit ==
    /\ files \in [Files -> {Gone, [Nothing EXCEPT !.user = 1]}]
    /\ \A f, g \in Files : files[f] = files[g]
    /\ baks = [f \in Files |-> [s \in Seconds |-> Gone]]
    /\ seconds = 1 /\ receipts = <<>> /\ cmd = NoCommand /\ events = 1
    /\ wrote = [f \in Files |-> IF files[f] = Gone THEN 0 ELSE 1]
    /\ clobbered = {} /\ undo = [clean |-> FALSE, left |-> MaxCommands, files |-> files]

-----------------------------------------------------------------------------
(* The writers.  Each gives the new content of a file, or WriteFailed.          *)
WriteFailed == [Nothing EXCEPT !.mneme = "failed"]

\* MarkerInjector::inject: an edited block is only replaced with --force; a
\* new block is set off from the user's text by blank lines.
Inject(c, force) ==
    IF c.mneme = "edited" /\ ~force THEN WriteFailed
    ELSE [c EXCEPT !.mneme = "ours",
                   !.made = @ \/ (c.mneme = "none" /\ c.user # 0)]

\* MarkerInjector::remove: the block goes, edited or not; the blank lines stay.
RemoveBlock(c) == [c EXCEPT !.mneme = "none"]

\* merge_mcp_json_object, merge_mcp_json_array, merge_mcp_toml.
Merge(c) == IF c.valid THEN [c EXCEPT !.mneme = "ours", !.made = TRUE] ELSE WriteFailed

\* strip_mcp_json_object, strip_mcp_json_array, strip_mcp_toml.
Strip(writer, c) ==
    IF writer = "append" \/ ~c.valid THEN WriteFailed
    ELSE [c EXCEPT !.mneme = IF writer = "zed" THEN @ ELSE "none", !.made = TRUE]

Event == events < MaxEvents /\ events' = events + 1

Existing(f) == IF files[f] = Gone THEN Nothing ELSE files[f]

\* write_manifest, write_mcp_config, write_hooks, remove_manifest and
\* remove_mcp_config: the content the step at the head of the command writes.
\* Removals leave an absent file absent.
Written(s) ==
    LET c == Existing(s.file)
    IN CASE s.what = "manifest" -> Inject(c, cmd.force)
         [] s.what = "mcp" /\ AdapterOf(s.p).writer # "append" -> Merge(c)
         [] s.what = "mcp" /\ AdapterOf(s.p).writer = "append" -> [c EXCEPT !.mneme = "ours"]
         [] s.what = "hooks" ->
                IF AdapterOf(s.p).hooks.writer = "plain" THEN Merge(Nothing) ELSE Merge(c)
         [] s.what \in {"unmanifest", "unmcp"} /\ files[s.file] = Gone -> Gone
         [] s.what = "unmanifest" /\ files[s.file] # Gone -> RemoveBlock(c)
         [] s.what = "unmcp" /\ files[s.file] # Gone -> Strip(AdapterOf(s.p).writer, c)

\* Aider's snippet is not appended twice; an absent file is not cleaned.
NoWrite(s) ==
    \/ s.what = "mcp" /\ AdapterOf(s.p).writer = "append" /\ Existing(s.file).mneme # "none"
    \/ s.what \in {"unmanifest", "unmcp"} /\ files[s.file] = Gone

BacksUp_Never(s) == FALSE
BacksUp(s) ==
    files[s.file] # Gone /\ ~(s.what = "hooks" /\ AdapterOf(s.p).hooks.writer = "plain")

\* The copy half of backup_then_write: the name is only as fine as a second.
Backup(s) ==
    IF BacksUp(s) THEN [baks EXCEPT ![s.file][seconds] = files[s.file]] ELSE baks

\* find_latest_mneme_bak.
LatestBak(b) ==
    {x \in Seconds : b[x] # Gone /\ \A y \in Seconds : y > x => b[y] = Gone}

\* A backup of the same second is overwritten by this one.
Clobbers(s) ==
    IF BacksUp(s) /\ baks[s.file][seconds] \notin {Gone, files[s.file]} THEN {s.file} ELSE {}

-----------------------------------------------------------------------------
(* The commands.                                                           *)
FileStep(what, p, file) == [what |-> what, p |-> p, file |-> file]

InstallSteps(p, scope, skipManifest, skipHooks) ==
    (IF skipManifest THEN <<>> ELSE <<FileStep("manifest", p, ManifestPath(p, scope))>>)
    \o <<FileStep("mcp", p, McpConfigPath(p, scope))>>
    \o (IF skipHooks \/ HooksPath(p, scope) = "" THEN <<>>
        ELSE <<FileStep("hooks", p, HooksPath(p, scope))>>)

Starts == cmd = NoCommand /\ undo.left > 0
Begin(op, todo, force) ==
    cmd' = [op |-> op, todo |-> todo, done |-> <<>>, force |-> force]

\* install::run; register-mcp skips the manifest and the hooks.
StartInstall(ts, scope, skips) ==
    /\ Starts
    /\ \E force \in IF skips THEN {FALSE} ELSE BOOLEAN :
        Begin("install", FlattenSeq([i \in 1..Len(ts) |->
                                        InstallSteps(ts[i], scope, skips, skips)]), force)
    /\ undo' = [clean |-> scope = "user", left |-> undo.left - 1, files |-> files]
    /\ UNCHANGED <<files, baks, seconds, receipts, events, wrote, clobbered>>

\* uninstall::run, which unregister-mcp calls as it is: manifests go too.
StartUninstall(ts, scope) ==
    /\ Starts
    /\ Begin("uninstall",
             FlattenSeq([i \in 1..Len(ts) |->
                <<FileStep("unmanifest", ts[i], ManifestPath(ts[i], scope)),
                  FileStep("unmcp", ts[i], McpConfigPath(ts[i], scope))>>]), FALSE)
    /\ undo' = [undo EXCEPT !.clean = FALSE, !.left = @ - 1]
    /\ UNCHANGED <<files, baks, seconds, receipts, events, wrote, clobbered>>

\* The actions install_one pushes after a step; b holds the backups of the file.
\* A hook file is only recorded when there is one, a created one is not.
Record(what, s, bak, after) ==
    [what |-> what, p |-> s.p, file |-> s.file, bak |-> bak, after |-> after]

\* sha256_of_file, taken once the file is written.
ShaAfter_TooEarly(before, new) == before
ShaAfter(before, new) == new

Recorded(s, before, new, b) ==
    LET sha == ShaAfter(before, new)
        touched == IF before # Gone \/ s.what = "hooks"
                   THEN SetToSeq({Record("modified", s, x, sha) : x \in LatestBak(b)})
                   ELSE <<Record("created", s, 0, sha)>>
    IN touched \o IF s.what = "mcp" THEN <<Record("registered", s, 0, sha)>> ELSE <<>>

\* One file of a running install or uninstall.  An error ends the platform, whose
\* steps come first, in an install and only the step in an uninstall.
Rest(s, failed) ==
    LET ofPlatform == {i \in DOMAIN cmd.todo : cmd.todo[i].p = s.p}
    IN  IF failed /\ cmd.op = "install"
        THEN SubSeq(cmd.todo, Cardinality(ofPlatform) + 1, Len(cmd.todo)) ELSE Tail(cmd.todo)

Writing == cmd.op \in {"install", "uninstall"} /\ cmd.todo # <<>>

StepWrites ==
    /\ Writing /\ Written(Head(cmd.todo)) # WriteFailed
    /\ LET s == Head(cmd.todo)
           quiet == NoWrite(s)
           new == IF quiet THEN files[s.file] ELSE Written(s)
           b == IF quiet THEN baks ELSE Backup(s)
           pushed == IF cmd.op = "install"
                     THEN Recorded(s, files[s.file], new, b[s.file])
                     ELSE <<>>
       IN /\ files' = [files EXCEPT ![s.file] = new] /\ baks' = b
          /\ cmd' = [cmd EXCEPT !.todo = Rest(s, FALSE), !.done = @ \o pushed]
          /\ clobbered' = clobbered \cup IF quiet THEN {} ELSE Clobbers(s)
    /\ UNCHANGED <<seconds, receipts, events, wrote, undo>>

\* A config that does not parse, an edited block, or an I/O error before or
\* after the backup.
StepFails ==
    /\ Event
    /\ Writing
    /\ LET s == Head(cmd.todo)
       IN /\ \E copied \in IF Written(s) = WriteFailed \/ NoWrite(s) THEN {FALSE} ELSE BOOLEAN :
                /\ baks' = IF copied THEN Backup(s) ELSE baks
                /\ clobbered' = clobbered \cup IF copied THEN Clobbers(s) ELSE {}
          /\ cmd' = [cmd EXCEPT !.todo = Rest(s, TRUE)]
    /\ undo' = [undo EXCEPT !.clean = FALSE]
    /\ UNCHANGED <<files, seconds, receipts, wrote>>

\* The receipt is saved when the last file is written, if it says anything;
\* a failure to save it is only logged.
Finishes ==
    /\ cmd.op \in {"install", "uninstall"} /\ cmd.todo = <<>>
    /\ cmd' = NoCommand
    /\ \/ cmd.done # <<>> /\ receipts' = Append(receipts, cmd.done) /\ UNCHANGED undo
       \/ receipts' = receipts /\ undo' = [undo EXCEPT !.clean = FALSE]
    /\ UNCHANGED <<files, baks, seconds, events, wrote, clobbered>>

\* rollback::run: a receipt, the newest one unless an id is given, newest
\* action first.
StartRollback(n) ==
    /\ Starts /\ n \in DOMAIN receipts
    /\ Begin("rollback", Reverse(receipts[n]), FALSE)
    /\ undo' = [undo EXCEPT !.clean = @ /\ n = Len(receipts), !.left = @ - 1]
    /\ UNCHANGED <<files, baks, seconds, receipts, events, wrote, clobbered>>

Drifted_Never(a) == FALSE
\* Drift detection: the file is there and is not what the install left.
Drifted(a) == files[a.file] \notin {Gone, a.after}

Undoing(what) == cmd.op = "rollback" /\ cmd.todo # <<>> /\ Head(cmd.todo).what = what
Undone == cmd' = [cmd EXCEPT !.todo = Tail(@)]

\* rollback_file_modified: the file is replaced without a backup of its own.
UndoModified ==
    /\ Undoing("modified") /\ Undone
    /\ LET a == Head(cmd.todo)
       IN files' = IF Drifted(a) \/ baks[a.file][a.bak] = Gone THEN files
                   ELSE [files EXCEPT ![a.file] = baks[a.file][a.bak]]
    /\ UNCHANGED <<baks, seconds, receipts, events, wrote, undo, clobbered>>

\* rollback_file_created.
UndoCreated ==
    /\ Undoing("created") /\ Undone
    /\ LET a == Head(cmd.todo)
       IN files' = IF Drifted(a) THEN files ELSE [files EXCEPT ![a.file] = Gone]
    /\ UNCHANGED <<baks, seconds, receipts, events, wrote, undo, clobbered>>

\* rollback_mcp_entry: the entry is stripped from the registry of the user
\* scope, whatever host file the receipt names.
UndoRegistered ==
    /\ Undoing("registered") /\ Undone
    /\ LET a == Head(cmd.todo)
           s == FileStep("unmcp", a.p, McpConfigPath(a.p, "user"))
           writes == ~NoWrite(s) /\ Written(s) # WriteFailed
       IN /\ files' = IF writes THEN [files EXCEPT ![s.file] = Written(s)] ELSE files
          /\ baks' = IF writes THEN Backup(s) ELSE baks
          /\ clobbered' = clobbered \cup IF writes THEN Clobbers(s) ELSE {}
    /\ UNCHANGED <<seconds, receipts, events, wrote, undo>>

RolledBack ==
    /\ cmd.op = "rollback" /\ cmd.todo = <<>>
    /\ cmd' = [NoCommand EXCEPT !.op = "rolled back"]
    /\ UNCHANGED <<files, baks, seconds, receipts, events, wrote, undo, clobbered>>

\* The summary of the rollback is on the screen; the next command may start.
Prompt ==
    /\ cmd.op = "rolled back" /\ cmd' = NoCommand
    /\ undo' = [undo EXCEPT !.clean = FALSE]
    /\ UNCHANGED <<files, baks, seconds, receipts, events, wrote, clobbered>>

-----------------------------------------------------------------------------
(* The rest of the world.                                                  *)

\* The process dies, between two steps or inside a write: std::fs::write
\* truncates the file first.
Dies ==
    /\ Event
    /\ cmd.op \in {"install", "uninstall", "rollback"}
    /\ cmd' = NoCommand /\ undo' = [undo EXCEPT !.clean = FALSE]
    /\ \/ UNCHANGED <<files, baks, clobbered>>
       \/ /\ Writing
          /\ LET s == Head(cmd.todo)
             IN /\ Written(s) # WriteFailed /\ ~NoWrite(s)
                /\ baks' = Backup(s) /\ files' = [files EXCEPT ![s.file] = Torn]
                /\ clobbered' = clobbered \cup Clobbers(s)
    /\ UNCHANGED <<seconds, receipts, wrote>>

Tick ==
    /\ seconds < MaxSeconds /\ seconds' = seconds + 1
    /\ UNCHANGED <<files, baks, receipts, cmd, events, wrote, undo, clobbered>>

\* The user writes a text, touches mneme's section, leaves a config that does
\* not parse, or deletes the file.
UserEdits(f) ==
    /\ Event
    /\ undo' = [undo EXCEPT !.clean = FALSE]
    /\ LET c == Existing(f)
       IN \/ /\ \E ok \in BOOLEAN : files' = [files EXCEPT ![f] =
                                        [c EXCEPT !.user = events', !.valid = ok]]
             /\ wrote' = [wrote EXCEPT ![f] = events']
          \/ /\ c.mneme = "ours" /\ files' = [files EXCEPT ![f].mneme = "edited"]
             /\ UNCHANGED wrote
          \/ /\ files[f] # Gone /\ files' = [files EXCEPT ![f] = Gone]
             /\ wrote' = [wrote EXCEPT ![f] = 0]
    /\ UNCHANGED <<baks, seconds, receipts, cmd, clobbered>>

InstallNext ==
    \/ \E ts \in Targets, scope \in Scopes :
        (\E skips \in BOOLEAN : StartInstall(ts, scope, skips)) \/ StartUninstall(ts, scope)
    \/ \E n \in 1..MaxCommands : StartRollback(n)
    \/ StepWrites \/ StepFails \/ Finishes
    \/ UndoModified \/ UndoCreated \/ UndoRegistered \/ RolledBack \/ Prompt
    \/ Dies \/ Tick \/ \E f \in Files : UserEdits(f)

InstallSpec == InstallInit /\ [][InstallNext]_installVars

-----------------------------------------------------------------------------
\* No command destroys what the user wrote: the last text the user left in a
\* file is in the file or in one of its backups, through re-installs, edits
\* between install and rollback, failed writes and crashes in the middle of one,
\* unless two backups of the file fell into one second.
UserTextIsSafe ==
    \A f \in Files :
        wrote[f] # 0 /\ f \notin clobbered =>
            \E c \in {files[f]} \cup {baks[f][s] : s \in Seconds} :
                c # Gone /\ c.user = wrote[f]

\* The section mneme keeps in a file, as its platform sees it.
MnemeIn(c) == IF c = Gone THEN "none" ELSE c.mneme

\* A rollback of the last install, when nothing else happened since it began
\* and no two backups of a file fell into one second, leaves every file the
\* receipt names with the user's text it had before and without any section that
\* the install added.  (Not so a hook file that the install created: it is
\* recorded with whatever backup an earlier file of that name left behind.)
RollbackUndoesInstall ==
    cmd.op = "rolled back" /\ undo.clean /\ clobbered = {} =>
        \A i \in DOMAIN Last(receipts) :
            LET f == Last(receipts)[i].file
                before == undo.files[f]
                hook == \E p \in ToSet(AllKnown) : f = HooksPath(p, "user")
            IN ~(hook /\ before = Gone) =>
                /\ MnemeIn(files[f]) \in {"none", MnemeIn(before)}
                /\ Existing(f).user = before.user
-----------------------------------------------------------------------------
(* The invariant behind UserTextIsSafe, which is proved in CommandProofs for    *)
(* every set of platforms whose writers make a copy first.                      *)
Used == UNION {ToSet(t) : t \in Targets}

\* Files that Aider's writer appends to without parsing, or that a hook writer
\* replaces without a copy.
Unkept == {f \in Files : \E p \in Used, scope \in Scopes :
              \/ AdapterOf(p).writer = "append" /\ f = McpConfigPath(p, scope)
              \/ AdapterOf(p).hooks.writer = "plain" /\ f = HooksPath(p, scope)}

Contents ==
    [user : Nat, mneme : {"none", "ours", "edited"}, made : BOOLEAN, valid : BOOLEAN] \cup {Gone}
Steps(whats) ==
    {s \in [what : whats, p : Used, file : Files] : s.file \notin Unkept =>
        /\ s.what = "mcp" => AdapterOf(s.p).writer # "append"
        /\ s.what = "hooks" => AdapterOf(s.p).hooks.writer # "plain"}
Actions ==
    {a \in [what : {"modified", "created", "registered"}, p : Used, file : Files,
            bak : 0..MaxSeconds, after : Contents] : a.what = "modified" => a.bak # 0}
TodoOf(op) ==
    CASE op = "install" -> Seq(Steps({"manifest", "mcp", "hooks"}))
      [] op = "uninstall" -> Seq(Steps({"unmanifest", "unmcp"}))
      [] op = "rollback" -> Seq(Actions)
      [] op \in {"idle", "rolled back"} -> {<<>>}

InstallTypeOK ==
    /\ files \in [Files -> Contents] /\ baks \in [Files -> [Seconds -> Contents]]
    /\ seconds \in Seconds /\ events \in Nat \ {0} /\ wrote \in [Files -> Nat]
    /\ receipts \in Seq(Seq(Actions)) /\ clobbered \subseteq Files
    /\ \E op \in {"idle", "install", "uninstall", "rollback", "rolled back"} :
          cmd \in [op : {op}, todo : TodoOf(op), done : Seq(Actions), force : BOOLEAN]

BackedUp(bs, f, text) == \E s \in Seconds : bs[f][s] # Gone /\ bs[f][s].user = text

\* What an action of a receipt left in its file may be undone: the text of the
\* user in it has a copy.
Undoable(a) ==
    a.file \in Unkept \cup clobbered \/ a.after.user = 0 \/ BackedUp(baks, a.file, a.after.user)

\* The actions the running command or a receipt names.
Saved == UNION {ToSet(receipts[n]) : n \in DOMAIN receipts}
Noted ==
    ToSet(cmd.done) \cup Saved \cup IF cmd.op = "rollback" THEN ToSet(cmd.todo) ELSE {}

TextInv ==
    /\ InstallTypeOK
    /\ \A f \in Files \ (Unkept \cup clobbered) : wrote[f] # 0 =>
           BackedUp(baks, f, wrote[f]) \/ (files[f] # Gone /\ files[f].user = wrote[f])
    /\ \A a \in Noted : Undoable(a)

-----------------------------------------------------------------------------
(* The invariant behind RollbackUndoesInstall, proved there too: what the       *)
(* receipt says of a file is a chain from what the install found to what it     *)
(* left, which the rollback goes back along, link by link.                      *)

\* A file the chain is about: one that is copied before it is written, and no
\* hook file that the install created.  found holds the files as it found them.
Tracked(found, f) ==
    f \in Files \ Unkept
    /\ ~((\E p \in ToSet(AllKnown) : f = HooksPath(p, "user")) /\ found[f] = Gone)

\* What the first k actions of a receipt left in a file.
Left(found, r, k, f, content) ==
    \/ \E j \in 1..k : /\ r[j].file = f /\ r[j].after = content
                       /\ \A i \in j + 1..k : r[i].file # f
    \/ (\A i \in 1..k : r[i].file # f) /\ content = found[f]

\* An action went from what was there to mneme's own, and says how to go back.
Link(found, bs, r, i) ==
    LET a == r[i]
    IN  /\ a.what = "registered" => a.file = McpConfigPath(a.p, "user")
        /\ Tracked(found, a.file) =>
            /\ a.after # Gone /\ a.after.mneme = "ours" /\ a.after.user = found[a.file].user
            /\ a.what = "modified" =>
                  bs[a.file][a.bak] # Gone /\ Left(found, r, i - 1, a.file, bs[a.file][a.bak])
            /\ a.what = "created" => Left(found, r, i - 1, a.file, Gone)
            /\ a.what = "registered" => a.after.made /\ Left(found, r, i - 1, a.file, a.after)
Chain(found, bs, r) == \A i \in 1..Len(r) : Link(found, bs, r, i)

\* A file whose entry the rollback has stripped, and so does not go back further.
Stripped(found, f, content) ==
    content # Gone /\ content.mneme = "none" /\ content.user = found[f].user

UserSteps ==
    {s \in Steps({"manifest", "mcp", "hooks"}) :
        /\ s.what = "mcp" => s.file = McpConfigPath(s.p, "user")
        /\ s.what = "hooks" => s.file = HooksPath(s.p, "user")}

ChainTo(r) ==
    /\ Chain(undo.files, baks, r)
    /\ \A f \in Files : Tracked(undo.files, f) => Left(undo.files, r, Len(r), f, files[f])
RollingBack(r) ==
    /\ Chain(undo.files, baks, r) /\ Len(cmd.todo) <= Len(r)
    /\ \A i \in 1..Len(cmd.todo) : cmd.todo[i] = r[Len(cmd.todo) + 1 - i]
    /\ \A f \in Files : Tracked(undo.files, f) =>
          Left(undo.files, r, Len(cmd.todo), f, files[f]) \/ Stripped(undo.files, f, files[f])
BackAgain ==
    \A f \in Files : Tracked(undo.files, f) =>
        files[f] = undo.files[f] \/ Stripped(undo.files, f, files[f])

NoneLater == \A f \in Files : \A x \in Seconds : x > seconds => baks[f][x] = Gone
OnTheWay ==
    /\ cmd.op # "uninstall"
    /\ cmd.op = "install" => cmd.todo \in Seq(UserSteps) /\ ChainTo(cmd.done)
    /\ cmd.op = "idle" => receipts # <<>> /\ ChainTo(Last(receipts))
    /\ cmd.op = "rollback" => receipts # <<>> /\ RollingBack(Last(receipts))
    /\ cmd.op = "rolled back" => receipts # <<>> /\ BackAgain

UndoInv ==
    /\ TextInv
    /\ undo \in [clean : BOOLEAN, left : Int, files : [Files -> Contents]]
    /\ NoneLater
    /\ undo.clean /\ clobbered = {} => OnTheWay
=============================================================================
