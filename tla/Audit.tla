------------------------------- MODULE Audit -------------------------------
(***************************************************************************)
(* `mneme audit` without a supervisor that knows the command               *)
(* (cli/src/commands/audit.rs) and the scanner process it spawns in        *)
(* orchestrator mode (scanners/src/main.rs), joined by three pipes, and    *)
(* the transaction that stores the findings (findings_writer.rs).          *)
(*                                                                         *)
(* The project is a sequence of files in walk order.  A file is skipped    *)
(* (ignored, not scannable, too old for --scope=diff, binary), unreadable, *)
(* or scanned; a finding is its severity rank and its place.  A scanner    *)
(* that panics leaves a message on stderr, which nobody reads.             *)
(***************************************************************************)
EXTENDS Naturals, Sequences

CONSTANTS
    Project,     \* sequence of [walk, finds, panics]: see FileKinds
    Floors,      \* severity floors a user may pass; 0 is critical, 3 is info
    PipeCap,     \* lines a pipe holds
    MaxAudits    \* bound on the audits of one behaviour

Walks == {"skip", "unreadable", "scan"}
FileKinds == [walk : Walks, finds : Seq(0 .. 3), panics : Nat]

ASSUME AuditAssumption ==
    /\ Project \in Seq(FileKinds)
    /\ Floors \subseteq 0 .. 3 /\ PipeCap \in Nat \ {0}

VARIABLES
    audits,        \* number of audits started
    floor,         \* the severity floor of this one
    cli,           \* "idle", "read", "wait", "persist", then the exit: "ok", "critical", "failed"
    child,         \* the scanner process: "none", "walk", "emit", "done", "exited", "crashed"
    walkAt,        \* the file the walk has reached
    unsent,        \* lines of this file still to write
    stdout,        \* the pipe the CLI reads
    stderr,        \* lines in the pipe the CLI does not read
    counts,        \* scanned, findings and errors, for the summary
    findingsRead,  \* findings the CLI has read in this audit
    summary,       \* whether the summary line was read
    rows           \* findings.db: each row with the audit that inserted it

auditVars == <<audits, floor, cli, child, walkAt, unsent, stdout, stderr, counts, findingsRead,
               summary, rows>>

NoCounts == [scanned |-> 0, findings |-> 0, errors |-> 0]
DoneLine == [kind |-> "done"]
FindingLine(i, k) == [kind |-> "finding", sev |-> Project[i].finds[k], place |-> <<i, k>>]
LinesOf(i) == [k \in DOMAIN Project[i].finds |-> FindingLine(i, k)]

\* Everything the scanners find in the project that the user wants to see.
Scanned == {i \in DOMAIN Project : Project[i].walk = "scan"}
FoundIn(i) == {FindingLine(i, k) : k \in DOMAIN Project[i].finds}
Wanted(f) == {l \in UNION {FoundIn(i) : i \in Scanned} : l.sev <= f}

AuditInit ==
    /\ audits = 0 /\ floor = 3 /\ cli = "idle" /\ child = "none"
    /\ walkAt = 0 /\ unsent = <<>> /\ stdout = <<>> /\ stderr = 0
    /\ counts = NoCounts /\ findingsRead = {} /\ summary = FALSE /\ rows = {}

----------------------------------------------------------------------------
(* The command *)

\* The supervisor does not know the request, or is not there: spawn the
\* scanners, send the command line and close their stdin.
StartAudit(f) ==
    /\ cli \in {"idle", "ok", "critical", "failed"} /\ audits < MaxAudits
    /\ audits' = audits + 1 /\ floor' = f
    /\ cli' = "read" /\ child' = "walk" /\ walkAt' = 1 /\ unsent' = <<>>
    /\ stdout' = <<>> /\ stderr' = 0 /\ counts' = NoCounts
    /\ findingsRead' = {} /\ summary' = FALSE
    /\ UNCHANGED rows

ReadStdout ==
    /\ cli = "read" /\ stdout # <<>>
    /\ IF Head(stdout).kind = "done"
         THEN summary' = TRUE /\ UNCHANGED findingsRead
         ELSE findingsRead' = findingsRead \cup {Head(stdout)} /\ UNCHANGED summary
    /\ stdout' = Tail(stdout)
    /\ UNCHANGED <<audits, floor, cli, child, walkAt, unsent, stderr, counts, rows>>

\* End of file: the child has exited and its last line was read.
StdoutEnds ==
    /\ cli = "read" /\ stdout = <<>> /\ child \in {"exited", "crashed"}
    /\ cli' = "wait"
    /\ UNCHANGED <<audits, floor, child, walkAt, unsent, stdout, stderr, counts, findingsRead,
                   summary, rows>>

ChildStatus_Ignored ==
    /\ cli = "wait"
    /\ cli' = "persist"
    /\ UNCHANGED <<audits, floor, child, walkAt, unsent, stdout, stderr, counts,
                   findingsRead, summary, rows>>

\* child.wait(): a bad status ends the command with nothing stored.
ChildStatus ==
    /\ cli = "wait"
    /\ cli' = IF child = "crashed" THEN "failed" ELSE "persist"
    /\ UNCHANGED <<audits, floor, child, walkAt, unsent, stdout, stderr, counts, findingsRead,
                   summary, rows>>

\* The findings that pass the floor.
Kept == {l \in findingsRead : l.sev <= floor}

Outcome == IF \E l \in Kept : l.sev = 0 THEN "critical" ELSE "ok"

\* FindingsWriter: one transaction, which commits or leaves nothing.
WriteFindings(batch) ==
    \/ rows' = rows \cup {[audit |-> audits, line |-> l] : l \in batch}
    \/ UNCHANGED rows

\* The command goes on either way.
Persist ==
    /\ cli = "persist"
    /\ WriteFindings(Kept)
    /\ cli' = Outcome
    /\ UNCHANGED <<audits, floor, child, walkAt, unsent, stdout, stderr, counts, findingsRead, summary>>

\* Ctrl-C on the command.  The child finds its pipe closed.
Interrupt ==
    /\ cli \in {"read", "wait", "persist"}
    /\ cli' = "failed"
    /\ UNCHANGED <<audits, floor, child, walkAt, unsent, stdout, stderr, counts, findingsRead,
                   summary, rows>>

----------------------------------------------------------------------------
(* The scanner process *)

\* One file of the walk.  A panic message is written before the findings of
\* the file; a full pipe blocks the process.
WalkFile ==
    /\ child = "walk" /\ walkAt <= Len(Project)
    /\ LET f == Project[walkAt]
       IN  CASE f.walk = "skip" ->
                  /\ walkAt' = walkAt + 1
                  /\ UNCHANGED <<child, unsent, stderr, counts>>
             [] f.walk = "unreadable" ->
                  /\ walkAt' = walkAt + 1
                  /\ counts' = [counts EXCEPT !.errors = @ + 1]
                  /\ UNCHANGED <<child, unsent, stderr>>
             [] f.walk = "scan" ->
                  /\ stderr + f.panics <= PipeCap
                  /\ stderr' = stderr + f.panics
                  /\ counts' = [counts EXCEPT !.scanned = @ + 1, !.errors = @ + f.panics]
                  /\ unsent' = LinesOf(walkAt) /\ child' = "emit"
                  /\ UNCHANGED walkAt
    /\ UNCHANGED <<audits, floor, cli, stdout, findingsRead, summary, rows>>

\* One line per finding; a reader that hung up ends the file, not the walk.
EmitLine ==
    /\ child = "emit" /\ unsent # <<>>
    /\ counts' = [counts EXCEPT !.findings = @ + 1]
    /\ IF cli = "read"
         THEN /\ Len(stdout) < PipeCap
              /\ stdout' = Append(stdout, Head(unsent))
              /\ unsent' = Tail(unsent)
         ELSE unsent' = <<>> /\ UNCHANGED stdout
    /\ UNCHANGED <<audits, floor, cli, child, walkAt, stderr, findingsRead, summary, rows>>

FileDone ==
    /\ child = "emit" /\ unsent = <<>>
    /\ child' = "walk" /\ walkAt' = walkAt + 1
    /\ UNCHANGED <<audits, floor, cli, unsent, stdout, stderr, counts, findingsRead, summary, rows>>

\* The summary line and a clean exit; the write fails on a closed pipe.
Summarise ==
    /\ child = "walk" /\ walkAt > Len(Project)
    /\ IF cli = "read"
         THEN /\ Len(stdout) < PipeCap
              /\ stdout' = Append(stdout, DoneLine)
              /\ child' = "exited"
         ELSE child' = "crashed" /\ UNCHANGED stdout
    /\ UNCHANGED <<audits, floor, cli, walkAt, unsent, stderr, counts, findingsRead, summary, rows>>

CrashChild ==
    /\ child \in {"walk", "emit"}
    /\ child' = "crashed" /\ unsent' = <<>>
    /\ UNCHANGED <<audits, floor, cli, walkAt, stdout, stderr, counts, findingsRead, summary, rows>>

AuditNext ==
    \/ \E f \in Floors : StartAudit(f)
    \/ ReadStdout \/ StdoutEnds \/ ChildStatus \/ Persist \/ Interrupt
    \/ WalkFile \/ EmitLine \/ FileDone \/ Summarise \/ CrashChild

AuditSpec == AuditInit /\ [][AuditNext]_auditVars

----------------------------------------------------------------------------
(* Properties *)

RowsOf(n) == {r.line : r \in {x \in rows : x.audit = n}}

\* An audit stores every finding of the walk that passes its floor, or none:
\* never the part that happened to be read before the scanners died, the
\* command was interrupted or the disk failed ("all-or-nothing").
AuditIsAllOrNothing ==
    \A r \in rows : r.audit = audits => RowsOf(audits) = Wanted(floor)

\* The inductive strengthening of AuditIsAllOrNothing.  As long as the command
\* reads and the scanners live, what was read, what is in the pipe and what is
\* still to be written are together the findings of the files the walk has
\* passed; and an audit has no row before it persists.
FoundUpTo(n) == UNION {FoundIn(i) : i \in {j \in Scanned : j < n}}
FindingsIn(pipe) == {pipe[i] : i \in DOMAIN pipe} \ {DoneLine}
AllLines == {DoneLine} \cup UNION {FoundIn(i) : i \in DOMAIN Project}

AuditShape ==
    /\ audits \in Nat /\ floor \in 0 .. 3
    /\ cli \in {"idle", "read", "wait", "persist", "ok", "critical", "failed"}
    /\ child \in {"none", "walk", "emit", "exited", "crashed"}
    /\ walkAt \in Nat /\ (child = "walk" => walkAt # 0)
    /\ child = "emit" => walkAt \in DOMAIN Project
    /\ stdout \in Seq(AllLines) /\ unsent \in Seq(AllLines \ {DoneLine})
    /\ \A r \in rows : r.audit \in Nat /\ r.audit <= audits

NothingMissing ==
    /\ cli = "read" =>
        /\ child = "walk" => findingsRead \cup FindingsIn(stdout) = FoundUpTo(walkAt)
        /\ child = "emit" =>
            findingsRead \cup FindingsIn(stdout) \cup FindingsIn(unsent) = FoundUpTo(walkAt + 1)
        /\ child = "exited" => findingsRead \cup FindingsIn(stdout) = FoundUpTo(Len(Project) + 1)
        /\ child # "none"
    /\ cli = "wait" =>
        child = "crashed" \/ (child = "exited" /\ findingsRead = FoundUpTo(Len(Project) + 1))
    /\ cli = "persist" => findingsRead = FoundUpTo(Len(Project) + 1)

NoRowsYet == cli \in {"read", "wait", "persist"} => \A r \in rows : r.audit # audits

AuditInv == AuditShape /\ NothingMissing /\ NoRowsYet /\ AuditIsAllOrNothing
=============================================================================
