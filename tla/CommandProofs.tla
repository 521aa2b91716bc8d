--------------------------- MODULE CommandProofs ----------------------------
(***************************************************************************)
(* Proofs about the commands of mneme: that an audit stores all of its     *)
(* findings or none, for any project, pipe and severity floor; that a      *)
(* rebuild leaves exactly the graph of the files, for any files, versions, *)
(* limits and number of commands; that installs, uninstalls and rollbacks  *)
(* keep what the user wrote, and a rollback brings back what the last      *)
(* install found, for any platforms, scopes, commands, edits and faults;   *)
(* that the prompt hook prescribes the skill that fits best by what the    *)
(* skill files say, for any directories, files and prompt.                 *)
(***************************************************************************)
EXTENDS Audit, BuildPipeline, Install, PromptHook,
        SequenceTheorems, FiniteSetTheorems, WellFoundedInduction, TLAPS

-----------------------------------------------------------------------------
(* The elements of a sequence. *)

ElementsOf(s) == {s[i] : i \in DOMAIN s}

\* Append adds one element.
LEMMA AppendElements ==
    ASSUME NEW S, NEW s \in Seq(S), NEW e \in S
    PROVE  Append(s, e) \in Seq(S) /\ ElementsOf(Append(s, e)) = ElementsOf(s) \cup {e}
<1>1. /\ Append(s, e) \in Seq(S)
      /\ Len(Append(s, e)) = Len(s) + 1
      /\ \A i \in 1 .. Len(s) : Append(s, e)[i] = s[i]
      /\ Append(s, e)[Len(s) + 1] = e
  BY AppendProperties
<1>2. /\ DOMAIN s = 1 .. Len(s) /\ Len(s) \in Nat
      /\ DOMAIN Append(s, e) = 1 .. Len(s) + 1
  BY <1>1, LenProperties
<1>3. 1 .. Len(s) + 1 = (1 .. Len(s)) \cup {Len(s) + 1}
  BY <1>2
<1> HIDE DEF ElementsOf
<1> QED BY <1>1, <1>2, <1>3 DEF ElementsOf

\* A sequence holds its head and what its tail holds.
LEMMA TailElements ==
    ASSUME NEW S, NEW s \in Seq(S), s # <<>>
    PROVE  /\ Head(s) \in S /\ Tail(s) \in Seq(S)
           /\ ElementsOf(s) = ElementsOf(Tail(s)) \cup {Head(s)}
<1>1. /\ Head(s) \in S /\ Tail(s) \in Seq(S) /\ Head(s) = s[1]
      /\ Len(Tail(s)) = Len(s) - 1
      /\ \A i \in 1 .. Len(Tail(s)) : Tail(s)[i] = s[i + 1]
  BY HeadTailProperties
<1>2. Len(s) \in Nat /\ Len(s) # 0 /\ DOMAIN s = 1 .. Len(s) /\ DOMAIN Tail(s) = 1 .. Len(s) - 1
  BY <1>1, LenProperties, EmptySeq
<1>3. \A i \in DOMAIN s : i = 1 \/ (i - 1 \in DOMAIN Tail(s) /\ Tail(s)[i - 1] = s[i])
  BY <1>1, <1>2
<1>4. \A i \in DOMAIN Tail(s) : i + 1 \in DOMAIN s /\ Tail(s)[i] = s[i + 1]
  BY <1>1, <1>2
<1>5. 1 \in DOMAIN s
  BY <1>2
<1> QED BY <1>1, <1>3, <1>4, <1>5 DEF ElementsOf

-----------------------------------------------------------------------------
(* The audit. *)

\* Findings and the summary line are told apart, and every finding has a rank.
LEMMA LineFacts ==
    /\ \A i \in DOMAIN Project : \A l \in FoundIn(i) : l \in AllLines /\ l # DoneLine /\ l.kind # "done"
    /\ \A l \in AllLines : l.kind = "done" <=> l = DoneLine
    /\ DoneLine \in AllLines
<1>1. \A i, k : FindingLine(i, k).kind = "finding" /\ DoneLine.kind = "done"
  BY DEF FindingLine, DoneLine
<1>2. \A i \in DOMAIN Project : \A l \in FoundIn(i) : l.kind = "finding"
  BY <1>1 DEF FoundIn
<1> QED BY <1>1, <1>2 DEF AllLines

\* The lines of a file are its findings in order.
LEMMA LinesAreFound ==
    ASSUME NEW i \in DOMAIN Project
    PROVE  LinesOf(i) \in Seq(AllLines \ {DoneLine}) /\ FindingsIn(LinesOf(i)) = FoundIn(i)
<1>1. Project[i].finds \in Seq(0 .. 3)
  <2>1. Project[i] \in FileKinds
    BY AuditAssumption, LenProperties
  <2> QED BY <2>1 DEF FileKinds
<1>2. /\ DOMAIN Project[i].finds = 1 .. Len(Project[i].finds)
      /\ Len(Project[i].finds) \in Nat
  BY <1>1, LenProperties
<1>3. DOMAIN LinesOf(i) = 1 .. Len(Project[i].finds)
  BY <1>2 DEF LinesOf
<1>4. \A k \in DOMAIN LinesOf(i) : LinesOf(i)[k] \in AllLines \ {DoneLine}
  <2>1. \A k \in DOMAIN LinesOf(i) : LinesOf(i)[k] \in FoundIn(i)
    BY DEF LinesOf, FoundIn
  <2> QED BY <2>1, LineFacts
<1>5. LinesOf(i) \in Seq(AllLines \ {DoneLine})
  <2>1. LinesOf(i) \in [1 .. Len(Project[i].finds) -> AllLines \ {DoneLine}]
    BY <1>3, <1>4 DEF LinesOf
  <2> QED BY <1>2, <2>1
<1>6. {LinesOf(i)[k] : k \in DOMAIN LinesOf(i)} = FoundIn(i)
  BY DEF LinesOf, FoundIn
<1> QED BY <1>5, <1>6, LineFacts DEF FindingsIn

\* One more file of the walk adds its findings if it is scanned, nothing else.
LEMMA FoundGrows ==
    ASSUME NEW n \in DOMAIN Project
    PROVE  FoundUpTo(n + 1) = FoundUpTo(n) \cup (IF n \in Scanned THEN FoundIn(n) ELSE {})
<1>1. DOMAIN Project \subseteq Nat
  BY AuditAssumption, LenProperties
<1>2. {j \in Scanned : j < n + 1} = {j \in Scanned : j < n} \cup (Scanned \cap {n})
  BY <1>1 DEF Scanned
<1> QED BY <1>2 DEF FoundUpTo

\* The walk starts with nothing and ends with everything.
LEMMA FoundEnds == FoundUpTo(1) = {} /\ FoundUpTo(Len(Project) + 1) = UNION {FoundIn(i) : i \in Scanned}
<1>1. DOMAIN Project = 1 .. Len(Project) /\ Len(Project) \in Nat
  BY AuditAssumption, LenProperties
<1>2. {j \in Scanned : j < 1} = {} /\ {j \in Scanned : j < Len(Project) + 1} = Scanned
  BY <1>1 DEF Scanned
<1> QED BY <1>2 DEF FoundUpTo

\* FindingsIn in terms of the elements.
LEMMA FindingsAreElements == \A s : FindingsIn(s) = ElementsOf(s) \ {DoneLine}
BY DEF FindingsIn, ElementsOf


\* What the type part of the invariant says of the elements of the pipe.
LEMMA AuditShapeStep == AuditInv /\ [AuditNext]_auditVars => AuditShape'
<1> SUFFICES ASSUME AuditInv, [AuditNext]_auditVars PROVE AuditShape'
  OBVIOUS
<1>0. AuditShape
  BY DEF AuditInv
<1> USE <1>0 DEF AuditShape
<1>1. Len(Project) \in Nat /\ DOMAIN Project = 1 .. Len(Project)
  BY AuditAssumption, LenProperties
<1>2. ASSUME NEW f \in Floors, StartAudit(f) PROVE AuditShape'
  <2>1. f \in 0 .. 3
    BY AuditAssumption
  <2> QED BY <1>2, <2>1 DEF StartAudit
<1>3. CASE ReadStdout
  BY <1>3, TailElements DEF ReadStdout
<1>4. CASE StdoutEnds BY <1>4 DEF StdoutEnds
<1>5. CASE ChildStatus BY <1>5 DEF ChildStatus
<1>6. CASE Persist
  <2>1. \A r \in rows' : r.audit \in Nat /\ r.audit <= audits
    BY <1>6 DEF Persist, WriteFindings
  <2> QED BY <1>6, <2>1 DEF Persist, Outcome
<1>7. CASE Interrupt BY <1>7 DEF Interrupt
<1>8. CASE WalkFile
  <2>1. walkAt \in DOMAIN Project /\ Project[walkAt] \in FileKinds
    BY <1>1, <1>8, AuditAssumption, LenProperties DEF WalkFile
  <2>2. \/ walkAt' = walkAt + 1 /\ UNCHANGED <<child, unsent>>
        \/ unsent' = LinesOf(walkAt) /\ child' = "emit" /\ UNCHANGED walkAt
    BY <1>8, <2>1 DEF WalkFile, FileKinds, Walks
  <2>3. LinesOf(walkAt) \in Seq(AllLines \ {DoneLine})
    BY <2>1, LinesAreFound
  <2> QED BY <1>8, <2>1, <2>2, <2>3 DEF WalkFile
<1>9. CASE EmitLine
  <2>1. /\ unsent \in Seq(AllLines \ {DoneLine}) /\ unsent # <<>> /\ stdout \in Seq(AllLines)
        /\ child = "emit" /\ UNCHANGED <<audits, floor, cli, child, walkAt, rows>>
    BY <1>9 DEF EmitLine
  <2>2. Head(unsent) \in AllLines \ {DoneLine} /\ Tail(unsent) \in Seq(AllLines \ {DoneLine})
    BY <2>1, TailElements
  <2>3. CASE cli = "read"
    <3>1. stdout' = Append(stdout, Head(unsent)) /\ unsent' = Tail(unsent)
      BY <1>9, <2>3 DEF EmitLine
    <3>2. stdout' \in Seq(AllLines)
      BY <2>1, <2>2, <3>1, AppendElements
    <3> QED BY <2>1, <2>2, <3>1, <3>2
  <2>4. CASE cli # "read"
    <3>1. unsent' = <<>> /\ stdout' = stdout
      BY <1>9, <2>4 DEF EmitLine
    <3> QED BY <2>1, <3>1
  <2> QED BY <2>3, <2>4
<1>10. CASE FileDone BY <1>1, <1>10 DEF FileDone
<1>11. CASE Summarise
  <2>1. stdout' \in Seq(AllLines)
    <3>1. stdout \in Seq(AllLines) /\ (stdout' = Append(stdout, DoneLine) \/ stdout' = stdout)
      BY <1>11 DEF Summarise
    <3>2. Append(stdout, DoneLine) \in Seq(AllLines)
      BY <3>1, LineFacts, AppendElements
    <3> QED BY <3>1, <3>2
  <2> QED BY <1>11, <2>1 DEF Summarise
<1>12. CASE CrashChild BY <1>12 DEF CrashChild
<1>13. CASE UNCHANGED auditVars BY <1>13 DEF auditVars
<1> QED BY <1>2, <1>3, <1>4, <1>5, <1>6, <1>7, <1>8, <1>9, <1>10, <1>11, <1>12, <1>13 DEF AuditNext

\* Between the walk and the command no finding is lost: a step moves findings
\* from the file to the pipe and from the pipe to what was read.
LEMMA NothingMissingStep == AuditInv /\ [AuditNext]_auditVars => NothingMissing'
<1> SUFFICES ASSUME AuditInv, [AuditNext]_auditVars PROVE NothingMissing'
  OBVIOUS
<1>0. AuditShape /\ NothingMissing
  BY DEF AuditInv
<1>1. Len(Project) \in Nat /\ DOMAIN Project = 1 .. Len(Project)
  BY AuditAssumption, LenProperties
<1>2. ASSUME NEW f \in Floors, StartAudit(f) PROVE NothingMissing'
  <2>1. FindingsIn(<<>>) = {}
    BY DEF FindingsIn
  <2> QED BY <1>2, <2>1, FoundEnds DEF StartAudit, NothingMissing
<1>3. CASE ReadStdout
  <2>1. /\ stdout \in Seq(AllLines) /\ stdout # <<>> /\ stdout' = Tail(stdout)
        /\ UNCHANGED <<cli, child, walkAt, unsent>> /\ cli = "read"
    BY <1>0, <1>3 DEF ReadStdout, AuditShape
  <2>2. Head(stdout) \in AllLines /\ ElementsOf(stdout) = ElementsOf(stdout') \cup {Head(stdout)}
    BY <2>1, TailElements
  <2>3. findingsRead' = findingsRead \cup ({Head(stdout)} \ {DoneLine})
    BY <1>3, <2>2, LineFacts DEF ReadStdout
  <2>4. findingsRead' \cup FindingsIn(stdout') = findingsRead \cup FindingsIn(stdout)
    BY <2>2, <2>3, FindingsAreElements
  <2> QED BY <1>0, <2>1, <2>4 DEF NothingMissing
<1>4. CASE StdoutEnds
  <2>1. FindingsIn(stdout) = {}
    BY <1>4 DEF StdoutEnds, FindingsIn
  <2> QED BY <1>0, <1>4, <2>1 DEF StdoutEnds, NothingMissing
<1>5. CASE ChildStatus
  BY <1>0, <1>5 DEF ChildStatus, NothingMissing
<1>6. CASE Persist
  BY <1>6 DEF Persist, Outcome, NothingMissing
<1>7. CASE Interrupt
  BY <1>7 DEF Interrupt, NothingMissing
<1>8. CASE WalkFile
  <2>1. walkAt \in DOMAIN Project /\ Project[walkAt] \in FileKinds
    BY <1>0, <1>1, <1>8, AuditAssumption, LenProperties DEF WalkFile, AuditShape
  <2>2. /\ \/ walkAt \notin Scanned /\ walkAt' = walkAt + 1 /\ UNCHANGED <<child, unsent>>
           \/ /\ walkAt \in Scanned /\ unsent' = LinesOf(walkAt) /\ child' = "emit"
              /\ UNCHANGED walkAt
        /\ UNCHANGED <<cli, stdout, findingsRead>> /\ child = "walk"
    BY <1>8, <2>1 DEF WalkFile, FileKinds, Walks, Scanned
  <2>3. FindingsIn(LinesOf(walkAt)) = FoundIn(walkAt)
    BY <2>1, LinesAreFound
  <2>4. FoundUpTo(walkAt + 1) = FoundUpTo(walkAt) \cup (IF walkAt \in Scanned THEN FoundIn(walkAt) ELSE {})
    BY <2>1, FoundGrows
  <2>5. cli # "wait" /\ (cli = "persist" => findingsRead' = FoundUpTo(Len(Project) + 1))
    BY <1>0, <2>2 DEF NothingMissing
  <2>6. CASE walkAt \in Scanned
    BY <1>0, <2>2, <2>3, <2>4, <2>5, <2>6 DEF NothingMissing
  <2>7. CASE walkAt \notin Scanned
    BY <1>0, <2>2, <2>4, <2>5, <2>7 DEF NothingMissing
  <2> QED BY <2>6, <2>7
<1>9. CASE EmitLine
  <2>1. /\ unsent \in Seq(AllLines \ {DoneLine}) /\ unsent # <<>> /\ stdout \in Seq(AllLines)
        /\ child = "emit" /\ UNCHANGED <<cli, child, walkAt, findingsRead>>
    BY <1>0, <1>9 DEF EmitLine, AuditShape
  <2>2. Head(unsent) \in AllLines \ {DoneLine} /\ ElementsOf(unsent) = ElementsOf(Tail(unsent)) \cup {Head(unsent)}
    BY <2>1, TailElements
  <2>3. CASE cli = "read"
    <3>1. stdout' = Append(stdout, Head(unsent)) /\ unsent' = Tail(unsent)
      BY <1>9, <2>3 DEF EmitLine
    <3>2. ElementsOf(stdout') = ElementsOf(stdout) \cup {Head(unsent)}
      BY <2>1, <2>2, <3>1, AppendElements
    <3>3. FindingsIn(stdout') \cup FindingsIn(unsent') = FindingsIn(stdout) \cup FindingsIn(unsent)
      BY <2>2, <3>1, <3>2, FindingsAreElements
    <3> QED BY <1>0, <2>1, <2>3, <3>3 DEF NothingMissing
  <2>4. CASE cli # "read"
    BY <1>0, <2>1, <2>4 DEF NothingMissing
  <2> QED BY <2>3, <2>4
<1>10. CASE FileDone
  <2>1. FindingsIn(unsent) = {}
    BY <1>10 DEF FileDone, FindingsIn
  <2> QED BY <1>0, <1>10, <2>1 DEF FileDone, NothingMissing
<1>11. CASE Summarise
  <2>1. child = "walk" /\ walkAt > Len(Project) /\ UNCHANGED <<cli, walkAt, findingsRead>>
    BY <1>11 DEF Summarise
  <2>2. CASE cli = "read"
    <3>1. stdout' = Append(stdout, DoneLine) /\ child' = "exited"
      BY <1>11, <2>2 DEF Summarise
    <3>2. FindingsIn(stdout') = FindingsIn(stdout)
      <4>1. ElementsOf(stdout') = ElementsOf(stdout) \cup {DoneLine}
        BY <1>0, <3>1, LineFacts, AppendElements DEF AuditShape
      <4> QED BY <4>1, FindingsAreElements
    <3>3. FoundUpTo(walkAt) = FoundUpTo(Len(Project) + 1)
      <4>1. {j \in Scanned : j < walkAt} = {j \in Scanned : j < Len(Project) + 1}
        BY <1>0, <1>1, <2>1 DEF Scanned, AuditShape
      <4> QED BY <4>1 DEF FoundUpTo
    <3> QED BY <1>0, <2>1, <2>2, <3>1, <3>2, <3>3 DEF NothingMissing
  <2>3. CASE cli # "read"
    BY <1>0, <2>1, <2>3 DEF NothingMissing
  <2> QED BY <2>2, <2>3
<1>12. CASE CrashChild
  BY <1>0, <1>12 DEF CrashChild, NothingMissing
<1>13. CASE UNCHANGED auditVars
  BY <1>0, <1>13 DEF auditVars, NothingMissing
<1> QED BY <1>2, <1>3, <1>4, <1>5, <1>6, <1>7, <1>8, <1>9, <1>10, <1>11, <1>12, <1>13 DEF AuditNext

\* Only Persist writes rows, and it writes all that is wanted or none.
LEMMA RowsStep == AuditInv /\ [AuditNext]_auditVars => NoRowsYet' /\ AuditIsAllOrNothing'
<1> SUFFICES ASSUME AuditInv, [AuditNext]_auditVars PROVE NoRowsYet' /\ AuditIsAllOrNothing'
  OBVIOUS
<1>1. CASE Persist
  <2>1. cli' \in {"critical", "ok"} /\ UNCHANGED <<audits, floor>>
    BY <1>1 DEF Persist, Outcome
  <2>2. CASE UNCHANGED rows
    BY <2>1, <2>2 DEF AuditInv, NoRowsYet, AuditIsAllOrNothing, RowsOf, Wanted
  <2>3. CASE rows' = rows \cup {[audit |-> audits, line |-> l] : l \in Kept}
    <3>1. RowsOf(audits)' = Kept
      <4>1. \A r \in rows : r.audit # audits
        BY <1>1 DEF AuditInv, NoRowsYet, Persist
      <4>2. {x \in rows' : x.audit = audits} = {[audit |-> audits, line |-> l] : l \in Kept}
        BY <2>3, <4>1
      <4>3. {r.line : r \in {[audit |-> audits, line |-> l] : l \in Kept}} = Kept
        <5> DEFINE Row(l) == [audit |-> audits, line |-> l]
        <5>1. \A l : Row(l).line = l
          OBVIOUS
        <5> HIDE DEF Row
        <5>2. {r.line : r \in {Row(l) : l \in Kept}} = Kept
          BY <5>1
        <5> QED BY <5>2 DEF Row
      <4> QED BY <2>1, <4>2, <4>3 DEF RowsOf
    <3>2. Kept = Wanted(floor)
      BY <1>1, FoundEnds DEF AuditInv, NothingMissing, Persist, Kept, Wanted
    <3> QED BY <2>1, <3>1, <3>2 DEF NoRowsYet, AuditIsAllOrNothing, RowsOf, Wanted
  <2> QED BY <1>1, <2>2, <2>3 DEF Persist, WriteFindings
<1>2. ASSUME NEW f \in Floors, StartAudit(f) PROVE NoRowsYet' /\ AuditIsAllOrNothing'
  <2>1. \A r \in rows' : r.audit # audits'
    BY <1>2 DEF AuditInv, AuditShape, StartAudit
  <2> QED BY <2>1 DEF NoRowsYet, AuditIsAllOrNothing
<1>3. ASSUME UNCHANGED <<rows, audits, floor>>,
             cli' \in {"read", "wait", "persist"} => cli \in {"read", "wait", "persist"}
      PROVE  NoRowsYet' /\ AuditIsAllOrNothing'
  BY <1>3 DEF AuditInv, NoRowsYet, AuditIsAllOrNothing, RowsOf, Wanted
<1>4. CASE ReadStdout \/ StdoutEnds \/ ChildStatus \/ Interrupt
  BY <1>3, <1>4 DEF ReadStdout, StdoutEnds, ChildStatus, Interrupt
<1>5. CASE WalkFile \/ EmitLine \/ FileDone \/ Summarise \/ CrashChild
  BY <1>3, <1>5 DEF WalkFile, EmitLine, FileDone, Summarise, CrashChild
<1>6. CASE UNCHANGED auditVars
  BY <1>3, <1>6 DEF auditVars
<1> QED BY <1>1, <1>2, <1>4, <1>5, <1>6 DEF AuditNext

\* An audit stores every finding that passes its floor, or none, whoever dies
\* and whatever fails.
THEOREM AllOrNothing == AuditSpec => []AuditIsAllOrNothing
<1>1. AuditInit => AuditInv
  BY DEF AuditInit, AuditInv, AuditShape, NothingMissing, NoRowsYet, AuditIsAllOrNothing
<1>2. AuditInv /\ [AuditNext]_auditVars => AuditInv'
  BY AuditShapeStep, NothingMissingStep, RowsStep DEF AuditInv
<1>3. AuditInv => AuditIsAllOrNothing
  BY DEF AuditInv
<1> QED BY <1>1, <1>2, <1>3, PTL DEF AuditSpec


-----------------------------------------------------------------------------
(* The rebuild. *)

\* A build that is not one, as a record.
LEMMA NoBuildFacts ==
    /\ NoBuild \in BuildRecord /\ NoBuild.op = "none" /\ NoBuild.pc = "idle"
    /\ NoBuild.limit = 0 /\ NoBuild.rebuilt = FALSE
BY DEF NoBuild, BuildRecord

\* Where a command is and what it still has to do keep their shape.
LEMMA BuildShapeStep == BuildShape /\ [BuildNext]_buildVars => BuildShape'
<1> SUFFICES ASSUME BuildShape, [BuildNext]_buildVars PROVE BuildShape'
  OBVIOUS
<1>0. /\ build \in BuildRecord /\ disk \in [AllFiles -> Nat]
      /\ \A S : S \subseteq AllFiles => Present(S) \subseteq AllFiles
      /\ CodeFiles \subseteq AllFiles /\ DocFiles \subseteq AllFiles
  BY DEF BuildShape, Present, AllFiles
<1>1. ASSUME NEW limit \in BuildLimits, NEW dispatch \in BOOLEAN, NEW yes \in BOOLEAN,
             StartBuild(limit, dispatch, yes)
      PROVE  BuildShape'
  <2>1. limit \in Nat
    BY BuildAssumption
  <2>2. PICK d, c \in BOOLEAN : d = (dispatch /\ daemon.up) /\ c = (limit = 0)
    OBVIOUS
  <2>3. PICK p \in {"submit", "open"}, t \in SUBSET AllFiles :
          p = (IF d THEN "submit" ELSE "open") /\ t = (IF d THEN Present(CodeFiles) ELSE {})
    BY <1>0
  <2>4. build' = [NoBuild EXCEPT !.op = "build", !.limit = limit, !.clean = c, !.dispatch = d,
                      !.pc = p, !.todo = t]
    BY <1>1, <2>2, <2>3 DEF StartBuild
  <2>5. build' = [op |-> "build", pc |-> p, todo |-> t, taken |-> 0, limit |-> limit,
                  dispatch |-> d, clean |-> c, rebuilt |-> FALSE]
    BY <2>4 DEF NoBuild
  <2>6. build' \in BuildRecord
    BY <2>1, <2>5 DEF BuildRecord
  <2>7. build'.op = "build" /\ build'.pc \in {"submit", "open"} /\ build'.rebuilt = FALSE
    BY <2>5
  <2> QED BY <1>1, <2>6, <2>7 DEF StartBuild, BuildShape
<1>2. ASSUME NEW noIpc \in BOOLEAN, NEW answers \in BOOLEAN, StartRebuild(noIpc, answers)
      PROVE  BuildShape'
  <2>1. PICK p \in {"ended", "drop"} : build' = [NoBuild EXCEPT !.op = "rebuild", !.pc = p]
    BY <1>2 DEF StartRebuild
  <2>2. /\ build' \in BuildRecord /\ build'.op = "rebuild" /\ build'.pc \in {"ended", "drop"}
        /\ build'.rebuilt = FALSE /\ build'.limit = 0
    BY <2>1 DEF NoBuild, BuildRecord
  <2> QED BY <1>2, <2>2 DEF StartRebuild, BuildShape
<1>3. ASSUME NEW f \in CodeFiles, SubmitFile(f) PROVE BuildShape'
  <2>1. \/ build' = [build EXCEPT !.todo = @ \ {f}, !.taken = @ + 1]
        \/ build' = [build EXCEPT !.pc = "open", !.todo = {}, !.taken = 0]
    BY <1>3 DEF SubmitFile
  <2>2. /\ build' \in BuildRecord /\ UNCHANGED <<build.op, build.limit, build.rebuilt>>
        /\ build'.pc \in {"open", build.pc}
    <3>1. CASE build' = [build EXCEPT !.todo = @ \ {f}, !.taken = @ + 1]
      <4>1. build.taken + 1 \in Nat /\ build.todo \ {f} \in SUBSET AllFiles
        BY <1>0 DEF BuildRecord
      <4> QED BY <1>0, <3>1, <4>1 DEF BuildRecord
    <3>2. CASE build' = [build EXCEPT !.pc = "open", !.todo = {}, !.taken = 0]
      BY <1>0, <3>2 DEF BuildRecord
    <3> QED BY <2>1, <3>1, <3>2
  <2> QED BY <1>3, <2>2 DEF SubmitFile, BuildShape
<1>4. CASE WalkSubmitted
  <2>1. /\ build' \in BuildRecord /\ UNCHANGED <<build.op, build.limit, build.rebuilt>>
        /\ build'.pc = "poll" /\ build.pc = "submit"
    BY <1>0, <1>4 DEF WalkSubmitted, BuildRecord
  <2> QED BY <1>4, <2>1 DEF WalkSubmitted, BuildShape
<1>5. CASE Poll
  <2>1. \/ build' = [build EXCEPT !.pc = "ended"]
        \/ build' = [build EXCEPT !.pc = "open", !.taken = 0]
        \/ build' = build
    BY <1>5 DEF Poll
  <2>2. /\ build' \in BuildRecord /\ UNCHANGED <<build.op, build.limit, build.rebuilt>>
        /\ build'.pc \in {"ended", "open", build.pc}
    <3>1. CASE build' = [build EXCEPT !.pc = "ended"]
      BY <1>0, <3>1 DEF BuildRecord
    <3>2. CASE build' = [build EXCEPT !.pc = "open", !.taken = 0]
      BY <1>0, <3>2 DEF BuildRecord
    <3>3. CASE build' = build
      BY <1>0, <3>3
    <3> QED BY <2>1, <3>1, <3>2, <3>3
  <2> QED BY <1>5, <2>2 DEF Poll, BuildShape
<1>6. CASE DropShards
  <2>1. /\ build' \in BuildRecord /\ UNCHANGED <<build.op, build.limit, build.rebuilt>>
        /\ build'.pc = "open" /\ build.pc = "drop"
    BY <1>0, <1>6 DEF DropShards, BuildRecord
  <2>2. graphDb' = [nodes |-> graphDb'.nodes, edges |-> graphDb'.edges]
    BY <1>6 DEF DropShards, NoRows
  <2> QED BY <1>6, <2>1, <2>2 DEF DropShards, BuildShape
<1>7. CASE DropFails
  <2>1. graphDb' = [nodes |-> graphDb'.nodes, edges |-> graphDb'.edges]
    BY <1>7 DEF DropFails, NoRows, BuildShape
  <2> QED BY <1>7, <2>1, NoBuildFacts DEF DropFails, BuildShape
<1>8. CASE OpenShard
  <2>1. PICK r \in BOOLEAN : r = (build.op = "rebuild")
    OBVIOUS
  <2>2. build' = [build EXCEPT !.pc = "code", !.todo = Present(CodeFiles), !.rebuilt = r]
    BY <1>8, <2>1 DEF OpenShard
  <2>3. /\ build' \in BuildRecord /\ UNCHANGED <<build.op, build.limit>>
        /\ build'.pc = "code" /\ build'.rebuilt = r
    BY <1>0, <2>2 DEF BuildRecord
  <2> QED BY <1>8, <2>1, <2>3 DEF OpenShard, BuildShape
<1>9. ASSUME NEW f \in CodeFiles, NEW lost, IndexFile(f, lost) PROVE BuildShape'
  <2>1. PICK c \in BOOLEAN, t \in Nat : build' = [build EXCEPT !.todo = @ \ {f}, !.taken = t, !.clean = c]
    <3>1. CASE build' = [build EXCEPT !.todo = @ \ {f}]
      <4>1. build.clean \in BOOLEAN /\ build.taken \in Nat
        BY <1>0 DEF BuildRecord
      <4>2. build' = [build EXCEPT !.todo = @ \ {f}, !.taken = build.taken, !.clean = build.clean]
        BY <1>0, <3>1 DEF BuildRecord
      <4> QED BY <4>1, <4>2
    <3>2. CASE build' = [build EXCEPT !.todo = @ \ {f}, !.taken = @ + 1, !.clean = @ /\ lost = {}]
      <4>1. build.taken + 1 \in Nat /\ (build.clean /\ lost = {}) \in BOOLEAN
        BY <1>0 DEF BuildRecord
      <4> QED BY <3>2, <4>1
    <3> QED BY <1>9, <3>1, <3>2 DEF IndexFile
  <2>2. /\ build' \in BuildRecord /\ UNCHANGED <<build.op, build.limit, build.rebuilt, build.pc>>
    BY <1>0, <2>1 DEF BuildRecord
  <2>3. graphDb' = [nodes |-> graphDb'.nodes, edges |-> graphDb'.edges]
    <3>1. graphDb' = graphDb \/ (\E n, e : graphDb' = [nodes |-> n, edges |-> e])
      BY <1>9 DEF IndexFile
    <3> QED BY <3>1 DEF BuildShape
  <2> QED BY <1>9, <2>2, <2>3 DEF IndexFile, BuildShape
<1>10. CASE CodeWalked
  <2>1. /\ build' \in BuildRecord /\ UNCHANGED <<build.op, build.limit, build.rebuilt>>
        /\ build'.pc = "docs" /\ build.pc = "code"
    BY <1>0, <1>10 DEF CodeWalked, BuildRecord
  <2> QED BY <1>10, <2>1 DEF CodeWalked, BuildShape
<1>11. ASSUME NEW d \in DocFiles, NEW lost, IndexDoc(d, lost) PROVE BuildShape'
  <2>1. PICK c \in BOOLEAN : c = (build.clean /\ lost = {})
    OBVIOUS
  <2>2. build' = [build EXCEPT !.todo = @ \ {d}, !.clean = c]
    BY <1>11, <2>1 DEF IndexDoc
  <2>3. /\ build' \in BuildRecord /\ UNCHANGED <<build.op, build.limit, build.rebuilt, build.pc>>
    BY <1>0, <2>2 DEF BuildRecord
  <2>4. graphDb' = [nodes |-> graphDb'.nodes, edges |-> graphDb'.edges]
    <3>1. graphDb' = graphDb \/ (\E n : graphDb' = [graphDb EXCEPT !.nodes = n])
      BY <1>11 DEF IndexDoc
    <3> QED BY <3>1 DEF BuildShape
  <2> QED BY <1>11, <2>3, <2>4 DEF IndexDoc, BuildShape
<1>12. CASE Stamp
  <2>1. /\ build' \in BuildRecord /\ UNCHANGED <<build.op, build.limit, build.rebuilt>>
        /\ build'.pc = "ended" /\ build.pc = "docs"
    BY <1>0, <1>12 DEF Stamp, BuildRecord
  <2> QED BY <1>12, <2>1 DEF Stamp, BuildShape
<1>13. CASE EndBuild BY <1>13, NoBuildFacts DEF EndBuild, BuildShape
<1>14. CASE KillBuild BY <1>14, NoBuildFacts DEF KillBuild, BuildShape
<1>15. CASE StartGraphify \/ (\E d \in DocFiles : GraphifyDoc(d)) \/ EndGraphify \/ ToggleDaemon \/ RouteJob
  BY <1>15 DEF StartGraphify, GraphifyDoc, EndGraphify, ToggleDaemon, RouteJob, BuildShape
<1>16. ASSUME NEW f \in AllFiles, NEW v \in 0 .. MaxVersion, Edit(f, v) PROVE BuildShape'
  <2>1. PICK c \in BOOLEAN : c = (build.clean /\ build.op = "none")
    OBVIOUS
  <2>2. build' = [build EXCEPT !.clean = c]
    BY <1>16, <2>1 DEF Edit
  <2>3. /\ build' \in BuildRecord /\ UNCHANGED <<build.op, build.limit, build.rebuilt, build.pc>>
    BY <1>0, <2>2 DEF BuildRecord
  <2>4. disk' \in [AllFiles -> Nat]
    BY <1>0, <1>16, BuildAssumption DEF Edit
  <2> QED BY <1>16, <2>3, <2>4 DEF Edit, BuildShape
<1>17. CASE UNCHANGED buildVars BY <1>17 DEF buildVars, BuildShape
<1> QED BY <1>1, <1>2, <1>3, <1>4, <1>5, <1>6, <1>7, <1>8, <1>9, <1>10, <1>11, <1>12, <1>13,
           <1>14, <1>15, <1>16, <1>17 DEF BuildNext


\* Rows of one file more: the nodes of a file that was not there yet, each at
\* its version, and its edge, once.
LEMMA FileAdds ==
    ASSUME NEW code \in SUBSET CodeFiles, NEW f \in CodeFiles \ code, disk \in [AllFiles -> Nat],
           GraphIs(code, {}), disk' = disk,
           graphDb' = [nodes |-> Upsert(graphDb.nodes, NodesOf(f, disk[f]), disk[f]),
                       edges |-> AddRow(graphDb.edges, EdgeOf(f, disk[f]))]
    PROVE  GraphIs(code \cup {f}, {})'
<1>1. /\ graphDb'.nodes = [k \in DOMAIN graphDb.nodes \cup NodesOf(f, disk[f]) |->
                            IF k \in NodesOf(f, disk[f]) THEN disk[f] ELSE graphDb.nodes[k]]
      /\ graphDb'.edges = AddRow(graphDb.edges, EdgeOf(f, disk[f]))
  BY DEF Upsert
<1>2. /\ DOMAIN graphDb.nodes = UNION {NodesOf(g, disk[g]) : g \in code}
      /\ \A n \in DOMAIN graphDb.nodes : graphDb.nodes[n] = disk[n[1]]
      /\ graphDb.edges = [e \in {EdgeOf(g, disk[g]) : g \in code} |-> 1]
  BY DEF GraphIs
<1>3. DOMAIN graphDb'.nodes = UNION {NodesOf(g, disk[g]) : g \in code \cup {f}}
  <2>1. DOMAIN graphDb'.nodes = DOMAIN graphDb.nodes \cup NodesOf(f, disk[f])
    BY <1>1
  <2>2. {NodesOf(g, disk[g]) : g \in code \cup {f}} = {NodesOf(g, disk[g]) : g \in code} \cup {NodesOf(f, disk[f])}
    OBVIOUS
  <2> QED BY <1>2, <2>1, <2>2
<1>4. ASSUME NEW n \in DOMAIN graphDb'.nodes PROVE graphDb'.nodes[n] = disk[n[1]]
  <2>1. CASE n \in NodesOf(f, disk[f])
    <3>1. n[1] = f
      BY <2>1 DEF NodesOf
    <3> QED BY <1>1, <2>1, <3>1
  <2>2. CASE n \notin NodesOf(f, disk[f])
    BY <1>1, <1>2, <1>4, <2>2
  <2> QED BY <2>1, <2>2
<1>5. graphDb'.edges = [e \in {EdgeOf(g, disk[g]) : g \in code \cup {f}} |-> 1]
  <2>1. EdgeOf(f, disk[f]) \notin {EdgeOf(g, disk[g]) : g \in code}
    BY DEF EdgeOf
  <2>2. {EdgeOf(g, disk[g]) : g \in code \cup {f}} = {EdgeOf(g, disk[g]) : g \in code} \cup {EdgeOf(f, disk[f])}
    OBVIOUS
  <2> HIDE DEF EdgeOf
  <2> DEFINE E == {EdgeOf(g, disk[g]) : g \in code}
             e0 == EdgeOf(f, disk[f])
  <2>3. graphDb.edges = [e \in E |-> 1] /\ e0 \notin E
    BY <1>2, <2>1
  <2> HIDE DEF E, e0
  <2>4. AddRow(graphDb.edges, e0) = [e \in E \cup {e0} |-> 1]
    BY <2>3 DEF AddRow
  <2> QED BY <1>1, <2>2, <2>4 DEF E, e0
<1>6. DOMAIN graphDb'.nodes = UNION ({NodesOf(g, disk'[g]) : g \in code \cup {f}}
                                      \cup {PagesOf(d, disk'[d]) : d \in {}})
  <2>1. {PagesOf(d, disk'[d]) : d \in {}} = {}
    OBVIOUS
  <2> QED BY <1>3, <2>1
<1>7. /\ \A n \in DOMAIN graphDb'.nodes : graphDb'.nodes[n] = disk'[n[1]]
      /\ graphDb'.edges = [e \in {EdgeOf(g, disk'[g]) : g \in code \cup {f}} |-> 1]
  BY <1>4, <1>5
<1> QED BY <1>6, <1>7 DEF GraphIs

\* Rows of one document more: its pages at its version.
LEMMA DocumentAdds ==
    ASSUME NEW code \in SUBSET CodeFiles, NEW docs \in SUBSET DocFiles, NEW d \in DocFiles,
           disk \in [AllFiles -> Nat], disk' = disk, GraphIs(code, docs),
           graphDb'.edges = graphDb.edges,
           graphDb'.nodes = Upsert(graphDb.nodes, PagesOf(d, disk[d]), disk[d])
    PROVE  GraphIs(code, docs \cup {d})'
<1>1. /\ DOMAIN graphDb.nodes = UNION ({NodesOf(g, disk[g]) : g \in code}
                                        \cup {PagesOf(x, disk[x]) : x \in docs})
      /\ \A n \in DOMAIN graphDb.nodes : graphDb.nodes[n] = disk[n[1]]
      /\ graphDb.edges = [e \in {EdgeOf(g, disk[g]) : g \in code} |-> 1]
  BY DEF GraphIs
<1>2. graphDb'.nodes = [k \in DOMAIN graphDb.nodes \cup PagesOf(d, disk[d]) |->
                          IF k \in PagesOf(d, disk[d]) THEN disk[d] ELSE graphDb.nodes[k]]
  BY DEF Upsert
<1>3. DOMAIN graphDb'.nodes = UNION ({NodesOf(g, disk[g]) : g \in code}
                                      \cup {PagesOf(x, disk[x]) : x \in docs \cup {d}})
  <2>1. DOMAIN graphDb'.nodes = DOMAIN graphDb.nodes \cup PagesOf(d, disk[d])
    BY <1>2
  <2>2. {PagesOf(x, disk[x]) : x \in docs \cup {d}} = {PagesOf(x, disk[x]) : x \in docs} \cup {PagesOf(d, disk[d])}
    OBVIOUS
  <2> QED BY <1>1, <2>1, <2>2
<1>4. ASSUME NEW n \in DOMAIN graphDb'.nodes PROVE graphDb'.nodes[n] = disk[n[1]]
  <2>1. CASE n \in PagesOf(d, disk[d])
    <3>1. n[1] = d
      BY <2>1 DEF PagesOf
    <3> QED BY <1>2, <2>1, <3>1
  <2>2. CASE n \notin PagesOf(d, disk[d])
    BY <1>1, <1>2, <1>4, <2>2
  <2> QED BY <2>1, <2>2
<1> QED BY <1>1, <1>3, <1>4 DEF GraphIs


\* A step that changes neither the graph, the files nor the rest of the command,
\* and does not make it clean again, keeps the invariant.
LEMMA SameGraph ==
    ASSUME RebuiltSoFar, UNCHANGED <<graphDb, disk>>,
           UNCHANGED <<build.op, build.pc, build.todo, build.rebuilt>>, build'.clean => build.clean
    PROVE  RebuiltSoFar'
BY DEF RebuiltSoFar, GraphIs, Present, NodesOf, EdgeOf, PagesOf

\* The walk over the documents begins: those that are not there have no pages.
LEMMA NoDocumentYet ==
    ASSUME NEW code, disk \in [AllFiles -> Nat], GraphIs(code, {})
    PROVE  GraphIs(code, DocFiles \ Present(DocFiles))
<1>1. \A d \in DocFiles \ Present(DocFiles) : PagesOf(d, disk[d]) = {}
  <2> SUFFICES ASSUME NEW d \in DocFiles \ Present(DocFiles) PROVE PagesOf(d, disk[d]) = {}
    OBVIOUS
  <2>1. disk[d] = 0
    BY DEF Present
  <2>2. 1 .. 0 = {}
    OBVIOUS
  <2> QED BY <2>1, <2>2 DEF PagesOf
<1>2. UNION ({NodesOf(f, disk[f]) : f \in code} \cup {PagesOf(d, disk[d]) : d \in {}})
        = UNION ({NodesOf(f, disk[f]) : f \in code}
                 \cup {PagesOf(d, disk[d]) : d \in DocFiles \ Present(DocFiles)})
  <2>1. {PagesOf(d, disk[d]) : d \in {}} = {}
    OBVIOUS
  <2>2. {PagesOf(d, disk[d]) : d \in DocFiles \ Present(DocFiles)} \subseteq {{}}
    BY <1>1
  <2> QED BY <2>1, <2>2
<1> QED BY <1>2 DEF GraphIs

\* A rebuild that is still clean keeps having exactly the rows of the files it
\* has worked off.
LEMMA RebuiltStep == RebuildInv /\ [BuildNext]_buildVars => RebuiltSoFar'
<1> SUFFICES ASSUME RebuildInv, [BuildNext]_buildVars PROVE RebuiltSoFar'
  OBVIOUS
<1>0. /\ BuildShape /\ RebuiltSoFar
      /\ build \in BuildRecord /\ disk \in [AllFiles -> Nat]
  BY DEF RebuildInv, BuildShape
<1>1. ASSUME build'.rebuilt = FALSE, build'.op = "rebuild" => build'.pc # "open"
      PROVE  RebuiltSoFar'
  BY <1>1 DEF RebuiltSoFar
<1>2. ASSUME NEW limit \in BuildLimits, NEW dispatch \in BOOLEAN, NEW yes \in BOOLEAN,
             StartBuild(limit, dispatch, yes)
      PROVE  RebuiltSoFar'
  <2>1. build'.rebuilt = FALSE /\ build'.op = "build"
    BY <1>2 DEF StartBuild, NoBuild
  <2> QED BY <1>1, <2>1
<1>3. ASSUME NEW noIpc \in BOOLEAN, NEW answers \in BOOLEAN, StartRebuild(noIpc, answers)
      PROVE  RebuiltSoFar'
  <2>1. build'.rebuilt = FALSE /\ build'.pc # "open"
    BY <1>3 DEF StartRebuild, NoBuild
  <2> QED BY <1>1, <2>1
<1>4. CASE (\E f \in CodeFiles : SubmitFile(f)) \/ WalkSubmitted \/ Poll
  <2>1. build.pc \in {"submit", "poll"} /\ UNCHANGED <<build.op, build.rebuilt>>
    BY <1>0, <1>4 DEF SubmitFile, WalkSubmitted, Poll, BuildRecord
  <2>2. build.op = "build" /\ build.rebuilt = FALSE
    BY <1>0, <2>1 DEF BuildShape, BuildRecord
  <2> QED BY <1>1, <2>1, <2>2
<1>5. CASE DropShards
  <2>1. graphDb' = NoRows /\ build'.rebuilt = build.rebuilt /\ build.pc = "drop"
    BY <1>0, <1>5 DEF DropShards, BuildRecord
  <2>2. build.rebuilt = FALSE
    BY <1>0, <2>1 DEF BuildShape, BuildRecord
  <2> QED BY <2>1, <2>2 DEF RebuiltSoFar
<1>6. CASE DropFails \/ EndBuild \/ KillBuild
  <2>1. build' = NoBuild
    BY <1>6 DEF DropFails, EndBuild, KillBuild
  <2> QED BY <1>1, <2>1, NoBuildFacts
<1>7. CASE OpenShard
  <2>1. /\ build.pc = "open" /\ build'.pc = "code" /\ build'.todo = Present(CodeFiles)
        /\ build'.rebuilt = (build.op = "rebuild") /\ UNCHANGED <<graphDb, disk>>
    BY <1>0, <1>7 DEF OpenShard, BuildRecord
  <2>2. CASE build.op # "rebuild"
    <3>1. build'.rebuilt = FALSE
      BY <2>1, <2>2
    <3> QED BY <1>1, <2>1, <3>1
  <2>3. CASE build.op = "rebuild"
    <3>1. graphDb' = NoRows
      BY <1>0, <2>1, <2>3 DEF RebuiltSoFar
    <3>2. GraphIs({}, {})'
      <4>1. DOMAIN graphDb'.nodes = {}
        BY <3>1 DEF NoRows
      <4>2. graphDb'.edges = [e \in {EdgeOf(f, disk'[f]) : f \in {}} |-> 1]
        <5>1. {EdgeOf(f, disk'[f]) : f \in {}} = {}
          OBVIOUS
        <5>2. <<>> = [e \in {} |-> 1]
          OBVIOUS
        <5> QED BY <3>1, <5>1, <5>2 DEF NoRows
      <4>3. UNION ({NodesOf(f, disk'[f]) : f \in {}} \cup {PagesOf(d, disk'[d]) : d \in {}}) = {}
        OBVIOUS
      <4> QED BY <4>1, <4>2, <4>3 DEF GraphIs
    <3>3. (Present(CodeFiles) \ build.todo)' \ Unparsable = {} /\ Present(CodeFiles)' = Present(CodeFiles)
      BY <2>1 DEF Present
    <3> QED BY <2>1, <3>2, <3>3 DEF RebuiltSoFar
  <2> QED BY <2>2, <2>3
<1>8. ASSUME NEW f \in CodeFiles, NEW lost, IndexFile(f, lost) PROVE RebuiltSoFar'
  <2>1. /\ build.pc = "code" /\ f \in build.todo /\ disk' = disk
        /\ UNCHANGED <<build.op, build.pc, build.rebuilt>> /\ build'.todo = build.todo \ {f}
    BY <1>0, <1>8 DEF IndexFile, BuildRecord
  <2>2. SUFFICES ASSUME build'.rebuilt, build'.clean
        PROVE  /\ build'.todo \subseteq Present(CodeFiles)
               /\ \E code : /\ code = (Present(CodeFiles) \ build'.todo) \ Unparsable
                            /\ GraphIs(code, {})'
    <3>1. Present(CodeFiles)' = Present(CodeFiles)
      BY <2>1 DEF Present
    <3>2. build'.op = "rebuild" /\ build'.pc = "open" => FALSE
      BY <2>1
    <3> QED BY <2>1, <3>1, <3>2 DEF RebuiltSoFar
  <2>3. PICK code : code = (Present(CodeFiles) \ build.todo) \ Unparsable
    OBVIOUS
  <2>4. CASE disk[f] = 0 \/ f \in Unparsable
    <3>1. graphDb' = graphDb /\ build'.clean = build.clean
      BY <1>0, <1>8, <2>4 DEF IndexFile, BuildRecord
    <3>2. build.todo \subseteq Present(CodeFiles) /\ GraphIs(code, {})
      BY <1>0, <2>1, <2>2, <2>3, <3>1 DEF RebuiltSoFar
    <3>3. f \in Unparsable
      BY <2>1, <2>4, <3>2 DEF Present
    <3>4. code = (Present(CodeFiles) \ build'.todo) \ Unparsable
      BY <2>1, <2>3, <3>3
    <3>5. GraphIs(code, {})'
      BY <2>1, <3>1, <3>2 DEF GraphIs
    <3> QED BY <2>1, <3>2, <3>4, <3>5
  <2>5. CASE ~(disk[f] = 0 \/ f \in Unparsable)
    <3>1. build'.clean = (build.clean /\ lost = {})
      BY <1>0, <1>8, <2>5 DEF IndexFile, BuildRecord
    <3>2. build.clean /\ lost = {}
      BY <1>0, <2>2, <3>1 DEF BuildRecord
    <3>3. graphDb' = [nodes |-> Upsert(graphDb.nodes, NodesOf(f, disk[f]), disk[f]),
                      edges |-> AddRow(graphDb.edges, EdgeOf(f, disk[f]))]
      <4>1. NodesOf(f, disk[f]) \ {} = NodesOf(f, disk[f])
        OBVIOUS
      <4> QED BY <1>8, <2>5, <3>2, <4>1 DEF IndexFile
    <3>4. build.todo \subseteq Present(CodeFiles) /\ GraphIs(code, {})
      BY <1>0, <2>1, <2>2, <2>3, <3>2 DEF RebuiltSoFar
    <3>5. code \in SUBSET CodeFiles /\ f \in CodeFiles \ code
      BY <2>1, <2>3 DEF Present
    <3>6. GraphIs(code \cup {f}, {})'
      BY <1>0, <2>1, <3>3, <3>4, <3>5, FileAdds
    <3>7. PICK more : more = code \cup {f}
      OBVIOUS
    <3>8. more = (Present(CodeFiles) \ build'.todo) \ Unparsable
      BY <2>1, <2>3, <2>5, <3>4, <3>7 DEF Present
    <3>9. GraphIs(more, {})'
      BY <3>6, <3>7
    <3> QED BY <2>1, <3>4, <3>8, <3>9
  <2> QED BY <2>4, <2>5
<1>9. CASE CodeWalked
  <2>1. /\ build.pc = "code" /\ build'.pc = "docs" /\ build'.todo = Present(DocFiles)
        /\ UNCHANGED <<build.op, build.rebuilt, build.clean, graphDb, disk>>
        /\ build.todo = {} \/ build.limit > 0
    BY <1>0, <1>9 DEF CodeWalked, BuildRecord
  <2>2. SUFFICES ASSUME build.rebuilt, build.clean
        PROVE  \E code, docs : /\ code = Present(CodeFiles) \ Unparsable
                               /\ docs = DocFiles \ Present(DocFiles)
                               /\ GraphIs(code, docs)'
    <3>1. Present(CodeFiles)' = Present(CodeFiles) /\ Present(DocFiles)' = Present(DocFiles)
      BY <2>1 DEF Present
    <3> QED BY <2>1, <2>2, <3>1 DEF RebuiltSoFar
  <2>3. build.todo = {}
    BY <1>0, <2>1, <2>2 DEF BuildShape
  <2>4. PICK code, docs : code = Present(CodeFiles) \ Unparsable /\ docs = DocFiles \ Present(DocFiles)
    OBVIOUS
  <2>5. code = (Present(CodeFiles) \ build.todo) \ Unparsable
    BY <2>3, <2>4
  <2>6. GraphIs(code, docs)
    BY <1>0, <2>1, <2>2, <2>4, <2>5, NoDocumentYet DEF RebuiltSoFar
  <2>7. GraphIs(code, docs)'
    BY <2>1, <2>6 DEF GraphIs
  <2> QED BY <2>4, <2>7
<1>10. ASSUME NEW d \in DocFiles, NEW lost, IndexDoc(d, lost) PROVE RebuiltSoFar'
  <2>1. /\ build.pc = "docs" /\ d \in build.todo /\ disk' = disk
        /\ UNCHANGED <<build.op, build.pc, build.rebuilt>> /\ build'.todo = build.todo \ {d}
        /\ build'.clean = (build.clean /\ lost = {})
    BY <1>0, <1>10 DEF IndexDoc, BuildRecord
  <2>2. SUFFICES ASSUME build'.rebuilt, build'.clean
        PROVE  /\ build'.todo \subseteq Present(DocFiles)
               /\ \E code, docs : /\ code = Present(CodeFiles) \ Unparsable
                                  /\ docs = DocFiles \ build'.todo
                                  /\ GraphIs(code, docs)'
    <3>1. Present(CodeFiles)' = Present(CodeFiles) /\ Present(DocFiles)' = Present(DocFiles)
      BY <2>1 DEF Present
    <3> QED BY <2>1, <2>2, <3>1 DEF RebuiltSoFar
  <2>3. build.clean /\ lost = {}
    BY <1>0, <2>1, <2>2 DEF BuildRecord
  <2>4. PICK code, docs : code = Present(CodeFiles) \ Unparsable /\ docs = DocFiles \ build.todo
    OBVIOUS
  <2>5. build.todo \subseteq Present(DocFiles) /\ GraphIs(code, docs)
    BY <1>0, <2>1, <2>2, <2>3, <2>4 DEF RebuiltSoFar
  <2>6. /\ graphDb'.edges = graphDb.edges
        /\ graphDb'.nodes = Upsert(graphDb.nodes, PagesOf(d, disk[d]), disk[d])
    <3>1. disk[d] # 0
      BY <2>1, <2>5 DEF Present
    <3>2. PagesOf(d, disk[d]) \ {} = PagesOf(d, disk[d])
      OBVIOUS
    <3>3. graphDb' = [graphDb EXCEPT !.nodes = Upsert(@, PagesOf(d, disk[d]), disk[d])]
      BY <1>10, <2>3, <3>1, <3>2 DEF IndexDoc
    <3> QED BY <1>0, <3>3 DEF BuildShape
  <2>7. PICK more : more = docs \cup {d}
    OBVIOUS
  <2>8. GraphIs(code, more)'
    <3>1. code \in SUBSET CodeFiles /\ docs \in SUBSET DocFiles
      BY <2>4 DEF Present
    <3> QED BY <1>0, <2>1, <2>5, <2>6, <2>7, <3>1, DocumentAdds
  <2>9. more = DocFiles \ build'.todo
    BY <2>1, <2>4, <2>7
  <2> QED BY <2>1, <2>4, <2>5, <2>8, <2>9
<1>11. CASE Stamp
  <2>1. /\ build.pc = "docs" /\ build.todo = {} /\ build'.pc = "ended"
        /\ UNCHANGED <<build.op, build.rebuilt, build.clean, graphDb, disk>>
    BY <1>0, <1>11 DEF Stamp, BuildRecord
  <2>2. SUFFICES ASSUME build.rebuilt, build.clean
        PROVE  \E code : code = Present(CodeFiles) \ Unparsable /\ GraphIs(code, DocFiles)'
    <3>1. Present(CodeFiles)' = Present(CodeFiles)
      BY <2>1 DEF Present
    <3> QED BY <2>1, <2>2, <3>1 DEF RebuiltSoFar
  <2>3. PICK code, docs : code = Present(CodeFiles) \ Unparsable /\ docs = DocFiles \ build.todo
    OBVIOUS
  <2>4. docs = DocFiles
    BY <2>1, <2>3
  <2>5. GraphIs(code, DocFiles)
    BY <1>0, <2>1, <2>2, <2>3, <2>4 DEF RebuiltSoFar
  <2>6. GraphIs(code, DocFiles)'
    BY <2>1, <2>5 DEF GraphIs
  <2> QED BY <2>3, <2>6
<1>12. CASE StartGraphify \/ (\E d \in DocFiles : GraphifyDoc(d)) \/ EndGraphify \/ ToggleDaemon \/ RouteJob
  BY <1>0, <1>12, SameGraph DEF StartGraphify, GraphifyDoc, EndGraphify, ToggleDaemon, RouteJob
<1>13. ASSUME NEW f \in AllFiles, NEW v \in 0 .. MaxVersion, Edit(f, v) PROVE RebuiltSoFar'
  <2>1. /\ UNCHANGED <<build.op, build.pc, build.rebuilt, graphDb>>
        /\ build'.clean = (build.clean /\ build.op = "none")
    BY <1>0, <1>13 DEF Edit, BuildRecord
  <2>2. ~(build.rebuilt /\ build'.clean)
    BY <1>0, <2>1 DEF BuildShape, BuildRecord
  <2> QED BY <1>0, <2>1, <2>2 DEF RebuiltSoFar
<1>14. CASE UNCHANGED buildVars
  BY <1>0, <1>14, SameGraph DEF buildVars
<1> QED BY <1>2, <1>3, <1>4, <1>5, <1>6, <1>7, <1>8, <1>9, <1>10, <1>11, <1>12, <1>13, <1>14 DEF BuildNext

\* A rebuild that ended clean left exactly the graph of the files, whatever
\* builds, kills, failures and edits came before.
THEOREM RebuildsAreExact == BuildSpec => []RebuildIsExact
<1>1. BuildInit => RebuildInv
  <2> SUFFICES ASSUME BuildInit PROVE RebuildInv
    OBVIOUS
  <2>1. BuildShape
    BY NoBuildFacts DEF BuildInit, BuildShape, NoRows
  <2> QED BY <2>1, NoBuildFacts DEF BuildInit, RebuildInv, RebuiltSoFar
<1>2. RebuildInv /\ [BuildNext]_buildVars => RebuildInv'
  BY BuildShapeStep, RebuiltStep DEF RebuildInv
<1>3. RebuildInv => RebuildIsExact
  BY DEF RebuildInv, RebuiltSoFar, GraphIs, RebuildIsExact
<1> QED BY <1>1, <1>2, <1>3, PTL DEF BuildSpec

-----------------------------------------------------------------------------
(* Recursive functions on numbers, one length at a time. *)

\* A set of numbers that is not empty has a least one.
LEMMA LeastNumber ==
    ASSUME NEW T, T \subseteq Nat, T # {} PROVE \E x \in T : \A y \in T : x <= y
<1>1. PICK x \in T : \A y \in T : <<y, x>> \notin OpToRel(<, Nat)
    BY WFMin, NatLessThanWellFounded, Zenon
<1>2. \A y \in T : <<y, x>> \in Nat \X Nat => ~ (y < x)
    BY <1>1, Zenon DEF OpToRel
<1>3. \A y \in T : x \in Nat /\ y \in Nat /\ ~ (y < x)
    BY <1>2
<1> QED
    BY <1>3

\* The sequences of a sequence, one after the other.
LEMMA FlattenSteps ==
    ASSUME NEW S, NEW ss \in Seq(Seq(S)), Len(ss) # 0
    PROVE  \E g \in [1 .. Len(ss) -> Seq(S)] :
             /\ \A i \in 1 .. Len(ss) : g[i] = IF i = 1 THEN ss[i] ELSE g[i - 1] \o ss[i]
             /\ FlattenSeq(ss) = g[Len(ss)]
<1> DEFINE Unfolds(g, n) == \A i \in 1 .. n : g[i] = IF i = 1 THEN ss[i] ELSE g[i - 1] \o ss[i]
           N == Len(ss)
           T == {n \in Nat : n <= N /\ ~\E g \in [1 .. n -> Seq(S)] : Unfolds(g, n)}
<1>1. N \in Nat /\ N >= 1 /\ \A i \in 1 .. N : ss[i] \in Seq(S)
    OBVIOUS
<1>2. T = {}
  <2> SUFFICES ASSUME T # {} PROVE FALSE
      OBVIOUS
  <2>1. PICK n \in T : \A y \in T : n <= y
    <3> HIDE DEF T
    <3>1. T \subseteq Nat
        BY DEF T
    <3> QED
        BY <3>1, LeastNumber
  <2>2. n # 0
    <3>1. [i \in 1 .. 0 |-> ss[i]] \in [1 .. 0 -> Seq(S)] /\ Unfolds([i \in 1 .. 0 |-> ss[i]], 0)
        OBVIOUS
    <3> QED
        BY <2>1, <3>1
  <2>3. n - 1 \in Nat /\ n - 1 <= N /\ n - 1 \notin T /\ n \in 1 .. N
    <3>1. n \in Nat /\ n <= N
        BY <2>1
    <3> HIDE DEF T
    <3> QED
        BY <1>1, <2>1, <2>2, <3>1
  <2>4. PICK g \in [1 .. n - 1 -> Seq(S)] : Unfolds(g, n - 1)
      BY <2>3
  <2> DEFINE h == [i \in 1 .. n |-> IF i < n THEN g[i] ELSE IF n = 1 THEN ss[1] ELSE g[n - 1] \o ss[n]]
  <2>5. h \in [1 .. n -> Seq(S)]
    <3>1. ASSUME NEW i \in 1 .. n PROVE h[i] \in Seq(S)
      <4>1. CASE i < n
          BY <2>3, <4>1
      <4>2. CASE i = n
        <5>1. CASE n = 1
            BY <1>1, <2>3, <4>2, <5>1
        <5>2. CASE n # 1
          <6>1. g[n - 1] \in Seq(S) /\ ss[n] \in Seq(S)
              BY <1>1, <2>3, <5>2
          <6> QED
              BY <4>2, <5>2, <6>1, <2>3
        <5> QED
            BY <5>1, <5>2
      <4> QED
          BY <2>3, <4>1, <4>2
    <3> QED
        BY <3>1
  <2>6. Unfolds(h, n)
    <3> SUFFICES ASSUME NEW i \in 1 .. n PROVE h[i] = IF i = 1 THEN ss[i] ELSE h[i - 1] \o ss[i]
        OBVIOUS
    <3>1. CASE i < n
      <4>1. i \in 1 .. n - 1 /\ h[i] = g[i] /\ (i # 1 => h[i - 1] = g[i - 1])
          BY <2>3, <3>1
      <4>2. g[i] = IF i = 1 THEN ss[i] ELSE g[i - 1] \o ss[i]
          BY <2>4, <4>1
      <4> HIDE DEF h
      <4> QED
          BY <4>1, <4>2
    <3>2. CASE i = n
      <4>1. h[i] = (IF n = 1 THEN ss[1] ELSE g[n - 1] \o ss[n]) /\ (n # 1 => h[n - 1] = g[n - 1])
          BY <2>3, <3>2
      <4> HIDE DEF h
      <4> QED
          BY <3>2, <4>1
    <3> QED
        BY <2>3, <3>1, <3>2
  <2> HIDE DEF h
  <2> QED
      BY <2>1, <2>5, <2>6
<1>3. PICK g \in [1 .. N -> Seq(S)] : Unfolds(g, N)
  <2>1. N \in Nat /\ N <= N /\ N \notin T
    <3> HIDE DEF T
    <3> QED
        BY <1>1, <1>2
  <2> HIDE DEF N, Unfolds
  <2> QED
      BY <2>1
<1> DEFINE body(f) == [i \in 1 .. N |-> IF i = 1 THEN ss[i] ELSE f[i - 1] \o ss[i]]
           fl == CHOOSE f : f = body(f)
<1>4. g = body(g)
    BY <1>3
<1>5. fl = body(fl)
    BY <1>4
<1>6. FlattenSeq(ss) = fl[N]
    BY <1>1 DEF FlattenSeq
<1> HIDE DEF fl
<1>7. DOMAIN fl = 1 .. N /\ \A i \in 1 .. N : fl[i] = IF i = 1 THEN ss[i] ELSE fl[i - 1] \o ss[i]
    BY <1>5
<1> DEFINE U == {n \in Nat : n \in 1 .. N /\ fl[n] # g[n]}
<1>8. U = {}
  <2> SUFFICES ASSUME U # {} PROVE FALSE
      OBVIOUS
  <2>1. PICK n \in U : \A y \in U : n <= y
    <3>1. U \subseteq Nat
        OBVIOUS
    <3> HIDE DEF U
    <3> QED
        BY <3>1, LeastNumber
  <2>2. CASE n = 1
      BY <1>3, <1>7, <2>1, <2>2
  <2>3. CASE n # 1
    <3>1. n - 1 \in 1 .. N /\ n \in 1 .. N /\ n - 1 \notin U
        BY <1>1, <2>1, <2>3
    <3>2. fl[n - 1] = g[n - 1]
        BY <3>1
    <3>3. fl[n] = fl[n - 1] \o ss[n]
        BY <1>7, <2>3, <3>1
    <3>4. g[n] = g[n - 1] \o ss[n]
        BY <1>3, <2>3, <3>1
    <3> QED
        BY <2>1, <3>2, <3>3, <3>4
  <2> QED
      BY <2>2, <2>3
<1>9. fl[N] = g[N]
    BY <1>1, <1>8
<1> QED
    BY <1>3, <1>6, <1>9

\* A flattened sequence of sequences over a set is a sequence over it.
LEMMA FlattenIn ==
    ASSUME NEW S, NEW ss \in Seq(Seq(S)) PROVE FlattenSeq(ss) \in Seq(S)
<1>1. CASE Len(ss) = 0
  <2>1. ss = <<>>
      BY <1>1, EmptySeq
  <2> QED
      BY <1>1, <2>1 DEF FlattenSeq
<1>2. CASE Len(ss) # 0
  <2>1. PICK g \in [1 .. Len(ss) -> Seq(S)] : FlattenSeq(ss) = g[Len(ss)]
      BY <1>2, FlattenSteps
  <2>2. Len(ss) \in 1 .. Len(ss)
    <3>1. Len(ss) \in Nat
        BY LenProperties
    <3> QED
        BY <1>2, <3>1
  <2>3. g[Len(ss)] \in Seq(S)
      BY <2>1, <2>2
  <2> QED
      BY <2>1, <2>3, Zenon
<1> QED
    BY <1>1, <1>2

\* The one element of a set, or none, as a sequence.
LEMMA AtMostOne ==
    ASSUME NEW S, \A x, y \in S : x = y
    PROVE  SetToSeq(S) \in Seq(S)
<1>1. CASE S = {}
  <2>1. Cardinality(S) = 0
      BY <1>1, FS_EmptySet
  <2>2. <<>> \in [1 .. 0 -> S] /\ IsInjective(<<>>)
      BY DEF IsInjective
  <2>3. SetToSeq(S) \in [1 .. 0 -> S]
      BY <2>1, <2>2 DEF SetToSeq
  <2> QED
      BY <2>3
<1>2. CASE S # {}
  <2>1. PICK e : S = {e}
      BY <1>2
  <2>2. Cardinality(S) = 1
      BY <2>1, FS_Singleton
  <2>3. [i \in 1 .. 1 |-> e] \in [1 .. 1 -> S] /\ IsInjective([i \in 1 .. 1 |-> e])
      BY <2>1 DEF IsInjective
  <2>4. SetToSeq(S) \in [1 .. 1 -> S]
      BY <2>2, <2>3 DEF SetToSeq
  <2>5. \A f \in [1 .. 1 -> S] : f \in Seq(S)
      BY 1 \in Nat, SeqDef
  <2> QED
      BY <2>4, <2>5
<1> QED
    BY <1>1, <1>2

\* A sequence holds what it is made of.
LEMMA MadeOf ==
    ASSUME NEW S, NEW s \in Seq(S) PROVE ToSet(s) \subseteq S /\ s \in Seq(ToSet(s))
<1> QED
    BY DEF ToSet

\* What the sequences the commands build from others hold.
LEMMA Holds ==
    ASSUME NEW S
    PROVE  /\ \A s \in Seq(S) : s # <<>> => /\ Head(s) \in ToSet(s) /\ Head(s) \in S
                                            /\ Tail(s) \in Seq(S) /\ ToSet(Tail(s)) \subseteq ToSet(s)
           /\ \A s, t \in Seq(S) : s \o t \in Seq(S) /\ ToSet(s \o t) = ToSet(s) \cup ToSet(t)
           /\ \A s \in Seq(S) : Reverse(s) \in Seq(S) /\ ToSet(Reverse(s)) \subseteq ToSet(s)
           /\ \A s \in Seq(S) : \A n \in Nat : SubSeq(s, n, Len(s)) \in Seq(S) \/ n = 0
<1>1. ASSUME NEW s \in Seq(S), s # <<>>
      PROVE  /\ Head(s) \in ToSet(s) /\ Head(s) \in S
             /\ Tail(s) \in Seq(S) /\ ToSet(Tail(s)) \subseteq ToSet(s)
  <2>1. /\ Head(s) = s[1] /\ 1 \in DOMAIN s /\ Head(s) \in S /\ Tail(s) \in Seq(S)
        /\ \A i \in DOMAIN Tail(s) : i + 1 \in DOMAIN s /\ Tail(s)[i] = s[i + 1]
      BY <1>1
  <2> QED
      BY <2>1 DEF ToSet
<1>2. ASSUME NEW s \in Seq(S), NEW t \in Seq(S)
      PROVE  s \o t \in Seq(S) /\ ToSet(s \o t) = ToSet(s) \cup ToSet(t)
  <2>1. /\ s \o t \in Seq(S) /\ Len(s \o t) = Len(s) + Len(t)
        /\ \A i \in 1 .. Len(s) + Len(t) : (s \o t)[i] = IF i <= Len(s) THEN s[i] ELSE t[i - Len(s)]
        /\ DOMAIN (s \o t) = 1 .. Len(s) + Len(t)
        /\ Len(s) \in Nat /\ Len(t) \in Nat /\ DOMAIN s = 1 .. Len(s) /\ DOMAIN t = 1 .. Len(t)
      BY ConcatProperties, LenProperties
  <2>2. ToSet(s \o t) \subseteq ToSet(s) \cup ToSet(t)
      BY <2>1 DEF ToSet
  <2>3. \A i \in DOMAIN s : i \in DOMAIN (s \o t) /\ (s \o t)[i] = s[i]
      BY <2>1
  <2>4. \A i \in DOMAIN t : i + Len(s) \in DOMAIN (s \o t) /\ (s \o t)[i + Len(s)] = t[i]
    <3>1. \A i \in 1 .. Len(t) : i + Len(s) \in 1 .. Len(s) + Len(t) /\ ~(i + Len(s) <= Len(s))
                                 /\ i + Len(s) - Len(s) = i
        BY <2>1
    <3> QED
        BY <2>1, <3>1
  <2>5. ToSet(s) \subseteq ToSet(s \o t)
      BY <2>3 DEF ToSet
  <2>6. ToSet(t) \subseteq ToSet(s \o t)
      BY <2>4 DEF ToSet
  <2> QED
      BY <2>1, <2>2, <2>5, <2>6
<1>3. ASSUME NEW s \in Seq(S) PROVE Reverse(s) \in Seq(S) /\ ToSet(Reverse(s)) \subseteq ToSet(s)
  <2>1. Len(s) \in Nat /\ DOMAIN s = 1 .. Len(s)
      OBVIOUS
  <2>2. \A i \in 1 .. Len(s) : (Len(s) - i) + 1 \in 1 .. Len(s)
      BY <2>1
  <2>3. Reverse(s) \in [1 .. Len(s) -> S]
      BY <2>1, <2>2 DEF Reverse
  <2> QED
      BY <2>1, <2>2, <2>3 DEF Reverse, ToSet
<1>4. ASSUME NEW s \in Seq(S), NEW n \in Nat, n # 0 PROVE SubSeq(s, n, Len(s)) \in Seq(S)
    BY <1>4
<1> QED
    BY <1>1, <1>2, <1>3, <1>4

-----------------------------------------------------------------------------
(* The platforms and their files. *)

\* The names of the platforms.
LEMMA TheKnown ==
    /\ AllKnown \in Seq(ToSet(AllKnown))
    /\ \A p \in ToSet(AllKnown) :
        p \in {"claude-code", "codex", "cursor", "windsurf", "zed", "continue", "opencode",
               "antigravity", "gemini-cli", "aider", "copilot", "factory-droid", "trae", "kiro",
               "qoder", "openclaw", "hermes", "qwen", "vscode"}
<1> QED
    BY DEF AllKnown, ToSet

\* Every platform has a manifest and a registry in every scope.
LEMMA PathsAreNamed ==
    ASSUME NEW p \in ToSet(AllKnown), NEW scope \in {"user", "project"}
    PROVE  ManifestPath(p, scope) # "" /\ McpConfigPath(p, scope) # ""
<1>1. \/ p = "claude-code" \/ p = "codex" \/ p = "cursor" \/ p = "windsurf" \/ p = "zed"
      \/ p = "continue" \/ p = "opencode" \/ p = "antigravity" \/ p = "gemini-cli"
      \/ p = "aider" \/ p = "copilot" \/ p = "factory-droid" \/ p = "trae" \/ p = "kiro"
      \/ p = "qoder" \/ p = "openclaw" \/ p = "hermes" \/ p = "qwen" \/ p = "vscode"
    BY TheKnown
<1>2. /\ AdapterOf("claude-code") = ClaudeCode /\ AdapterOf("codex") = Codex
      /\ AdapterOf("cursor") = Cursor /\ AdapterOf("windsurf") = Windsurf
      /\ AdapterOf("zed") = Zed /\ AdapterOf("continue") = ContinueDev
      /\ AdapterOf("opencode") = OpenCode /\ AdapterOf("antigravity") = Antigravity
      /\ AdapterOf("gemini-cli") = GeminiCli /\ AdapterOf("aider") = Aider
      /\ AdapterOf("copilot") = Copilot /\ AdapterOf("factory-droid") = FactoryDroid
      /\ AdapterOf("trae") = Trae /\ AdapterOf("kiro") = Kiro /\ AdapterOf("qoder") = Qoder
      /\ AdapterOf("openclaw") = OpenClaw /\ AdapterOf("hermes") = Hermes
      /\ AdapterOf("qwen") = Qwen /\ AdapterOf("vscode") = VsCode
    BY DEF AdapterOf
<1> DEFINE HasPaths(a) == /\ a.manifest["user"] # "" /\ a.manifest["project"] # ""
                          /\ a.mcp["user"] # "" /\ a.mcp["project"] # ""
<1>3. /\ HasPaths(ClaudeCode) /\ HasPaths(Codex) /\ HasPaths(Cursor)
      /\ HasPaths(Windsurf) /\ HasPaths(Zed)
    BY DEF ClaudeCode, Codex, Cursor, Windsurf, Zed, Agents, HomeOnly, Adapter, At
<1>4. /\ HasPaths(ContinueDev) /\ HasPaths(OpenCode) /\ HasPaths(Antigravity)
      /\ HasPaths(GeminiCli) /\ HasPaths(Aider)
    BY DEF ContinueDev, OpenCode, Antigravity, GeminiCli, Aider, Agents, HomeOnly, Adapter, At
<1>5. /\ HasPaths(Copilot) /\ HasPaths(FactoryDroid) /\ HasPaths(Trae)
      /\ HasPaths(Kiro) /\ HasPaths(Qoder)
    BY DEF Copilot, FactoryDroid, Trae, Kiro, Qoder, Agents, HomeOnly, Adapter, At
<1>6. /\ HasPaths(OpenClaw) /\ HasPaths(Hermes) /\ HasPaths(Qwen)
      /\ HasPaths(VsCode)
    BY DEF OpenClaw, Hermes, Qwen, VsCode, Agents, HomeOnly, Adapter, At
<1> HIDE DEF HasPaths
<1>7. HasPaths(AdapterOf(p))
    BY <1>1, <1>2, <1>3, <1>4, <1>5, <1>6
<1> QED
    BY <1>7 DEF ManifestPath, McpConfigPath, HasPaths

\* A command without --platform goes through known platforms.
LEMMA TargetsAreKnown ==
    ASSUME NEW t \in Targets
    PROVE  t \in Seq(Used) /\ Used \subseteq ToSet(AllKnown)
<1>1. DetectInstalled(PresentPlatforms) \in Seq(ToSet(AllKnown))
  <2> DEFINE picked == [i \in DOMAIN AllKnown |->
                IF AllKnown[i] \in {"claude-code", "qoder"} \cup PresentPlatforms
                THEN <<AllKnown[i]>> ELSE <<>>]
  <2>1. DOMAIN AllKnown = 1 .. Len(AllKnown) /\ Len(AllKnown) \in Nat
        /\ \A i \in DOMAIN AllKnown : AllKnown[i] \in ToSet(AllKnown)
      BY TheKnown, LenProperties DEF ToSet
  <2>2. picked \in Seq(Seq(ToSet(AllKnown)))
      BY <2>1
  <2> HIDE DEF picked
  <2>3. FlattenSeq(picked) \in Seq(ToSet(AllKnown))
      BY <2>2, FlattenIn
  <2> QED
      BY <2>3 DEF DetectInstalled, picked
<1>2. \A u \in Targets : u \in Seq(ToSet(AllKnown))
  <2>1. Named \subseteq ToSet(AllKnown)
      BY InstallAssumption
  <2>2. \A p \in Named : <<p>> \in Seq(ToSet(AllKnown))
      BY <2>1
  <2>3. \A u \in Targets : u = DetectInstalled(PresentPlatforms) \/ \E p \in Named : u = <<p>>
      BY DEF Targets
  <2> QED
      BY <1>1, <2>2, <2>3
<1>3. \A u \in Targets : ToSet(u) \subseteq ToSet(AllKnown) /\ u \in Seq(ToSet(u))
    BY <1>2, MadeOf
<1>4. ToSet(t) \subseteq Used
    BY DEF Used
<1> QED
    BY <1>3, <1>4 DEF Used

\* The files of the platforms the commands use.
LEMMA PathsAreFiles ==
    ASSUME NEW p \in Used, NEW scope \in Scopes
    PROVE  /\ ManifestPath(p, scope) \in Files /\ McpConfigPath(p, scope) \in Files
           /\ HooksPath(p, scope) # "" => HooksPath(p, scope) \in Files
<1>1. p \in ToSet(AllKnown)
    BY TargetsAreKnown DEF Used
<1>2. scope \in {"user", "project"}
    BY InstallAssumption
<1>3. PathsOf(p, scope) \subseteq Files
    BY DEF Files, Used
<1> QED
    BY <1>1, <1>2, <1>3, PathsAreNamed DEF PathsOf

-----------------------------------------------------------------------------
(* Installs and rollbacks: no command destroys what the user wrote. *)

Kinds == {"manifest", "mcp", "hooks", "unmanifest", "unmcp"}

\* A file that is there is not the absent file, and keeps not being it.
LEMMA GoneIsApart ==
    /\ Gone \in Contents /\ Torn \in Contents /\ Nothing \in Contents /\ WriteFailed \notin Contents
    /\ Gone.user = 0 /\ Nothing.user = 0 /\ Nothing # Gone /\ Torn # Gone
    /\ \A c \in Contents : c # Gone =>
         c \in [user : Nat, mneme : {"none", "ours", "edited"}, made : BOOLEAN, valid : BOOLEAN]
    /\ \A c \in [user : Nat, mneme : {"none", "ours", "edited"}, made : BOOLEAN, valid : BOOLEAN] :
         c # Gone /\ c \in Contents
<1>1. /\ Nothing.user = 0 /\ Nothing.mneme = "none"
      /\ Nothing \in [user : Nat, mneme : {"none", "ours", "edited"}, made : BOOLEAN, valid : BOOLEAN]
    BY DEF Nothing
<1>2. Gone.user = 0 /\ Gone.mneme = "gone"
    BY DEF Gone, Nothing
<1>3. /\ Torn \in [user : Nat, mneme : {"none", "ours", "edited"}, made : BOOLEAN, valid : BOOLEAN]
      /\ Torn.mneme = "none"
    BY DEF Torn, Nothing
<1>4. WriteFailed.mneme = "failed"
    BY DEF WriteFailed, Nothing
<1>5. WriteFailed \notin Contents
    BY <1>2, <1>4 DEF Contents
<1> QED
    BY <1>1, <1>2, <1>3, <1>5 DEF Contents

\* The parts of a step.
LEMMA StepIs ==
    ASSUME NEW whats \in SUBSET Kinds, NEW s \in Steps(whats)
    PROVE  /\ s \in Steps(Kinds) /\ s.what \in whats /\ s.p \in Used /\ s.file \in Files
           /\ s.what = "mcp" /\ s.file \notin Unkept => AdapterOf(s.p).writer # "append"
           /\ s.what = "hooks" /\ s.file \notin Unkept => AdapterOf(s.p).hooks.writer # "plain"
<1> QED
    BY DEF Steps

\* What is in a file for a command to go on with.
LEMMA ExistingIs ==
    ASSUME InstallTypeOK, NEW f \in Files
    PROVE  /\ Existing(f) \in [user : Nat, mneme : {"none", "ours", "edited"},
                               made : BOOLEAN, valid : BOOLEAN]
           /\ files[f] # Gone => Existing(f) = files[f]
           /\ files[f] = Gone => Existing(f).user = 0
           /\ files[f] \in Contents
<1>1. files[f] \in Contents
    BY DEF InstallTypeOK
<1>2. Nothing \in [user : Nat, mneme : {"none", "ours", "edited"}, made : BOOLEAN, valid : BOOLEAN]
    BY DEF Nothing
<1> QED
    BY <1>1, <1>2, GoneIsApart DEF Existing

\* A writer keeps the text of the user, wherever it does not write anew.
LEMMA WritersKeepText ==
    ASSUME InstallTypeOK, NEW s \in Steps(Kinds), Written(s) # WriteFailed
    PROVE  /\ Written(s) \in Contents
           /\ s.file \notin Unkept => Written(s).user = Existing(s.file).user
           /\ files[s.file] # Gone => Written(s) # Gone
<1> DEFINE c == Existing(s.file)
           Real == [user : Nat, mneme : {"none", "ours", "edited"}, made : BOOLEAN, valid : BOOLEAN]
           KeptText(d) == d = WriteFailed \/ (d \in Real /\ d.user = c.user)
<1>1. c \in Real /\ (files[s.file] = Gone => c.user = 0)
    BY StepIs, ExistingIs
<1>2. s.file \in Files /\ s.what \in Kinds
    BY StepIs
<1> HIDE DEF c
<1>3. KeptText(Inject(c, cmd.force))
    BY <1>1 DEF Inject
<1>4. KeptText(Merge(c))
    BY <1>1 DEF Merge
<1>5. KeptText([c EXCEPT !.mneme = "ours"]) /\ KeptText(RemoveBlock(c))
    BY <1>1 DEF RemoveBlock
<1>6. KeptText(Strip(AdapterOf(s.p).writer, c))
    BY <1>1 DEF Strip
<1>7. Merge(Nothing) \in Real
    BY DEF Merge, Nothing
<1> DEFINE Done(d) == /\ d \in Contents /\ (s.file \notin Unkept => d.user = c.user)
                      /\ files[s.file] # Gone => d # Gone
<1>8. \A d : KeptText(d) /\ d # WriteFailed => Done(d)
    BY GoneIsApart
<1> HIDE DEF KeptText, Real
<1>9. CASE s.what = "manifest"
  <2>1. Written(s) = Inject(c, cmd.force)
      BY <1>9 DEF Written, c
  <2> QED
      BY <1>3, <1>8, <2>1 DEF c
<1>10. CASE s.what = "mcp"
  <2>1. CASE AdapterOf(s.p).writer # "append"
    <3>1. Written(s) = Merge(c)
        BY <1>10, <2>1 DEF Written, c
    <3> QED
        BY <1>4, <1>8, <3>1 DEF c
  <2>2. CASE AdapterOf(s.p).writer = "append"
    <3>1. Written(s) = [c EXCEPT !.mneme = "ours"]
        BY <1>10, <2>2 DEF Written, c
    <3> QED
        BY <1>5, <1>8, <3>1 DEF c
  <2> QED
      BY <2>1, <2>2
<1>11. CASE s.what = "hooks"
  <2>1. CASE AdapterOf(s.p).hooks.writer = "plain"
    <3>1. Written(s) = Merge(Nothing)
        BY <1>11, <2>1 DEF Written
    <3>2. s.file \in Unkept
        BY <1>11, <2>1, StepIs
    <3>3. Written(s) \in Contents /\ Written(s) # Gone
        BY <1>7, <3>1, GoneIsApart DEF Real
    <3> QED
        BY <3>2, <3>3
  <2>2. CASE AdapterOf(s.p).hooks.writer # "plain"
    <3>1. Written(s) = Merge(c)
        BY <1>11, <2>2 DEF Written, c
    <3> QED
        BY <1>4, <1>8, <3>1 DEF c
  <2> QED
      BY <2>1, <2>2
<1>12. CASE s.what \in {"unmanifest", "unmcp"} /\ files[s.file] = Gone
  <2>1. Written(s) = Gone
      BY <1>12 DEF Written
  <2> QED
      BY <1>1, <1>12, <2>1, GoneIsApart DEF c
<1>13. CASE s.what = "unmanifest" /\ files[s.file] # Gone
  <2>1. Written(s) = RemoveBlock(c)
      BY <1>13 DEF Written, c
  <2> QED
      BY <1>5, <1>8, <2>1 DEF c
<1>14. CASE s.what = "unmcp" /\ files[s.file] # Gone
  <2>1. Written(s) = Strip(AdapterOf(s.p).writer, c)
      BY <1>14 DEF Written, c
  <2> QED
      BY <1>6, <1>8, <2>1 DEF c
<1> QED
    BY <1>2, <1>9, <1>10, <1>11, <1>12, <1>13, <1>14 DEF Kinds

\* A copy made before a write leaves the copies of the file there, unless they
\* were made in the same second, and the text of the file is among them.
LEMMA CopiesStay ==
    ASSUME InstallTypeOK, NEW s \in Steps(Kinds),
           baks' = Backup(s), clobbered' = clobbered \cup Clobbers(s)
    PROVE  /\ baks' \in [Files -> [Seconds -> Contents]]
           /\ clobbered' \subseteq Files /\ clobbered \subseteq clobbered'
           /\ \A f \in Files \ clobbered' : \A text : BackedUp(baks, f, text) => BackedUp(baks', f, text)
           /\ files[s.file] # Gone /\ s.file \notin Unkept => BackedUp(baks', s.file, files[s.file].user)
<1>1. s.file \in Files /\ seconds \in Seconds /\ files[s.file] \in Contents
      /\ baks \in [Files -> [Seconds -> Contents]] /\ clobbered \subseteq Files
    BY StepIs DEF InstallTypeOK
<1>2. baks' \in [Files -> [Seconds -> Contents]]
    BY <1>1 DEF Backup
<1>3. clobbered' \subseteq Files /\ clobbered \subseteq clobbered'
    BY <1>1 DEF Clobbers
<1>4. ASSUME NEW f \in Files \ clobbered', NEW text, BackedUp(baks, f, text)
      PROVE  BackedUp(baks', f, text)
  <2>1. PICK x \in Seconds : baks[f][x] # Gone /\ baks[f][x].user = text
      BY <1>4 DEF BackedUp
  <2>2. CASE f = s.file /\ x = seconds /\ BacksUp(s)
    <3>1. baks[f][x] = files[f]
        BY <2>1, <2>2 DEF Clobbers
    <3>2. baks'[f][x] = files[f]
        BY <1>1, <2>2 DEF Backup
    <3> QED
        BY <2>1, <3>1, <3>2 DEF BackedUp
  <2>3. CASE ~(f = s.file /\ x = seconds /\ BacksUp(s))
    <3>1. baks'[f][x] = baks[f][x]
        BY <1>1, <2>3 DEF Backup
    <3> QED
        BY <2>1, <3>1 DEF BackedUp
  <2> QED
      BY <2>2, <2>3
<1>5. ASSUME files[s.file] # Gone, s.file \notin Unkept
      PROVE  BackedUp(baks', s.file, files[s.file].user)
  <2>1. BacksUp(s)
      BY <1>5, StepIs DEF BacksUp
  <2>2. baks'[s.file][seconds] = files[s.file]
      BY <1>1, <2>1 DEF Backup
  <2>3. baks'[s.file][seconds] # Gone /\ baks'[s.file][seconds].user = files[s.file].user
      BY <1>5, <2>2
  <2> QED
      BY <1>1, <2>3 DEF BackedUp
<1> QED
    BY <1>2, <1>3, <1>4, <1>5

\* The steps of an install, and of an uninstall.
LEMMA StepsOfPlatform ==
    ASSUME NEW p \in Used, NEW scope \in Scopes
    PROVE  /\ \A noManifest, noHooks \in BOOLEAN :
                InstallSteps(p, scope, noManifest, noHooks) \in Seq(Steps({"manifest", "mcp", "hooks"}))
           /\ <<FileStep("unmanifest", p, ManifestPath(p, scope)),
                FileStep("unmcp", p, McpConfigPath(p, scope))>> \in Seq(Steps({"unmanifest", "unmcp"}))
<1> DEFINE Install == Steps({"manifest", "mcp", "hooks"})
<1>1. FileStep("manifest", p, ManifestPath(p, scope)) \in Install
    BY PathsAreFiles DEF FileStep, Steps
<1>2. FileStep("mcp", p, McpConfigPath(p, scope)) \in Install
  <2>1. McpConfigPath(p, scope) \in Files
      BY PathsAreFiles
  <2>2. McpConfigPath(p, scope) \notin Unkept => AdapterOf(p).writer # "append"
      BY <2>1 DEF Unkept
  <2> QED
      BY <2>1, <2>2 DEF FileStep, Steps
<1>3. ASSUME HooksPath(p, scope) # ""
      PROVE  FileStep("hooks", p, HooksPath(p, scope)) \in Install
  <2>1. HooksPath(p, scope) \in Files
      BY <1>3, PathsAreFiles
  <2>2. HooksPath(p, scope) \notin Unkept => AdapterOf(p).hooks.writer # "plain"
      BY <2>1 DEF Unkept
  <2> QED
      BY <2>1, <2>2 DEF FileStep, Steps
<1> HIDE DEF Install
<1>4. ASSUME NEW noManifest \in BOOLEAN, NEW noHooks \in BOOLEAN
      PROVE  InstallSteps(p, scope, noManifest, noHooks) \in Seq(Install)
  <2> DEFINE first == IF noManifest THEN <<>>
                      ELSE <<FileStep("manifest", p, ManifestPath(p, scope))>>
             last == IF noHooks \/ HooksPath(p, scope) = "" THEN <<>>
                     ELSE <<FileStep("hooks", p, HooksPath(p, scope))>>
  <2>1. first \in Seq(Install) /\ last \in Seq(Install)
    <3>1. \A e \in Install : <<e>> \in Seq(Install)
        OBVIOUS
    <3>2. <<>> \in Seq(Install)
        OBVIOUS
    <3> QED
        BY <1>1, <1>3, <3>1, <3>2
  <2>2. <<FileStep("mcp", p, McpConfigPath(p, scope))>> \in Seq(Install)
      BY <1>2
  <2>3. InstallSteps(p, scope, noManifest, noHooks)
            = first \o <<FileStep("mcp", p, McpConfigPath(p, scope))>> \o last
      BY DEF InstallSteps
  <2> HIDE DEF first, last
  <2>4. first \o <<FileStep("mcp", p, McpConfigPath(p, scope))>> \in Seq(Install)
      BY <2>1, <2>2, Holds
  <2> QED
      BY <2>1, <2>3, <2>4, Holds
<1>5. <<FileStep("unmanifest", p, ManifestPath(p, scope)),
        FileStep("unmcp", p, McpConfigPath(p, scope))>> \in Seq(Steps({"unmanifest", "unmcp"}))
  <2>1. /\ FileStep("unmanifest", p, ManifestPath(p, scope)) \in Steps({"unmanifest", "unmcp"})
        /\ FileStep("unmcp", p, McpConfigPath(p, scope)) \in Steps({"unmanifest", "unmcp"})
      BY PathsAreFiles DEF FileStep, Steps
  <2> QED
      BY <2>1
<1> QED
    BY <1>4, <1>5 DEF Install

\* What install_one records of a step names the file and what was left in it.
LEMMA RecordsAre ==
    ASSUME InstallTypeOK, NEW s \in Steps(Kinds), NEW before, NEW new \in Contents,
           NEW b \in [Seconds -> Contents]
    PROVE  /\ Recorded(s, before, new, b) \in Seq(Actions)
           /\ \A a \in ToSet(Recorded(s, before, new, b)) : a.file = s.file /\ a.after = new
<1> DEFINE All == {a \in Actions : a.file = s.file /\ a.after = new}
           news == {Record("modified", s, x, ShaAfter(before, new)) : x \in LatestBak(b)}
           made == <<Record("created", s, 0, ShaAfter(before, new))>>
           entry == IF s.what = "mcp" THEN <<Record("registered", s, 0, ShaAfter(before, new))>>
                    ELSE <<>>
<1>1. s.p \in Used /\ s.file \in Files
    BY StepIs
<1>2. MaxSeconds \in Nat /\ Seconds = 1 .. MaxSeconds
    BY InstallAssumption DEF Seconds
<1>3. news \subseteq All /\ \A x, y \in news : x = y
  <2>1. \A x, y \in LatestBak(b) : x = y
    <3>1. \A x, y \in Seconds : x = y \/ x > y \/ y > x
        BY <1>2
    <3> QED
        BY <3>1 DEF LatestBak
  <2>2. \A x \in LatestBak(b) : Record("modified", s, x, new) \in All
    <3>1. LatestBak(b) \subseteq Seconds /\ \A x \in Seconds : x \in 0 .. MaxSeconds /\ x # 0
        BY <1>2 DEF LatestBak
    <3> QED
        BY <1>1, <3>1 DEF Record, Actions
  <2> QED
      BY <2>1, <2>2 DEF ShaAfter
<1>4. Record("created", s, 0, new) \in All /\ Record("registered", s, 0, new) \in All
    BY <1>1, <1>2 DEF Record, Actions
<1>5. made \in Seq(All) /\ entry \in Seq(All)
    BY <1>4 DEF ShaAfter
<1> HIDE DEF All
<1>6. SetToSeq(news) \in Seq(All)
  <2> HIDE DEF news
  <2>1. SetToSeq(news) \in Seq(news)
      BY <1>3, AtMostOne
  <2> QED
      BY <1>3, <2>1
<1> DEFINE touched == IF before # Gone \/ s.what = "hooks" THEN SetToSeq(news) ELSE made
<1>7. touched \in Seq(All)
    BY <1>5, <1>6
<1>8. Recorded(s, before, new, b) = touched \o entry
    BY DEF Recorded
<1> HIDE DEF touched, entry
<1>9. Recorded(s, before, new, b) \in Seq(All)
    BY <1>5, <1>7, <1>8, Holds
<1>10. ToSet(Recorded(s, before, new, b)) \subseteq All
    BY <1>9, MadeOf
<1>11. All \subseteq Actions
    BY DEF All
<1> QED
    BY <1>9, <1>10, <1>11 DEF All

-----------------------------------------------------------------------------
(* The state of the running command. *)

\* A command has its steps to go and its actions so far.
LEMMA CommandIs ==
    ASSUME InstallTypeOK
    PROVE  /\ cmd.op \in {"idle", "install", "uninstall", "rollback", "rolled back"}
           /\ cmd.todo \in TodoOf(cmd.op) /\ cmd.done \in Seq(Actions) /\ cmd.force \in BOOLEAN
           /\ cmd.op = "install" => cmd.todo \in Seq(Steps({"manifest", "mcp", "hooks"}))
           /\ cmd.op = "uninstall" => cmd.todo \in Seq(Steps({"unmanifest", "unmcp"}))
           /\ cmd.op = "rollback" => cmd.todo \in Seq(Actions)
           /\ \A todo \in TodoOf(cmd.op) : [cmd EXCEPT !.todo = todo]
                 \in [op : {cmd.op}, todo : TodoOf(cmd.op), done : Seq(Actions), force : BOOLEAN]
           /\ \A todo \in TodoOf(cmd.op), done \in Seq(Actions) : [cmd EXCEPT !.todo = todo, !.done = done]
                 \in [op : {cmd.op}, todo : TodoOf(cmd.op), done : Seq(Actions), force : BOOLEAN]
<1>1. PICK op \in {"idle", "install", "uninstall", "rollback", "rolled back"} :
          cmd \in [op : {op}, todo : TodoOf(op), done : Seq(Actions), force : BOOLEAN]
    BY DEF InstallTypeOK
<1>2. cmd.op = op
    BY <1>1
<1>3. /\ TodoOf("install") = Seq(Steps({"manifest", "mcp", "hooks"}))
      /\ TodoOf("uninstall") = Seq(Steps({"unmanifest", "unmcp"}))
      /\ TodoOf("rollback") = Seq(Actions)
    BY DEF TodoOf
<1> QED
    BY <1>1, <1>2, <1>3

\* A file being written is one of a platform, in a kind of step.
LEMMA WritingIs ==
    ASSUME InstallTypeOK, Writing
    PROVE  /\ Head(cmd.todo) \in Steps(Kinds)
           /\ cmd.op = "install" => Head(cmd.todo) \in Steps({"manifest", "mcp", "hooks"})
           /\ \A s, failed : Rest(s, failed) \in TodoOf(cmd.op)
<1>1. PICK whats \in SUBSET Kinds :
          /\ cmd.todo \in Seq(Steps(whats)) /\ TodoOf(cmd.op) = Seq(Steps(whats))
          /\ cmd.op = "install" => whats = {"manifest", "mcp", "hooks"}
  <2>1. CASE cmd.op = "install"
      BY <2>1, CommandIs DEF TodoOf, Kinds
  <2>2. CASE cmd.op = "uninstall"
      BY <2>2, CommandIs DEF TodoOf, Kinds
  <2> QED
      BY <2>1, <2>2 DEF Writing
<1>2. cmd.todo # <<>>
    BY DEF Writing
<1>3. Head(cmd.todo) \in Steps(whats) /\ Tail(cmd.todo) \in Seq(Steps(whats))
    BY <1>1, <1>2, Holds
<1>4. ASSUME NEW s, NEW failed PROVE Rest(s, failed) \in Seq(Steps(whats))
  <2> DEFINE ofPlatform == {i \in DOMAIN cmd.todo : cmd.todo[i].p = s.p}
  <2>1. Cardinality(ofPlatform) \in Nat
    <3>1. IsFiniteSet(DOMAIN cmd.todo)
      <4>1. Len(cmd.todo) \in Nat /\ DOMAIN cmd.todo = 1 .. Len(cmd.todo)
          BY <1>1, LenProperties
      <4>2. IsFiniteSet(1 .. Len(cmd.todo))
          BY <4>1, FS_Interval
      <4> QED
          BY <4>1, <4>2
    <3>2. IsFiniteSet(ofPlatform)
        BY <3>1, FS_Subset
    <3> QED
        BY <3>2, FS_CardinalityType
  <2> HIDE DEF ofPlatform
  <2>2. SubSeq(cmd.todo, Cardinality(ofPlatform) + 1, Len(cmd.todo)) \in Seq(Steps(whats))
    <3>1. Cardinality(ofPlatform) + 1 \in Nat /\ Cardinality(ofPlatform) + 1 # 0
        BY <2>1
    <3> QED
        BY <1>1, <3>1, Holds
  <2> QED
      BY <1>3, <2>2 DEF Rest, ofPlatform
<1> QED
    BY <1>1, <1>3, <1>4, StepIs

\* The receipts hold actions, and so does what is noted.
LEMMA NotedAreActions ==
    ASSUME InstallTypeOK
    PROVE  /\ \A n \in DOMAIN receipts : receipts[n] \in Seq(Actions)
           /\ Noted \subseteq Actions
<1>1. \A n \in DOMAIN receipts : receipts[n] \in Seq(Actions)
  <2>1. receipts \in Seq(Seq(Actions))
      BY DEF InstallTypeOK
  <2> QED
      BY <2>1
<1>2. /\ ToSet(cmd.done) \subseteq Actions
      /\ \A n \in DOMAIN receipts : ToSet(receipts[n]) \subseteq Actions
      /\ cmd.op = "rollback" => ToSet(cmd.todo) \subseteq Actions
    BY <1>1, CommandIs, MadeOf
<1>3. Saved \subseteq Actions
    BY <1>2 DEF Saved
<1> QED
    BY <1>1, <1>2, <1>3 DEF Noted

\* What is noted while nothing, or nothing but old actions, is done.
LEMMA NothingNoted ==
    ASSUME cmd'.done = <<>>, receipts' = receipts,
           cmd'.op = "rollback" => ToSet(cmd'.todo) \subseteq Noted
    PROVE  Noted' \subseteq Noted
<1>1. ToSet(<<>>) = {}
    BY DEF ToSet
<1>2. ToSet(cmd'.done) = {}
    BY <1>1
<1>3. Saved' = Saved
    BY DEF Saved
<1> QED
    BY <1>2, <1>3 DEF Noted

\* The invariant after a step that leaves the texts of the user alone: the copies
\* stay, every file keeps its text or has it copied, and nothing is noted that
\* cannot be undone.
LEMMA TextKept ==
    ASSUME TextInv, InstallTypeOK', wrote' = wrote, clobbered \subseteq clobbered',
           \A f \in Files \ clobbered' : \A text : BackedUp(baks, f, text) => BackedUp(baks', f, text),
           \A f \in Files \ (Unkept \cup clobbered') : files[f] # Gone /\ files[f].user # 0 =>
               \/ BackedUp(baks', f, files[f].user)
               \/ files'[f] # Gone /\ files'[f].user = files[f].user,
           \A a \in Noted' \ Noted : Undoable(a)'
    PROVE  TextInv'
<1>1. ASSUME NEW f \in Files \ (Unkept \cup clobbered'), wrote'[f] # 0
      PROVE  BackedUp(baks', f, wrote'[f]) \/ (files'[f] # Gone /\ files'[f].user = wrote'[f])
  <2>1. BackedUp(baks, f, wrote[f]) \/ (files[f] # Gone /\ files[f].user = wrote[f])
      BY <1>1 DEF TextInv
  <2> QED
      BY <1>1, <2>1
<1>2. ASSUME NEW a \in Noted PROVE Undoable(a)'
  <2>1. a \in Actions
      BY NotedAreActions DEF TextInv
  <2>2. a.file \in Files
      BY <2>1 DEF Actions
  <2>3. Undoable(a)
      BY DEF TextInv
  <2> QED
      BY <2>2, <2>3 DEF Undoable
<1>3. \A a \in Noted' : Undoable(a)'
    BY <1>2
<1> QED
    BY <1>1, <1>3 DEF TextInv

\* The invariant after a step that changes nothing it is about but the command,
\* which notes nothing new.
LEMMA OnlyCommand ==
    ASSUME TextInv, UNCHANGED <<files, baks, seconds, events, wrote, clobbered>>,
           receipts' \in Seq(Seq(Actions)),
           \E op \in {"idle", "install", "uninstall", "rollback", "rolled back"} :
              cmd' \in [op : {op}, todo : TodoOf(op), done : Seq(Actions), force : BOOLEAN],
           Noted' \subseteq Noted
    PROVE  TextInv'
<1>1. InstallTypeOK'
    BY DEF TextInv, InstallTypeOK
<1> QED
    BY <1>1, TextKept

\* A command that begins.
LEMMA BeginKept ==
    ASSUME TextInv, NEW op \in {"install", "uninstall", "rollback"}, NEW todo \in TodoOf(op),
           NEW force \in BOOLEAN, Begin(op, todo, force),
           UNCHANGED <<files, baks, seconds, receipts, events, wrote, clobbered>>,
           op = "rollback" => ToSet(todo) \subseteq Noted
    PROVE  TextInv'
<1>1. cmd' \in [op : {op}, todo : TodoOf(op), done : Seq(Actions), force : BOOLEAN]
    BY DEF Begin
<1>2. Noted' \subseteq Noted
  <2>1. cmd'.done = <<>> /\ cmd'.op = op /\ cmd'.todo = todo
      BY DEF Begin
  <2> QED
      BY <2>1, NothingNoted
<1> QED
    BY <1>1, <1>2, OnlyCommand DEF TextInv, InstallTypeOK

\* A process that rests has nothing to do and names no action.
LEMMA Halted ==
    ASSUME receipts' = receipts, cmd' \in {NoCommand, [NoCommand EXCEPT !.op = "rolled back"]}
    PROVE  /\ \E op \in {"idle", "install", "uninstall", "rollback", "rolled back"} :
                cmd' \in [op : {op}, todo : TodoOf(op), done : Seq(Actions), force : BOOLEAN]
           /\ Noted' \subseteq Noted
<1>1. PICK op \in {"idle", "rolled back"} :
          cmd' = [op |-> op, todo |-> <<>>, done |-> <<>>, force |-> FALSE]
    BY DEF NoCommand
<1>2. <<>> \in TodoOf(op) /\ <<>> \in Seq(Actions)
  <2>1. <<>> \in TodoOf("idle")
      BY DEF TodoOf
  <2>2. <<>> \in TodoOf("rolled back")
      BY DEF TodoOf
  <2>3. <<>> \in Seq(Actions)
      BY EmptySeq
  <2> QED
      BY <2>1, <2>2, <2>3
<1>3. cmd' \in [op : {op}, todo : TodoOf(op), done : Seq(Actions), force : BOOLEAN]
    BY <1>1, <1>2
<1>4. Noted' \subseteq Noted
    BY <1>1, NothingNoted
<1> QED
    BY <1>3, <1>4

\* The invariant when a command ends.
LEMMA NoCommandKept ==
    ASSUME TextInv, UNCHANGED <<files, baks, seconds, receipts, events, wrote, clobbered>>,
           cmd' \in {NoCommand, [NoCommand EXCEPT !.op = "rolled back"]}
    PROVE  TextInv'
<1>1. receipts \in Seq(Seq(Actions))
    BY DEF TextInv, InstallTypeOK
<1> QED
    BY <1>1, Halted, OnlyCommand

\* An install names its steps.
LEMMA StartInstallKept ==
    ASSUME TextInv, NEW ts \in Targets, NEW scope \in Scopes, NEW skips \in BOOLEAN,
           StartInstall(ts, scope, skips)
    PROVE  TextInv'
<1> DEFINE each == [i \in 1 .. Len(ts) |-> InstallSteps(ts[i], scope, skips, skips)]
<1>1. ts \in Seq(Used)
    BY TargetsAreKnown
<1>2. each \in Seq(Seq(Steps({"manifest", "mcp", "hooks"})))
    BY <1>1, StepsOfPlatform
<1> HIDE DEF each
<1>3. FlattenSeq(each) \in TodoOf("install")
    BY <1>2, FlattenIn DEF TodoOf
<1>4. PICK force \in BOOLEAN : Begin("install", FlattenSeq(each), force)
    BY DEF StartInstall, each
<1> QED
    BY <1>3, <1>4, BeginKept DEF StartInstall

\* An uninstall names its steps.
LEMMA StartUninstallKept ==
    ASSUME TextInv, NEW ts \in Targets, NEW scope \in Scopes, StartUninstall(ts, scope)
    PROVE  TextInv'
<1> DEFINE each == [i \in 1 .. Len(ts) |->
                       <<FileStep("unmanifest", ts[i], ManifestPath(ts[i], scope)),
                         FileStep("unmcp", ts[i], McpConfigPath(ts[i], scope))>>]
<1>1. ts \in Seq(Used)
    BY TargetsAreKnown
<1>2. each \in Seq(Seq(Steps({"unmanifest", "unmcp"})))
    BY <1>1, StepsOfPlatform
<1> HIDE DEF each
<1>3. FlattenSeq(each) \in TodoOf("uninstall")
    BY <1>2, FlattenIn DEF TodoOf
<1>4. Begin("uninstall", FlattenSeq(each), FALSE)
    BY DEF StartUninstall, each
<1> QED
    BY <1>3, <1>4, BeginKept DEF StartUninstall

\* A rollback names the actions of a receipt, which were noted.
LEMMA StartRollbackKept ==
    ASSUME TextInv, NEW n, StartRollback(n) PROVE TextInv'
<1>1. n \in DOMAIN receipts /\ receipts[n] \in Seq(Actions)
    BY NotedAreActions DEF StartRollback, TextInv
<1>2. Reverse(receipts[n]) \in TodoOf("rollback") /\ ToSet(Reverse(receipts[n])) \subseteq ToSet(receipts[n])
    BY <1>1, Holds DEF TodoOf
<1>3. ToSet(Reverse(receipts[n])) \subseteq Noted
  <2>1. ToSet(receipts[n]) \subseteq Saved
      BY <1>1 DEF Saved
  <2> QED
      BY <1>2, <2>1 DEF Noted
<1> QED
    BY <1>2, <1>3, BeginKept DEF StartRollback

\* A running command after a change of its steps to go, or of its actions too.
LEMMA CommandFields ==
    ASSUME InstallTypeOK, NEW todo, NEW done
    PROVE  /\ [cmd EXCEPT !.todo = todo].op = cmd.op /\ [cmd EXCEPT !.todo = todo].todo = todo
           /\ [cmd EXCEPT !.todo = todo].done = cmd.done
           /\ [cmd EXCEPT !.todo = todo, !.done = done].done = done
<1> QED
    BY DEF InstallTypeOK

\* The number of the next edit or fault.
LEMMA NextEvent ==
    ASSUME InstallTypeOK, Event PROVE events' \in Nat \ {0}
<1>1. events \in Nat \ {0}
    BY DEF InstallTypeOK
<1> QED
    BY <1>1 DEF Event

\* The command of a file step, after it.
LEMMA AfterStep ==
    ASSUME InstallTypeOK, Writing, NEW s, NEW failed, NEW pushed \in Seq(Actions),
           cmd' = [cmd EXCEPT !.todo = Rest(s, failed), !.done = @ \o pushed],
           receipts' = receipts
    PROVE  /\ \E op \in {"idle", "install", "uninstall", "rollback", "rolled back"} :
                cmd' \in [op : {op}, todo : TodoOf(op), done : Seq(Actions), force : BOOLEAN]
           /\ Noted' \subseteq Noted \cup ToSet(pushed)
<1>1. Rest(s, failed) \in TodoOf(cmd.op)
    BY WritingIs
<1>2. cmd.done \o pushed \in Seq(Actions)
      /\ ToSet(cmd.done \o pushed) = ToSet(cmd.done) \cup ToSet(pushed)
  <2>1. cmd.done \in Seq(Actions)
      BY CommandIs
  <2> QED
      BY <2>1, Holds
<1>3. cmd' = [cmd EXCEPT !.todo = Rest(s, failed), !.done = cmd.done \o pushed]
    OBVIOUS
<1>4. cmd' \in [op : {cmd.op}, todo : TodoOf(cmd.op), done : Seq(Actions), force : BOOLEAN]
  <2>1. \A todo \in TodoOf(cmd.op), done \in Seq(Actions) : [cmd EXCEPT !.todo = todo, !.done = done]
            \in [op : {cmd.op}, todo : TodoOf(cmd.op), done : Seq(Actions), force : BOOLEAN]
      BY CommandIs
  <2> QED
      BY <1>1, <1>2, <1>3, <2>1
<1>5. cmd'.op # "rollback" /\ cmd'.done = cmd.done \o pushed
  <2>1. cmd'.op = cmd.op
      BY <1>4
  <2>2. cmd'.done = cmd.done \o pushed
      BY <1>3, CommandFields
  <2> QED
      BY <2>1, <2>2 DEF Writing
<1>6. Saved' = Saved
    BY DEF Saved
<1>7. Noted' = ToSet(cmd.done) \cup ToSet(pushed) \cup Saved
    BY <1>2, <1>5, <1>6 DEF Noted
<1> QED
    BY <1>4, <1>7, CommandIs DEF Noted

\* A written step keeps the text of the user, which was copied first.
LEMMA StepWritesKept ==
    ASSUME TextInv, StepWrites PROVE TextInv'
<1> DEFINE s == Head(cmd.todo)
           quiet == NoWrite(s)
           new == IF quiet THEN files[s.file] ELSE Written(s)
           b == IF quiet THEN baks ELSE Backup(s)
           pushed == IF cmd.op = "install" THEN Recorded(s, files[s.file], new, b[s.file]) ELSE <<>>
<1>1. /\ InstallTypeOK /\ s \in Steps(Kinds) /\ s.file \in Files
      /\ cmd.op = "install" => s \in Steps({"manifest", "mcp", "hooks"})
    BY WritingIs, StepIs DEF StepWrites, TextInv
<1>2. /\ Writing /\ Written(s) # WriteFailed
      /\ files' = [files EXCEPT ![s.file] = new] /\ baks' = b
      /\ cmd' = [cmd EXCEPT !.todo = Rest(s, FALSE), !.done = @ \o pushed]
      /\ clobbered' = clobbered \cup (IF quiet THEN {} ELSE Clobbers(s))
      /\ UNCHANGED <<seconds, receipts, events, wrote, undo>>
    BY DEF StepWrites
<1>3. files[s.file] \in Contents /\ Written(s) \in Contents
      /\ (s.file \notin Unkept => Written(s).user = Existing(s.file).user)
      /\ (files[s.file] # Gone => Written(s) # Gone /\ Existing(s.file) = files[s.file])
      /\ (files[s.file] = Gone => Existing(s.file).user = 0)
    BY <1>1, <1>2, ExistingIs, WritersKeepText
<1>4. /\ baks' \in [Files -> [Seconds -> Contents]]
      /\ clobbered' \subseteq Files /\ clobbered \subseteq clobbered'
      /\ \A f \in Files \ clobbered' : \A text : BackedUp(baks, f, text) => BackedUp(baks', f, text)
      /\ ~quiet /\ files[s.file] # Gone /\ s.file \notin Unkept => BackedUp(baks', s.file, files[s.file].user)
  <2>1. CASE quiet
      BY <1>1, <1>2, <2>1 DEF InstallTypeOK
  <2>2. CASE ~quiet
      BY <1>1, <1>2, <2>2, CopiesStay
  <2> QED
      BY <2>1, <2>2
<1>5. new \in Contents
    BY <1>3
<1>6. files' \in [Files -> Contents]
    BY <1>1, <1>2, <1>5 DEF InstallTypeOK
<1>7. /\ pushed \in Seq(Actions)
      /\ \A a \in ToSet(pushed) : cmd.op = "install" /\ a.file = s.file /\ a.after = new
  <2>1. CASE cmd.op = "install"
    <3>1. b[s.file] \in [Seconds -> Contents]
        BY <1>1, <1>2, <1>4
    <3> HIDE DEF s, new, b
    <3> QED
        BY <1>1, <1>5, <2>1, <3>1, RecordsAre
  <2>2. CASE cmd.op # "install"
      BY <2>2, EmptySeq DEF ToSet
  <2> QED
      BY <2>1, <2>2
<1> HIDE DEF pushed
<1>8. /\ \E op \in {"idle", "install", "uninstall", "rollback", "rolled back"} :
            cmd' \in [op : {op}, todo : TodoOf(op), done : Seq(Actions), force : BOOLEAN]
      /\ Noted' \subseteq Noted \cup ToSet(pushed)
    BY <1>1, <1>2, <1>7, AfterStep
<1>9. InstallTypeOK'
    BY <1>1, <1>2, <1>4, <1>6, <1>8 DEF InstallTypeOK
<1>10. \A f \in Files \ (Unkept \cup clobbered') : files[f] # Gone =>
            files'[f] # Gone /\ files'[f].user = files[f].user
  <2> SUFFICES ASSUME NEW f \in Files \ (Unkept \cup clobbered'), files[f] # Gone
               PROVE  files'[f] # Gone /\ files'[f].user = files[f].user
      OBVIOUS
  <2>1. CASE f = s.file
    <3>1. files'[f] = new
        BY <1>1, <1>2, <2>1 DEF InstallTypeOK
    <3> QED
        BY <1>3, <2>1, <3>1
  <2>2. CASE f # s.file
      BY <1>1, <1>2, <2>2 DEF InstallTypeOK
  <2> QED
      BY <2>1, <2>2
<1>11. ASSUME NEW a \in ToSet(pushed) PROVE Undoable(a)'
  <2>1. SUFFICES ASSUME s.file \notin Unkept, a.after.user # 0
                 PROVE  BackedUp(baks', s.file, a.after.user)
      BY <1>7 DEF Undoable
  <2>2. ~quiet
      BY <1>1, <1>7, <2>1, StepIs DEF NoWrite, Kinds
  <2>3. a.after = Written(s)
      BY <1>7, <2>2
  <2> QED
      BY <1>3, <1>4, <2>1, <2>2, <2>3
<1>12. \A a \in Noted' \ Noted : Undoable(a)'
    BY <1>8, <1>11
<1> HIDE DEF s, new, b, quiet
<1> QED
    BY <1>2, <1>4, <1>9, <1>10, <1>12, TextKept

\* A step that fails writes nothing but, perhaps, a copy.
LEMMA StepFailsKept ==
    ASSUME TextInv, StepFails PROVE TextInv'
<1> DEFINE s == Head(cmd.todo)
<1>1. InstallTypeOK /\ Writing /\ s \in Steps(Kinds)
    BY WritingIs DEF StepFails, TextInv
<1>2. PICK copied \in BOOLEAN :
            /\ baks' = IF copied THEN Backup(s) ELSE baks
            /\ clobbered' = clobbered \cup IF copied THEN Clobbers(s) ELSE {}
    BY DEF StepFails
<1>3. cmd' = [cmd EXCEPT !.todo = Rest(s, TRUE)] /\ UNCHANGED <<files, seconds, receipts, wrote>>
      /\ events' = events + 1
    BY DEF StepFails, Event
<1>4. /\ baks' \in [Files -> [Seconds -> Contents]]
      /\ clobbered' \subseteq Files /\ clobbered \subseteq clobbered'
      /\ \A f \in Files \ clobbered' : \A text : BackedUp(baks, f, text) => BackedUp(baks', f, text)
  <2>1. CASE ~copied
      BY <1>1, <1>2, <2>1 DEF InstallTypeOK
  <2>2. CASE copied
      BY <1>1, <1>2, <2>2, CopiesStay
  <2> QED
      BY <2>1, <2>2
<1>5. cmd' \in [op : {cmd.op}, todo : TodoOf(cmd.op), done : Seq(Actions), force : BOOLEAN]
    BY <1>1, <1>3, WritingIs, CommandIs
<1>6. cmd'.done = cmd.done /\ cmd'.op = cmd.op /\ cmd.op # "rollback" /\ Saved' = Saved
    BY <1>1, <1>3, <1>5, CommandFields DEF Writing, Saved
<1>7. Noted' \subseteq Noted
    BY <1>6 DEF Noted
<1> HIDE DEF s
<1>8. InstallTypeOK'
  <2>1. events' \in Nat \ {0}
      BY <1>1, NextEvent DEF StepFails
  <2>2. \E op \in {"idle", "install", "uninstall", "rollback", "rolled back"} :
            cmd' \in [op : {op}, todo : TodoOf(op), done : Seq(Actions), force : BOOLEAN]
      BY <1>1, <1>5, CommandIs
  <2> QED
      BY <1>1, <1>3, <1>4, <2>1, <2>2 DEF InstallTypeOK
<1> QED
    BY <1>3, <1>4, <1>7, <1>8, TextKept

\* A receipt names what the command has noted.
LEMMA FinishesKept ==
    ASSUME TextInv, Finishes PROVE TextInv'
<1>1. InstallTypeOK /\ cmd.done \in Seq(Actions)
    BY CommandIs DEF TextInv
<1>2. CASE receipts' = receipts
    BY <1>2, NoCommandKept DEF Finishes
<1>3. CASE receipts' = Append(receipts, cmd.done)
  <2>1. receipts \in Seq(Seq(Actions))
      BY <1>1 DEF InstallTypeOK
  <2>2. /\ receipts' \in Seq(Seq(Actions))
        /\ \A n \in DOMAIN receipts' :
              \/ n \in DOMAIN receipts /\ receipts'[n] = receipts[n]
              \/ receipts'[n] = cmd.done
      BY <1>1, <1>3, <2>1
  <2>3. Saved' \subseteq Saved \cup ToSet(cmd.done)
      BY <2>2 DEF Saved
  <2>4. cmd' = NoCommand /\ cmd'.op = "idle" /\ cmd'.done = <<>>
      BY DEF Finishes, NoCommand
  <2>5. ToSet(cmd'.done) = {}
      BY <2>4 DEF ToSet
  <2>6. Noted' \subseteq Noted
      BY <2>3, <2>4, <2>5 DEF Noted
  <2>7. cmd' \in [op : {"idle"}, todo : TodoOf("idle"), done : Seq(Actions), force : BOOLEAN]
    <3>1. <<>> \in TodoOf("idle") /\ <<>> \in Seq(Actions)
        BY EmptySeq DEF TodoOf
    <3> QED
        BY <2>4, <3>1 DEF NoCommand
  <2> QED
      BY <2>2, <2>6, <2>7, OnlyCommand DEF Finishes
<1> QED
    BY <1>2, <1>3 DEF Finishes

\* A step of a rollback: what is left to undo was noted.
LEMMA AfterUndo ==
    ASSUME InstallTypeOK, NEW what, Undoing(what), Undone, receipts' = receipts
    PROVE  /\ Head(cmd.todo) \in Actions /\ Head(cmd.todo) \in Noted /\ Head(cmd.todo).what = what
           /\ \E op \in {"idle", "install", "uninstall", "rollback", "rolled back"} :
                cmd' \in [op : {op}, todo : TodoOf(op), done : Seq(Actions), force : BOOLEAN]
           /\ Noted' \subseteq Noted
<1>1. cmd.op = "rollback" /\ cmd.todo \in Seq(Actions) /\ cmd.todo # <<>> /\ Head(cmd.todo).what = what
    BY CommandIs DEF Undoing
<1>2. /\ Head(cmd.todo) \in Actions /\ Head(cmd.todo) \in ToSet(cmd.todo)
      /\ Tail(cmd.todo) \in Seq(Actions) /\ ToSet(Tail(cmd.todo)) \subseteq ToSet(cmd.todo)
    BY <1>1, Holds
<1>3. Tail(cmd.todo) \in TodoOf(cmd.op)
    BY <1>1, <1>2 DEF TodoOf
<1>4. cmd' = [cmd EXCEPT !.todo = Tail(cmd.todo)]
    BY DEF Undone
<1>5. cmd' \in [op : {cmd.op}, todo : TodoOf(cmd.op), done : Seq(Actions), force : BOOLEAN]
    BY <1>3, <1>4, CommandIs
<1>6. cmd'.op = "rollback" /\ cmd'.done = cmd.done /\ cmd'.todo = Tail(cmd.todo) /\ Saved' = Saved
    BY <1>1, <1>4, CommandFields DEF Saved
<1>7. Noted' \subseteq Noted
    BY <1>1, <1>2, <1>6 DEF Noted
<1>8. Head(cmd.todo) \in Noted
    BY <1>1, <1>2 DEF Noted
<1> QED
    BY <1>1, <1>2, <1>5, <1>7, <1>8, CommandIs

\* A file that a rollback replaces or removes loses no text: it is as the install
\* left it, and of that text there is a copy.
LEMMA ReplacedKept ==
    ASSUME TextInv, NEW what, Undoing(what), Undone, NEW new \in Contents,
           files' = IF Drifted(Head(cmd.todo)) THEN files
                    ELSE [files EXCEPT ![Head(cmd.todo).file] = new],
           UNCHANGED <<baks, seconds, receipts, events, wrote, clobbered>>
    PROVE  TextInv'
<1> DEFINE a == Head(cmd.todo)
<1>1. InstallTypeOK /\ a \in Actions /\ a \in Noted /\ Noted' \subseteq Noted
      /\ \E op \in {"idle", "install", "uninstall", "rollback", "rolled back"} :
            cmd' \in [op : {op}, todo : TodoOf(op), done : Seq(Actions), force : BOOLEAN]
    BY AfterUndo DEF TextInv
<1>2. a.file \in Files /\ Undoable(a)
    BY <1>1 DEF Actions, TextInv
<1> HIDE DEF a
<1>3. files' \in [Files -> Contents]
    BY <1>1, <1>2 DEF InstallTypeOK, a
<1>4. InstallTypeOK'
    BY <1>1, <1>3 DEF InstallTypeOK
<1>5. ASSUME NEW f \in Files \ (Unkept \cup clobbered'), files[f] # Gone, files[f].user # 0
      PROVE  BackedUp(baks', f, files[f].user) \/ (files'[f] # Gone /\ files'[f].user = files[f].user)
  <2>1. CASE f = a.file /\ ~Drifted(a)
    <3>1. files[f] = a.after
        BY <1>5, <2>1 DEF Drifted
    <3> QED
        BY <1>2, <1>5, <2>1, <3>1 DEF Undoable
  <2>2. CASE ~(f = a.file /\ ~Drifted(a))
    <3>1. files'[f] = files[f]
        BY <1>1, <1>2, <2>2 DEF InstallTypeOK, a
    <3> QED
        BY <1>5, <3>1
  <2> QED
      BY <2>1, <2>2
<1> QED
    BY <1>1, <1>4, <1>5, TextKept

\* A rollback puts a copy back over what the install left.
LEMMA UndoModifiedKept ==
    ASSUME TextInv, UndoModified PROVE TextInv'
<1> DEFINE a == Head(cmd.todo)
           old == baks[a.file][a.bak]
<1>1. InstallTypeOK /\ Undoing("modified") /\ Undone /\ receipts' = receipts
    BY DEF UndoModified, TextInv
<1>2. a \in Actions /\ a.what = "modified"
    BY <1>1, AfterUndo
<1>3. a.file \in Files /\ a.bak \in Seconds
  <2>1. MaxSeconds \in Nat
      BY InstallAssumption
  <2> QED
      BY <1>2, <2>1 DEF Actions, Seconds
<1>4. old \in Contents /\ files[a.file] \in Contents
    BY <1>1, <1>3 DEF InstallTypeOK
<1>5. CASE old = Gone /\ ~Drifted(a)
  <2>1. files' = [files EXCEPT ![a.file] = files[a.file]]
      BY <1>1, <1>3, <1>5 DEF UndoModified, InstallTypeOK
  <2> QED
      BY <1>1, <1>4, <1>5, <2>1, ReplacedKept DEF UndoModified
<1>6. CASE ~(old = Gone /\ ~Drifted(a))
  <2>1. files' = IF Drifted(a) THEN files ELSE [files EXCEPT ![a.file] = old]
      BY <1>6 DEF UndoModified
  <2> QED
      BY <1>1, <1>4, <2>1, ReplacedKept DEF UndoModified
<1> QED
    BY <1>5, <1>6

\* A rollback removes a file as the install left it.
LEMMA UndoCreatedKept ==
    ASSUME TextInv, UndoCreated PROVE TextInv'
<1> QED
    BY ReplacedKept, GoneIsApart DEF UndoCreated

\* A rollback strips an entry from its registry, which it copies first.
LEMMA UndoRegisteredKept ==
    ASSUME TextInv, UndoRegistered PROVE TextInv'
<1> DEFINE a == Head(cmd.todo)
           s == FileStep("unmcp", a.p, McpConfigPath(a.p, "user"))
           writes == ~NoWrite(s) /\ Written(s) # WriteFailed
<1>1. InstallTypeOK /\ Undoing("registered") /\ Undone /\ receipts' = receipts
    BY DEF UndoRegistered, TextInv
<1>2. /\ a \in Actions /\ Noted' \subseteq Noted
      /\ \E op \in {"idle", "install", "uninstall", "rollback", "rolled back"} :
            cmd' \in [op : {op}, todo : TodoOf(op), done : Seq(Actions), force : BOOLEAN]
    BY <1>1, AfterUndo
<1>3. s \in Steps(Kinds) /\ s.file \in Files
  <2>1. a.p \in Used /\ "user" \in Scopes
      BY <1>2, InstallAssumption DEF Actions
  <2>2. McpConfigPath(a.p, "user") \in Files
      BY <2>1, PathsAreFiles
  <2> QED
      BY <2>1, <2>2 DEF FileStep, Steps, Kinds
<1>4. /\ files' = IF writes THEN [files EXCEPT ![s.file] = Written(s)] ELSE files
      /\ baks' = IF writes THEN Backup(s) ELSE baks
      /\ clobbered' = clobbered \cup IF writes THEN Clobbers(s) ELSE {}
      /\ UNCHANGED <<seconds, receipts, events, wrote, undo>>
    BY DEF UndoRegistered
<1> HIDE DEF s
<1>5. CASE ~writes
  <2>1. UNCHANGED <<files, baks, clobbered>>
      BY <1>4, <1>5
  <2> QED
      BY <1>2, <1>4, <2>1, OnlyCommand, <1>1 DEF InstallTypeOK
<1>6. CASE writes
  <2>1. /\ Written(s) \in Contents
        /\ s.file \notin Unkept => Written(s).user = Existing(s.file).user
        /\ files[s.file] # Gone => Written(s) # Gone /\ Existing(s.file) = files[s.file]
      BY <1>1, <1>3, <1>6, WritersKeepText, ExistingIs
  <2>2. /\ baks' \in [Files -> [Seconds -> Contents]]
        /\ clobbered' \subseteq Files /\ clobbered \subseteq clobbered'
        /\ \A f \in Files \ clobbered' : \A text : BackedUp(baks, f, text) => BackedUp(baks', f, text)
      BY <1>1, <1>3, <1>4, <1>6, CopiesStay
  <2>3. files' = [files EXCEPT ![s.file] = Written(s)]
      BY <1>4, <1>6
  <2>4. files' \in [Files -> Contents]
      BY <1>1, <1>3, <2>1, <2>3 DEF InstallTypeOK
  <2>5. InstallTypeOK'
      BY <1>1, <1>2, <1>4, <2>2, <2>4 DEF InstallTypeOK
  <2>6. \A f \in Files \ (Unkept \cup clobbered') : files[f] # Gone =>
            files'[f] # Gone /\ files'[f].user = files[f].user
    <3> SUFFICES ASSUME NEW f \in Files \ (Unkept \cup clobbered'), files[f] # Gone
                 PROVE  files'[f] # Gone /\ files'[f].user = files[f].user
        OBVIOUS
    <3>1. files'[f] = IF f = s.file THEN Written(s) ELSE files[f]
        BY <1>1, <1>3, <2>3 DEF InstallTypeOK
    <3> QED
        BY <2>1, <3>1
  <2> QED
      BY <1>2, <1>4, <2>2, <2>5, <2>6, TextKept
<1> QED
    BY <1>5, <1>6

\* A process that dies inside a write tears a file that has been copied.
LEMMA DiesKept ==
    ASSUME TextInv, Dies PROVE TextInv'
<1> DEFINE s == Head(cmd.todo)
<1>1. /\ InstallTypeOK /\ cmd' = NoCommand /\ receipts' = receipts /\ seconds' = seconds
      /\ wrote' = wrote /\ events' \in Nat \ {0}
    BY NextEvent DEF Dies, TextInv
<1>2. /\ \E op \in {"idle", "install", "uninstall", "rollback", "rolled back"} :
            cmd' \in [op : {op}, todo : TodoOf(op), done : Seq(Actions), force : BOOLEAN]
      /\ Noted' \subseteq Noted
    BY <1>1, Halted
<1>3. CASE UNCHANGED <<files, baks, clobbered>>
  <2>1. InstallTypeOK'
      BY <1>1, <1>2, <1>3 DEF InstallTypeOK
  <2> QED
      BY <1>1, <1>2, <1>3, <2>1, TextKept
<1>4. CASE /\ Writing /\ Written(s) # WriteFailed /\ ~NoWrite(s)
           /\ baks' = Backup(s) /\ files' = [files EXCEPT ![s.file] = Torn]
           /\ clobbered' = clobbered \cup Clobbers(s)
  <2>1. s \in Steps(Kinds) /\ s.file \in Files
      BY <1>1, <1>4, WritingIs, StepIs
  <2>2. /\ baks' \in [Files -> [Seconds -> Contents]]
        /\ clobbered' \subseteq Files /\ clobbered \subseteq clobbered'
        /\ \A f \in Files \ clobbered' : \A text : BackedUp(baks, f, text) => BackedUp(baks', f, text)
        /\ files[s.file] # Gone /\ s.file \notin Unkept => BackedUp(baks', s.file, files[s.file].user)
      BY <1>1, <1>4, <2>1, CopiesStay
  <2> HIDE DEF s
  <2>3. files' \in [Files -> Contents]
      BY <1>1, <1>4, <2>1, GoneIsApart DEF InstallTypeOK
  <2>4. InstallTypeOK'
      BY <1>1, <1>2, <2>2, <2>3 DEF InstallTypeOK
  <2>5. ASSUME NEW f \in Files \ (Unkept \cup clobbered'), files[f] # Gone
        PROVE  BackedUp(baks', f, files[f].user) \/ (files'[f] # Gone /\ files'[f].user = files[f].user)
    <3>1. f # s.file => files'[f] = files[f]
        BY <1>1, <1>4, <2>1 DEF InstallTypeOK
    <3> QED
        BY <2>2, <2>5, <3>1
  <2> QED
      BY <1>1, <1>2, <2>2, <2>4, <2>5, TextKept
<1> QED
    BY <1>3, <1>4 DEF Dies

\* The clock moves on.
LEMMA TickKept ==
    ASSUME TextInv, Tick PROVE TextInv'
<1>1. InstallTypeOK
    BY DEF TextInv
<1>2. seconds' \in Seconds
  <2>1. seconds \in 1 .. MaxSeconds /\ MaxSeconds \in Nat
      BY <1>1, InstallAssumption DEF InstallTypeOK, Seconds
  <2> QED
      BY <2>1 DEF Tick, Seconds
<1>3. Noted' = Noted
    BY DEF Tick, Noted, Saved
<1>4. InstallTypeOK'
    BY <1>1, <1>2 DEF Tick, InstallTypeOK
<1> QED
    BY <1>3, <1>4, TextKept DEF Tick

\* The user leaves a text in a file, or none.
LEMMA UserEditsKept ==
    ASSUME TextInv, NEW f \in Files, UserEdits(f) PROVE TextInv'
<1> DEFINE c == Existing(f)
<1>1. /\ InstallTypeOK /\ events' \in Nat \ {0}
      /\ UNCHANGED <<baks, seconds, receipts, cmd, clobbered>>
    BY NextEvent DEF UserEdits, TextInv
<1>2. c \in [user : Nat, mneme : {"none", "ours", "edited"}, made : BOOLEAN, valid : BOOLEAN]
      /\ (files[f] # Gone => c = files[f]) /\ files[f] \in Contents
    BY <1>1, ExistingIs
<1>3. \E new \in Contents, text \in Nat :
        /\ files' = [files EXCEPT ![f] = new] /\ wrote' = [wrote EXCEPT ![f] = text]
        /\ text # 0 => \/ new # Gone /\ new.user = text
                       \/ text = wrote[f] /\ files[f] # Gone /\ new # Gone /\ new.user = files[f].user
  <2>1. CASE /\ \E ok \in BOOLEAN : files' = [files EXCEPT ![f] = [c EXCEPT !.user = events', !.valid = ok]]
             /\ wrote' = [wrote EXCEPT ![f] = events']
    <3>1. PICK ok \in BOOLEAN : files' = [files EXCEPT ![f] = [c EXCEPT !.user = events', !.valid = ok]]
        BY <2>1
    <3> DEFINE new == [c EXCEPT !.user = events', !.valid = ok]
    <3> HIDE DEF c
    <3>2. /\ new \in [user : Nat, mneme : {"none", "ours", "edited"}, made : BOOLEAN, valid : BOOLEAN]
          /\ new.user = events'
        BY <1>1, <1>2
    <3>3. files' = [files EXCEPT ![f] = new]
        BY <3>1
    <3>4. new \in Contents /\ new # Gone /\ new.user = events'
      <4> HIDE DEF new
      <4> QED
          BY <3>2, GoneIsApart
    <3> HIDE DEF new
    <3>5. events' \in Nat /\ wrote' = [wrote EXCEPT ![f] = events']
        BY <1>1, <2>1
    <3> QED
        BY <3>3, <3>4, <3>5
  <2>2. CASE c.mneme = "ours" /\ files' = [files EXCEPT ![f].mneme = "edited"] /\ UNCHANGED wrote
    <3>1. files[f] # Gone
        BY <2>2 DEF Existing, Nothing
    <3> DEFINE new == [files[f] EXCEPT !.mneme = "edited"]
    <3>2. files' = [files EXCEPT ![f] = new] /\ wrote' = [wrote EXCEPT ![f] = wrote[f]] /\ wrote[f] \in Nat
        BY <1>1, <2>2 DEF InstallTypeOK
    <3>3. /\ new \in [user : Nat, mneme : {"none", "ours", "edited"}, made : BOOLEAN, valid : BOOLEAN]
          /\ new.user = files[f].user
        BY <1>2, <3>1
    <3> HIDE DEF new
    <3> QED
        BY <3>1, <3>2, <3>3, GoneIsApart
  <2>3. CASE files[f] # Gone /\ files' = [files EXCEPT ![f] = Gone] /\ wrote' = [wrote EXCEPT ![f] = 0]
      BY <2>3, GoneIsApart
  <2> QED
      BY <2>1, <2>2, <2>3 DEF UserEdits
<1>4. PICK new \in Contents, text \in Nat :
        /\ files' = [files EXCEPT ![f] = new] /\ wrote' = [wrote EXCEPT ![f] = text]
        /\ text # 0 => \/ new # Gone /\ new.user = text
                       \/ text = wrote[f] /\ files[f] # Gone /\ new # Gone /\ new.user = files[f].user
    BY <1>3
<1>5. InstallTypeOK'
  <2>1. files' \in [Files -> Contents] /\ wrote' \in [Files -> Nat]
      BY <1>1, <1>4 DEF InstallTypeOK
  <2> QED
      BY <1>1, <2>1 DEF InstallTypeOK
<1>6. ASSUME NEW g \in Files \ (Unkept \cup clobbered'), wrote'[g] # 0
      PROVE  BackedUp(baks', g, wrote'[g]) \/ (files'[g] # Gone /\ files'[g].user = wrote'[g])
  <2>1. wrote[g] # 0 => BackedUp(baks, g, wrote[g]) \/ (files[g] # Gone /\ files[g].user = wrote[g])
      BY <1>1 DEF TextInv
  <2>2. CASE g = f
    <3>1. files'[g] = new /\ wrote'[g] = text
        BY <1>1, <1>4, <2>2 DEF InstallTypeOK
    <3> QED
        BY <1>1, <1>4, <1>6, <2>1, <2>2, <3>1
  <2>3. CASE g # f
    <3>1. files'[g] = files[g] /\ wrote'[g] = wrote[g]
        BY <1>1, <1>4, <2>3 DEF InstallTypeOK
    <3> QED
        BY <1>1, <1>6, <2>1, <3>1
  <2> QED
      BY <2>2, <2>3
<1>7. Noted' = Noted /\ \A a : Undoable(a) => Undoable(a)'
    BY <1>1 DEF Noted, Saved, Undoable
<1> QED
    BY <1>5, <1>6, <1>7 DEF TextInv

\* The invariant holds at first: every text is in its file.
LEMMA TextInitially == InstallInit => TextInv
<1> SUFFICES ASSUME InstallInit PROVE TextInv
    OBVIOUS
<1>1. 1 \in Seconds
    BY InstallAssumption DEF Seconds
<1>2. [Nothing EXCEPT !.user = 1] \in Contents /\ [Nothing EXCEPT !.user = 1] # Gone
      /\ [Nothing EXCEPT !.user = 1].user = 1
  <2>1. [Nothing EXCEPT !.user = 1] \in
            [user : Nat, mneme : {"none", "ours", "edited"}, made : BOOLEAN, valid : BOOLEAN]
        /\ [Nothing EXCEPT !.user = 1].user = 1
      BY DEF Nothing
  <2> QED
      BY <2>1, GoneIsApart
<1>3. /\ files \in [Files -> {Gone, [Nothing EXCEPT !.user = 1]}]
      /\ baks = [f \in Files |-> [s \in Seconds |-> Gone]]
      /\ seconds = 1 /\ receipts = <<>> /\ cmd = NoCommand /\ events = 1
      /\ wrote = [f \in Files |-> IF files[f] = Gone THEN 0 ELSE 1] /\ clobbered = {}
    BY DEF InstallInit
<1>4. cmd \in [op : {"idle"}, todo : TodoOf("idle"), done : Seq(Actions), force : BOOLEAN]
  <2>1. <<>> \in TodoOf("idle") /\ <<>> \in Seq(Actions)
      BY EmptySeq DEF TodoOf
  <2> QED
      BY <1>3, <2>1 DEF NoCommand
<1>5. InstallTypeOK
  <2>1. files \in [Files -> Contents] /\ baks \in [Files -> [Seconds -> Contents]]
        /\ wrote \in [Files -> Nat]
      BY <1>2, <1>3, GoneIsApart
  <2>2. receipts \in Seq(Seq(Actions))
      BY <1>3, EmptySeq
  <2>3. \E op \in {"idle", "install", "uninstall", "rollback", "rolled back"} :
            cmd \in [op : {op}, todo : TodoOf(op), done : Seq(Actions), force : BOOLEAN]
      BY <1>4
  <2>4. events \in Nat \ {0} /\ clobbered \subseteq Files /\ seconds \in Seconds
      BY <1>1, <1>3
  <2>5. baks \in [Files -> [Seconds -> Contents]]
      BY <1>3, GoneIsApart
  <2> QED
      BY <2>1, <2>2, <2>3, <2>4, <2>5 DEF InstallTypeOK
<1>6. \A f \in Files : wrote[f] # 0 => files[f] # Gone /\ files[f].user = wrote[f]
    BY <1>2, <1>3
<1>7. Noted = {}
  <2>1. cmd.done = <<>> /\ cmd.op = "idle"
      BY <1>3 DEF NoCommand
  <2>2. ToSet(<<>>) = {} /\ Saved = {}
      BY <1>3 DEF ToSet, Saved
  <2> QED
      BY <2>1, <2>2 DEF Noted
<1> QED
    BY <1>5, <1>6, <1>7 DEF TextInv

\* Every command, step, fault, edit and rollback keeps the invariant.
LEMMA TextInvKept == TextInv /\ [InstallNext]_installVars => TextInv'
<1> SUFFICES ASSUME TextInv, [InstallNext]_installVars PROVE TextInv'
    OBVIOUS
<1>1. CASE UNCHANGED installVars
  <2>1. Noted' = Noted /\ \A a : Undoable(a) => Undoable(a)'
      BY <1>1 DEF installVars, Noted, Saved, Undoable
  <2>2. InstallTypeOK'
      BY <1>1 DEF installVars, InstallTypeOK, TextInv
  <2> QED
      BY <1>1, <2>1, <2>2 DEF installVars, TextInv
<1>2. ASSUME NEW ts \in Targets, NEW scope \in Scopes,
             (\E skips \in BOOLEAN : StartInstall(ts, scope, skips)) \/ StartUninstall(ts, scope)
      PROVE  TextInv'
    BY <1>2, StartInstallKept, StartUninstallKept
<1>3. ASSUME NEW n, StartRollback(n) PROVE TextInv'
    BY <1>3, StartRollbackKept
<1>4. CASE StepWrites
    BY <1>4, StepWritesKept
<1>5. CASE StepFails
    BY <1>5, StepFailsKept
<1>6. CASE Finishes
    BY <1>6, FinishesKept
<1>7. CASE UndoModified
    BY <1>7, UndoModifiedKept
<1>8. CASE UndoCreated
    BY <1>8, UndoCreatedKept
<1>9. CASE UndoRegistered
    BY <1>9, UndoRegisteredKept
<1>10. CASE RolledBack \/ Prompt
    BY <1>10, NoCommandKept DEF RolledBack, Prompt
<1>11. CASE Dies
    BY <1>11, DiesKept
<1>12. CASE Tick
    BY <1>12, TickKept
<1>13. ASSUME NEW f \in Files, UserEdits(f) PROVE TextInv'
    BY <1>13, UserEditsKept
<1> QED
    BY <1>1, <1>2, <1>3, <1>4, <1>5, <1>6, <1>7, <1>8, <1>9, <1>10, <1>11, <1>12, <1>13 DEF InstallNext

\* The last text the user left in a file is in the file or in one of its copies,
\* unless two copies fell into one second, for every file but those that a plain
\* hook writer or Aider's appending writer replaces.
TextHasACopy ==
    \A f \in Files \ (Unkept \cup clobbered) : wrote[f] # 0 =>
        \E c \in {files[f]} \cup {baks[f][s] : s \in Seconds} : c # Gone /\ c.user = wrote[f]

\* So it is for any platforms, scopes, numbers of commands, edits, failed writes
\* and crashes.
THEOREM EveryTextHasACopy == InstallSpec => []TextHasACopy
<1>1. TextInv => TextHasACopy
    BY DEF TextInv, BackedUp, TextHasACopy
<1> QED
    BY <1>1, TextInitially, TextInvKept, PTL DEF InstallSpec

\* No command destroys what the user wrote, for any platforms whose writers parse
\* the registry and copy the hook file first.
THEOREM InstallKeepsText ==
    ASSUME \A p \in Used : AdapterOf(p).writer # "append" /\ AdapterOf(p).hooks.writer # "plain"
    PROVE  InstallSpec => []UserTextIsSafe
<1>1. Unkept = {}
    BY DEF Unkept
<1>2. TextInv => UserTextIsSafe
    BY <1>1 DEF TextInv, BackedUp, UserTextIsSafe
<1> QED
    BY <1>2, TextInitially, TextInvKept, PTL DEF InstallSpec

-----------------------------------------------------------------------------
(* Rollbacks: the chain of a receipt, and the way back along it. *)

\* No copy is lost from bs to cs.
CopiesKept(bs, cs) == \A f \in Files : \A x \in Seconds : bs[f][x] # Gone => cs[f][x] = bs[f][x]

\* The last action on a file leaves its content there.
LEMMA LeftByLast ==
    ASSUME NEW found, NEW r, NEW k \in Nat, k # 0, NEW f, r[k].file = f, NEW c, r[k].after = c
    PROVE  Left(found, r, k, f, c)
<1>1. k \in 1 .. k
    OBVIOUS
<1>2. k + 1 .. k = {}
    OBVIOUS
<1> QED
    BY <1>1, <1>2 DEF Left

\* What is in a file is what the last action on it left.
LEMMA LastLeft ==
    ASSUME NEW found, NEW r, NEW k \in Nat, k # 0, NEW f, r[k].file = f, NEW c,
           Left(found, r, k, f, c)
    PROVE  c = r[k].after
<1>1. k \in 1 .. k
    OBVIOUS
<1>2. \A j \in 1 .. k : j # k => k \in j + 1 .. k
    OBVIOUS
<1> QED
    BY <1>1, <1>2 DEF Left

\* An action on another file leaves what was there before.
LEMMA LeftBefore ==
    ASSUME NEW found, NEW r, NEW k \in Nat, k # 0, NEW f, NEW c, r[k].file # f
    PROVE  Left(found, r, k, f, c) <=> Left(found, r, k - 1, f, c)
<1>1. k \in 1 .. k /\ k - 1 \in Nat
    OBVIOUS
<1>2. \A j \in 1 .. k : (j = k \/ j \in 1 .. k - 1) /\ (j # k => k \in j + 1 .. k)
    OBVIOUS
<1>3. \A j \in 1 .. k - 1 : /\ j \in 1 .. k
                            /\ \A i \in j + 1 .. k : i = k \/ i \in j + 1 .. k - 1
                            /\ \A i \in j + 1 .. k - 1 : i \in j + 1 .. k
    OBVIOUS
<1>4. ASSUME Left(found, r, k, f, c) PROVE Left(found, r, k - 1, f, c)
  <2>1. CASE (\A i \in 1 .. k : r[i].file # f) /\ c = found[f]
      BY <1>3, <2>1 DEF Left
  <2>2. ASSUME NEW j \in 1 .. k, r[j].file = f, r[j].after = c,
               \A i \in j + 1 .. k : r[i].file # f
        PROVE  Left(found, r, k - 1, f, c)
    <3>1. j \in 1 .. k - 1
        BY <1>2, <2>2
    <3> QED
        BY <1>3, <2>2, <3>1 DEF Left
  <2> QED
      BY <1>4, <2>1, <2>2 DEF Left
<1>5. ASSUME Left(found, r, k - 1, f, c) PROVE Left(found, r, k, f, c)
  <2>1. CASE (\A i \in 1 .. k - 1 : r[i].file # f) /\ c = found[f]
      BY <1>2, <2>1 DEF Left
  <2>2. ASSUME NEW j \in 1 .. k - 1, r[j].file = f, r[j].after = c,
               \A i \in j + 1 .. k - 1 : r[i].file # f
        PROVE  Left(found, r, k, f, c)
      BY <1>3, <2>2 DEF Left
  <2> QED
      BY <1>5, <2>1, <2>2 DEF Left
<1> QED
    BY <1>4, <1>5

\* What the first actions left is told by them alone.
LEMMA LeftOfPrefix ==
    ASSUME NEW found, NEW r, NEW q, NEW k \in Nat, \A i \in 1 .. k : r[i] = q[i], NEW f, NEW c
    PROVE  Left(found, r, k, f, c) <=> Left(found, q, k, f, c)
<1>1. \A j \in 1 .. k : \A i \in j + 1 .. k : i \in 1 .. k
    OBVIOUS
<1> QED
    BY <1>1 DEF Left

\* What is left in a file on the chain has the text the install found there, and is
\* gone only if it was.
LEMMA LeftIsKept ==
    ASSUME NEW found, NEW bs, NEW r, Chain(found, bs, r), Len(r) \in Nat, NEW k \in 0 .. Len(r),
           NEW f, Tracked(found, f), NEW c, Left(found, r, k, f, c)
    PROVE  c.user = found[f].user /\ (c = Gone => found[f] = Gone)
<1>1. CASE c = found[f]
    BY <1>1
<1>2. ASSUME NEW j \in 1 .. k, r[j].file = f, r[j].after = c
      PROVE  c.user = found[f].user /\ c # Gone
  <2>1. j \in 1 .. Len(r)
      OBVIOUS
  <2> QED
      BY <1>2, <2>1 DEF Chain, Link
<1> QED
    BY <1>1, <1>2 DEF Left

\* A link holds as long as the copies do, in every list that begins alike.
LEMMA LinkStays ==
    ASSUME NEW found, NEW bs,
           NEW cs, CopiesKept(bs, cs),
           NEW r, NEW q, NEW k \in Nat \ {0}, \A i \in 1 .. k : r[i] = q[i], r[k] \in Actions,
           Link(found, bs, r, k)
    PROVE  Link(found, cs, q, k)
<1>1. /\ k \in 1 .. k /\ k - 1 \in Nat /\ \A i \in 1 .. k - 1 : i \in 1 .. k
      /\ r[k] = q[k]
    OBVIOUS
<1>2. \A c : Left(found, r, k - 1, r[k].file, c) <=> Left(found, q, k - 1, r[k].file, c)
    BY <1>1, LeftOfPrefix
<1>3. r[k].file \in Files /\ (r[k].what = "modified" => r[k].bak \in Seconds)
  <2>1. MaxSeconds \in Nat
      BY InstallAssumption
  <2> QED
      BY <2>1 DEF Actions, Seconds
<1> QED
    BY <1>1, <1>2, <1>3 DEF Link, CopiesKept

\* No copy is lost while none is overwritten.
LEMMA CopiesSame ==
    ASSUME InstallTypeOK, NEW s \in Steps(Kinds), Clobbers(s) = {}
    PROVE  CopiesKept(baks, Backup(s))
<1> SUFFICES ASSUME NEW f \in Files, NEW x \in Seconds, baks[f][x] # Gone
             PROVE  Backup(s)[f][x] = baks[f][x]
    BY DEF CopiesKept
<1>1. s.file \in Files /\ seconds \in Seconds /\ baks \in [Files -> [Seconds -> Contents]]
    BY StepIs DEF InstallTypeOK
<1>2. CASE BacksUp(s) /\ f = s.file /\ x = seconds
  <2>1. baks[s.file][seconds] \in {Gone, files[s.file]}
      BY <1>2 DEF Clobbers
  <2>2. Backup(s)[f][x] = files[s.file]
      BY <1>1, <1>2 DEF Backup
  <2> QED
      BY <1>2, <2>1, <2>2
<1>3. CASE ~(BacksUp(s) /\ f = s.file /\ x = seconds)
    BY <1>1, <1>3 DEF Backup
<1> QED
    BY <1>2, <1>3

\* The newest copy is the one just made.
LEMMA LatestIsNow ==
    ASSUME NEW b \in [Seconds -> Contents], NEW now \in Seconds, b[now] # Gone,
           \A x \in Seconds : x > now => b[x] = Gone
    PROVE  LatestBak(b) = {now}
<1>1. \A x \in Seconds : x \in Nat /\ now \in Nat
    BY DEF Seconds
<1>2. \A x \in Seconds : x = now \/ x > now \/ now > x
    BY <1>1
<1>3. now \in LatestBak(b)
    BY DEF LatestBak
<1>4. \A x \in LatestBak(b) : x = now
    BY <1>2 DEF LatestBak
<1> QED
    BY <1>3, <1>4

\* One element as a sequence.
LEMMA ElementOfOne ==
    ASSUME NEW e PROVE SetToSeq({e}) = <<e>>
<1>1. Cardinality({e}) = 1
    BY FS_Singleton
<1>2. [i \in 1 .. 1 |-> e] \in [1 .. 1 -> {e}] /\ IsInjective([i \in 1 .. 1 |-> e])
    BY DEF IsInjective
<1>3. SetToSeq({e}) \in [1 .. 1 -> {e}]
    BY <1>1, <1>2 DEF SetToSeq
<1>4. ASSUME NEW g \in [1 .. 1 -> {e}] PROVE g \in Seq({e}) /\ Len(g) = 1 /\ g[1] = e
  <2>1. g \in Seq({e})
      BY 1 \in Nat, SeqDef
  <2>2. DOMAIN g = 1 .. 1 /\ DOMAIN g = 1 .. Len(g) /\ Len(g) \in Nat
      BY <2>1, LenProperties
  <2> QED
      BY <2>1, <2>2
<1> DEFINE q == SetToSeq({e})
<1>5. q \in Seq({e}) /\ Len(q) = 1 /\ q[1] = e
    BY <1>3, <1>4
<1> HIDE DEF q
<1>6. q = <<e>>
    BY <1>5
<1> QED
    BY <1>6 DEF q

\* An install writes mneme's own into every file it copies first.
LEMMA InstallWrites ==
    ASSUME InstallTypeOK, NEW s \in Steps({"manifest", "mcp", "hooks"}), s.file \notin Unkept,
           Written(s) # WriteFailed
    PROVE  /\ ~NoWrite(s) /\ Written(s) \in Contents /\ Written(s) # Gone
           /\ Written(s).mneme = "ours" /\ Written(s).user = files[s.file].user
           /\ s.what = "mcp" => Written(s).made
           /\ files[s.file] # Gone => BacksUp(s)
<1> DEFINE c == Existing(s.file)
<1>1. /\ s \in Steps(Kinds) /\ s.file \in Files /\ s.what \in {"manifest", "mcp", "hooks"}
      /\ s.what = "mcp" => AdapterOf(s.p).writer # "append"
      /\ s.what = "hooks" => AdapterOf(s.p).hooks.writer # "plain"
    BY StepIs DEF Kinds
<1>2. Written(s) \in Contents /\ Written(s).user = c.user
    BY <1>1, WritersKeepText
<1>3. c.user = files[s.file].user
      /\ c \in [user : Nat, mneme : {"none", "ours", "edited"}, made : BOOLEAN, valid : BOOLEAN]
    BY <1>1, ExistingIs, GoneIsApart
<1>4. Written(s) = IF s.what = "manifest" THEN Inject(c, cmd.force) ELSE Merge(c)
    BY <1>1 DEF Written
<1> HIDE DEF c
<1>5. Written(s).mneme = "ours" /\ (s.what = "mcp" => Written(s).made)
    BY <1>1, <1>3, <1>4 DEF Inject, Merge
<1>6. Written(s) # Gone
    BY <1>5 DEF Gone, Nothing
<1>7. ~NoWrite(s) /\ (files[s.file] # Gone => BacksUp(s))
    BY <1>1 DEF NoWrite, BacksUp
<1> QED
    BY <1>2, <1>3, <1>5, <1>6, <1>7

\* What is recorded of a step, of any file.
LEMMA RecordsSay ==
    ASSUME NEW s, NEW before, NEW new, NEW b,
           NEW a \in ToSet(Recorded(s, before, new, b)), LatestBak(b) \subseteq Seconds,
           \A x, y \in LatestBak(b) : x = y
    PROVE  a.p = s.p /\ a.file = s.file /\ a.after = new /\ (a.what = "registered" => s.what = "mcp")
<1> DEFINE All == {r \in [what : {"modified", "created", "registered"}, p : {s.p}, file : {s.file},
                          bak : Seconds \cup {0}, after : {new}] :
                     r.what = "registered" => s.what = "mcp"}
           news == {Record("modified", s, x, new) : x \in LatestBak(b)}
           touched == IF before # Gone \/ s.what = "hooks" THEN SetToSeq(news)
                      ELSE <<Record("created", s, 0, new)>>
           entry == IF s.what = "mcp" THEN <<Record("registered", s, 0, new)>> ELSE <<>>
<1>1. news \subseteq All /\ (\A x, y \in news : x = y)
      /\ Record("created", s, 0, new) \in All
      /\ (s.what = "mcp" => Record("registered", s, 0, new) \in All)
    BY DEF Record
<1>2. Recorded(s, before, new, b) = touched \o entry
    BY DEF Recorded, ShaAfter
<1> HIDE DEF All
<1>3. entry \in Seq(All)
  <2>1. <<>> \in Seq(All) /\ \A e \in All : <<e>> \in Seq(All)
      OBVIOUS
  <2> QED
      BY <1>1, <2>1
<1>4. SetToSeq(news) \in Seq(All)
  <2> HIDE DEF news
  <2>1. SetToSeq(news) \in Seq(news)
      BY <1>1, AtMostOne
  <2> QED
      BY <1>1, <2>1
<1>5. touched \in Seq(All)
    BY <1>1, <1>4
<1> HIDE DEF touched, entry
<1>6. ToSet(Recorded(s, before, new, b)) \subseteq All
  <2>1. touched \o entry \in Seq(All)
      BY <1>3, <1>5, Holds
  <2> QED
      BY <1>2, <2>1, MadeOf
<1>7. a \in All
    BY <1>6
<1> QED
    BY <1>7 DEF All

\* What is recorded of a file that is copied first: how it came to be as it is, and
\* the entry of a registry.
LEMMA RecordsOfCopied ==
    ASSUME InstallTypeOK, NEW s \in Steps({"manifest", "mcp", "hooks"}), s.file \notin Unkept,
           Written(s) # WriteFailed, files[s.file] = Gone => s.what # "hooks",
           \A f \in Files : \A x \in Seconds : x > seconds => baks[f][x] = Gone
    PROVE  \E m \in Actions :
             /\ \/ m.what = "modified" /\ files[s.file] # Gone /\ m.bak = seconds
                   /\ Backup(s)[s.file][seconds] = files[s.file]
                \/ m.what = "created" /\ files[s.file] = Gone
             /\ m.file = s.file /\ m.after = Written(s)
             /\ Recorded(s, files[s.file], Written(s), Backup(s)[s.file])
                   = <<m>> \o (IF s.what = "mcp" THEN <<Record("registered", s, 0, Written(s))>> ELSE <<>>)
<1> DEFINE b == Backup(s)[s.file]
<1>1. /\ s \in Steps(Kinds) /\ s.file \in Files /\ s.p \in Used
      /\ baks \in [Files -> [Seconds -> Contents]] /\ seconds \in Seconds /\ files[s.file] \in Contents
    BY StepIs DEF InstallTypeOK, Kinds
<1>2. Written(s) \in Contents /\ (files[s.file] # Gone => BacksUp(s))
    BY InstallWrites
<1>3. MaxSeconds \in Nat /\ seconds \in 0 .. MaxSeconds /\ seconds # 0
    BY <1>1, InstallAssumption DEF Seconds
<1>4. CASE files[s.file] # Gone
  <2> DEFINE m == Record("modified", s, seconds, Written(s))
  <2>1. b \in [Seconds -> Contents] /\ b[seconds] = files[s.file]
        /\ \A x \in Seconds : x > seconds => b[x] = Gone
    <3>1. Backup(s) = [baks EXCEPT ![s.file][seconds] = files[s.file]]
        BY <1>2, <1>4 DEF Backup
    <3>2. \A x \in Seconds : x > seconds => x # seconds
        BY DEF Seconds
    <3> QED
        BY <1>1, <3>1, <3>2
  <2> HIDE DEF b
  <2>2. LatestBak(b) = {seconds}
      BY <1>1, <1>4, <2>1, LatestIsNow
  <2>3. {Record("modified", s, x, Written(s)) : x \in LatestBak(b)} = {m}
      BY <2>2
  <2>4. SetToSeq({m}) = <<m>>
      BY ElementOfOne
  <2>5. Recorded(s, files[s.file], Written(s), b)
            = <<m>> \o (IF s.what = "mcp" THEN <<Record("registered", s, 0, Written(s))>> ELSE <<>>)
      BY <1>4, <2>3, <2>4 DEF Recorded, ShaAfter
  <2>6. m \in Actions /\ m.what = "modified" /\ m.bak = seconds /\ m.file = s.file /\ m.after = Written(s)
      BY <1>1, <1>2, <1>3 DEF Record, Actions
  <2> HIDE DEF m
  <2> QED
      BY <1>4, <2>1, <2>5, <2>6 DEF b
<1>5. CASE files[s.file] = Gone
  <2> DEFINE m == Record("created", s, 0, Written(s))
  <2>1. Recorded(s, files[s.file], Written(s), b)
            = <<m>> \o (IF s.what = "mcp" THEN <<Record("registered", s, 0, Written(s))>> ELSE <<>>)
      BY <1>5 DEF Recorded, ShaAfter
  <2>2. m \in Actions /\ m.what = "created" /\ m.file = s.file /\ m.after = Written(s)
      BY <1>1, <1>2, <1>3 DEF Record, Actions
  <2> HIDE DEF m, b
  <2> QED
      BY <1>5, <2>1, <2>2 DEF b
<1> QED
    BY <1>4, <1>5

\* A list grown by actions on other files leaves a file as before.
LEMMA LeftGrows ==
    ASSUME NEW found, NEW d \in Seq(Actions), NEW p \in Seq(Actions), NEW f, NEW c,
           \A a \in ToSet(p) : a.file # f, Left(found, d, Len(d), f, c)
    PROVE  Left(found, d \o p, Len(d \o p), f, c)
<1> DEFINE q == d \o p
           n == Len(d)
<1>1. /\ n \in Nat /\ Len(q) \in Nat /\ n <= Len(q) /\ Len(q) = n + Len(p) /\ Len(p) \in Nat
      /\ \A i \in 1 .. n : q[i] = d[i]
      /\ \A i \in 1 .. Len(q) : i \in 1 .. n \/ (i - n \in 1 .. Len(p) /\ q[i] = p[i - n])
  <2>1. /\ Len(q) = Len(d) + Len(p)
        /\ \A i \in 1 .. Len(d) + Len(p) : q[i] = IF i <= Len(d) THEN d[i] ELSE p[i - Len(d)]
        /\ Len(d) \in Nat /\ Len(p) \in Nat
      BY ConcatProperties, LenProperties
  <2> HIDE DEF q
  <2> QED
      BY <2>1
<1>2. \A i \in 1 .. Len(p) : p[i] \in ToSet(p)
  <2>1. DOMAIN p = 1 .. Len(p)
      BY LenProperties
  <2> QED
      BY <2>1 DEF ToSet
<1> HIDE DEF q, n
<1>3. \A i \in 1 .. Len(q) : i \in 1 .. n \/ q[i].file # f
    BY <1>1, <1>2
<1>4. CASE (\A i \in 1 .. n : d[i].file # f) /\ c = found[f]
  <2>1. \A i \in 1 .. Len(q) : q[i].file # f
      BY <1>1, <1>3, <1>4
  <2> QED
      BY <1>4, <2>1 DEF Left, q
<1>5. ASSUME NEW j \in 1 .. n, d[j].file = f, d[j].after = c, \A i \in j + 1 .. n : d[i].file # f
      PROVE  Left(found, q, Len(q), f, c)
  <2>1. j \in 1 .. Len(q) /\ q[j] = d[j]
      BY <1>1
  <2>2. \A i \in j + 1 .. Len(q) : q[i].file # f
    <3> SUFFICES ASSUME NEW i \in j + 1 .. Len(q) PROVE q[i].file # f
        OBVIOUS
    <3>1. i \in 1 .. Len(q)
        BY <1>1
    <3>2. CASE i \in 1 .. n
      <4>1. i \in j + 1 .. n /\ q[i] = d[i]
          BY <1>1, <3>2
      <4> QED
          BY <1>5, <4>1
    <3> QED
        BY <1>3, <3>1, <3>2
  <2> QED
      BY <1>5, <2>1, <2>2 DEF Left
<1> QED
    BY <1>4, <1>5 DEF Left, q, n

\* q is d with p at its end, and has the links d had.
Grown(found, cs, d, p, q) ==
    /\ \A i \in 1 .. Len(d) : Link(found, cs, q, i)
    /\ Len(d) \in Nat /\ Len(q) = Len(d) + Len(p)
    /\ \A i \in 1 .. Len(d) : q[i] = d[i]
    /\ \A i \in 1 .. Len(p) : q[Len(d) + i] = p[i]

\* The links of a list hold on when it grows.
LEMMA LinksStay ==
    ASSUME NEW found, NEW bs,
           NEW cs, CopiesKept(bs, cs),
           NEW d \in Seq(Actions), NEW p \in Seq(Actions), NEW q, q = d \o p,
           Chain(found, bs, d)
    PROVE  Grown(found, cs, d, p, q)
<1>1. /\ Len(q) = Len(d) + Len(p)
      /\ \A i \in 1 .. Len(d) + Len(p) : q[i] = IF i <= Len(d) THEN d[i] ELSE p[i - Len(d)]
      /\ Len(d) \in Nat /\ Len(p) \in Nat /\ DOMAIN d = 1 .. Len(d)
    BY ConcatProperties, LenProperties
<1>2. \A i \in 1 .. Len(d) : q[i] = d[i]
    BY <1>1
<1>3. \A i \in 1 .. Len(p) : q[Len(d) + i] = p[i]
  <2> SUFFICES ASSUME NEW i \in 1 .. Len(p) PROVE q[Len(d) + i] = p[i]
      OBVIOUS
  <2>1. Len(d) + i \in 1 .. Len(d) + Len(p) /\ ~(Len(d) + i <= Len(d)) /\ Len(d) + i - Len(d) = i
      BY <1>1
  <2> QED
      BY <1>1, <2>1
<1>4. ASSUME NEW i \in 1 .. Len(d) PROVE Link(found, cs, q, i)
  <2>1. i \in Nat \ {0} /\ (\A j \in 1 .. i : j \in 1 .. Len(d)) /\ i \in DOMAIN d
      BY <1>1
  <2>2. d[i] \in Actions /\ \A j \in 1 .. i : d[j] = q[j]
      BY <1>2, <2>1
  <2>3. Link(found, bs, d, i)
      BY DEF Chain
  <2> QED
      BY <2>1, <2>2, <2>3, LinkStays
<1> QED
    BY <1>1, <1>2, <1>3, <1>4 DEF Grown

\* A chain grown by actions on a file it is not about.
LEMMA GrowsBeside ==
    ASSUME NEW found, NEW bs,
           NEW cs, CopiesKept(bs, cs),
           NEW d \in Seq(Actions), NEW p \in Seq(Actions), Chain(found, bs, d),
           NEW file, ~Tracked(found, file),
           \A a \in ToSet(p) : a.file = file /\ (a.what = "registered" => a.file = McpConfigPath(a.p, "user")),
           NEW q, q = d \o p
    PROVE  Chain(found, cs, q)
<1>1. /\ \A i \in 1 .. Len(d) : Link(found, cs, q, i)
      /\ Len(d) \in Nat /\ Len(q) = Len(d) + Len(p)
      /\ \A i \in 1 .. Len(p) : q[Len(d) + i] = p[i]
  <2>1. Grown(found, cs, d, p, q)
      BY LinksStay
  <2> QED
      BY <2>1 DEF Grown
<1>2. DOMAIN p = 1 .. Len(p) /\ Len(p) \in Nat
    BY LenProperties
<1>3. ASSUME NEW i \in 1 .. Len(p) PROVE Link(found, cs, q, Len(d) + i)
  <2>1. p[i] \in ToSet(p) /\ q[Len(d) + i] = p[i]
      BY <1>1, <1>2 DEF ToSet
  <2> QED
      BY <2>1 DEF Link
<1>4. \A i \in 1 .. Len(d) + Len(p) : i \in 1 .. Len(d) \/ (i - Len(d) \in 1 .. Len(p) /\ Len(d) + (i - Len(d)) = i)
    BY <1>1, <1>2
<1>5. \A i \in 1 .. Len(d) + Len(p) : Link(found, cs, q, i)
    BY <1>1, <1>3, <1>4
<1> QED
    BY <1>1, <1>5 DEF Chain

\* A chain grown by what is recorded of a file that was copied first.
LEMMA GrowsOn ==
    ASSUME NEW found, NEW bs,
           NEW cs, CopiesKept(bs, cs),
           NEW d \in Seq(Actions), Chain(found, bs, d),
           NEW file, Tracked(found, file), NEW old, Left(found, d, Len(d), file, old),
           NEW new, new # Gone, new.mneme = "ours", new.user = found[file].user,
           NEW m \in Actions, m.file = file, m.after = new,
           \/ m.what = "modified" /\ old # Gone /\ cs[file][m.bak] = old
           \/ m.what = "created" /\ old = Gone,
           NEW e \in Seq(Actions),
           \/ e = <<>>
           \/ \E g \in Actions : /\ e = <<g>> /\ g.what = "registered" /\ g.file = file
                                 /\ g.file = McpConfigPath(g.p, "user") /\ g.after = new /\ new.made
    PROVE  /\ Chain(found, cs, d \o (<<m>> \o e))
           /\ Left(found, d \o (<<m>> \o e), Len(d \o (<<m>> \o e)), file, new)
<1> DEFINE p == <<m>> \o e
           q == d \o p
           n == Len(d)
<1>1. /\ p \in Seq(Actions) /\ Len(p) = 1 + Len(e) /\ Len(e) \in 0 .. 1 /\ p[1] = m
      /\ Len(e) = 1 => p[2] = e[1]
  <2>1. <<m>> \in Seq(Actions) /\ Len(<<m>>) = 1 /\ <<m>>[1] = m
      OBVIOUS
  <2>2. Len(e) \in 0 .. 1
      OBVIOUS
  <2>3. /\ p \in Seq(Actions) /\ Len(p) = 1 + Len(e)
        /\ \A i \in 1 .. 1 + Len(e) : p[i] = IF i <= 1 THEN <<m>>[i] ELSE e[i - 1]
      BY <2>1, ConcatProperties
  <2>4. 1 \in 1 .. 1 + Len(e) /\ (Len(e) = 1 => 2 \in 1 .. 1 + Len(e))
    <3> DEFINE l == Len(e)
    <3>1. l \in 0 .. 1
        BY <2>2
    <3> HIDE DEF l
    <3>2. 1 \in 1 .. 1 + l /\ (l = 1 => 2 \in 1 .. 1 + l)
        BY <3>1
    <3> QED
        BY <3>2 DEF l
  <2> HIDE DEF p
  <2> QED
      BY <2>1, <2>2, <2>3, <2>4
<1> HIDE DEF p
<1>2. /\ \A i \in 1 .. n : Link(found, cs, q, i)
      /\ n \in Nat /\ Len(q) = n + Len(p)
      /\ \A i \in 1 .. n : q[i] = d[i]
      /\ \A i \in 1 .. Len(p) : q[n + i] = p[i]
  <2>1. p \in Seq(Actions) /\ q = d \o p
      BY <1>1
  <2> HIDE DEF q, p
  <2>2. Grown(found, cs, d, p, q)
      BY <2>1, LinksStay
  <2> QED
      BY <2>2 DEF Grown
<1> HIDE DEF q, n
<1>3. q[n + 1] = m /\ (Len(e) = 1 => q[n + 2] = e[1])
    BY <1>1, <1>2
<1>4. Left(found, q, n, file, old)
    BY <1>2, LeftOfPrefix DEF n
<1>5. Link(found, cs, q, n + 1)
  <2>1. n \in Nat
      BY <1>2
  <2>2. CASE m.what = "modified" /\ old # Gone /\ cs[file][m.bak] = old
    <3>1. Left(found, q, n, file, cs[file][m.bak])
        BY <1>4, <2>2
    <3> QED
        BY <1>3, <2>1, <2>2, <3>1 DEF Link
  <2>3. CASE m.what = "created" /\ old = Gone
    <3>1. Left(found, q, n, file, Gone)
        BY <1>4, <2>3
    <3> QED
        BY <1>3, <2>1, <2>3, <3>1 DEF Link
  <2> QED
      BY <2>2, <2>3
<1>6. Left(found, q, n + 1, file, new)
  <2>1. n + 1 \in Nat /\ n + 1 # 0
      BY <1>2
  <2>2. q[n + 1].file = file /\ q[n + 1].after = new
      BY <1>3
  <2> QED
      BY <2>1, <2>2, LeftByLast
<1>7. CASE e = <<>>
  <2>1. Len(q) = n + 1 /\ \A i \in 1 .. n + 1 : i \in 1 .. n \/ i = n + 1
      BY <1>1, <1>2, <1>7
  <2>2. Chain(found, cs, q)
      BY <1>2, <1>5, <2>1 DEF Chain
  <2> QED
      BY <1>6, <2>1, <2>2 DEF q, p
<1>8. ASSUME NEW g \in Actions, e = <<g>>, g.what = "registered", g.file = file,
             g.file = McpConfigPath(g.p, "user"), g.after = new, new.made
      PROVE  Chain(found, cs, q) /\ Left(found, q, Len(q), file, new)
  <2>1. Len(q) = n + 2 /\ (\A i \in 1 .. n + 2 : i \in 1 .. n \/ i = n + 1 \/ i = n + 2) /\ q[n + 2] = g
      BY <1>1, <1>2, <1>3, <1>8
  <2>2. Link(found, cs, q, n + 2)
    <3>1. n \in Nat
        BY <1>2
    <3>2. Left(found, q, n + 2 - 1, file, new)
      <4>1. n + 2 - 1 = n + 1
          BY <3>1
      <4> QED
          BY <1>6, <4>1
    <3> QED
        BY <1>8, <2>1, <3>1, <3>2 DEF Link
  <2>3. Chain(found, cs, q)
      BY <1>2, <1>5, <2>1, <2>2 DEF Chain
  <2>4. Left(found, q, n + 2, file, new)
    <3>1. n + 2 \in Nat /\ n + 2 # 0
        BY <1>2
    <3>2. q[n + 2].file = file /\ q[n + 2].after = new
        BY <1>8, <2>1
    <3> QED
        BY <3>1, <3>2, LeftByLast
  <2> QED
      BY <2>1, <2>3, <2>4
<1> QED
    BY <1>7, <1>8 DEF q, p

\* The steps of an install in the user scope are of its registry and its hook file.
LEMMA StepsOfUser ==
    ASSUME NEW p \in Used, NEW skips \in BOOLEAN
    PROVE  InstallSteps(p, "user", skips, skips) \in Seq(UserSteps)
<1> DEFINE first == IF skips THEN <<>> ELSE <<FileStep("manifest", p, ManifestPath(p, "user"))>>
           mid == <<FileStep("mcp", p, McpConfigPath(p, "user"))>>
           last == IF skips \/ HooksPath(p, "user") = "" THEN <<>>
                   ELSE <<FileStep("hooks", p, HooksPath(p, "user"))>>
<1>1. "user" \in Scopes
    BY InstallAssumption
<1>2. FileStep("manifest", p, ManifestPath(p, "user")) \in UserSteps
    BY <1>1, PathsAreFiles DEF FileStep, Steps, UserSteps
<1>3. FileStep("mcp", p, McpConfigPath(p, "user")) \in UserSteps
  <2>1. McpConfigPath(p, "user") \in Files
      BY <1>1, PathsAreFiles
  <2>2. McpConfigPath(p, "user") \notin Unkept => AdapterOf(p).writer # "append"
      BY <1>1, <2>1 DEF Unkept
  <2> QED
      BY <2>1, <2>2 DEF FileStep, Steps, UserSteps
<1>4. ASSUME HooksPath(p, "user") # ""
      PROVE  FileStep("hooks", p, HooksPath(p, "user")) \in UserSteps
  <2>1. HooksPath(p, "user") \in Files
      BY <1>1, <1>4, PathsAreFiles
  <2>2. HooksPath(p, "user") \notin Unkept => AdapterOf(p).hooks.writer # "plain"
      BY <1>1, <2>1 DEF Unkept
  <2> QED
      BY <2>1, <2>2 DEF FileStep, Steps, UserSteps
<1>5. first \in Seq(UserSteps) /\ mid \in Seq(UserSteps) /\ last \in Seq(UserSteps)
  <2>1. \A e \in UserSteps : <<e>> \in Seq(UserSteps)
      OBVIOUS
  <2>2. <<>> \in Seq(UserSteps)
      OBVIOUS
  <2> QED
      BY <1>2, <1>3, <1>4, <2>1, <2>2
<1>6. InstallSteps(p, "user", skips, skips) = first \o mid \o last
    BY DEF InstallSteps
<1> HIDE DEF first, mid, last
<1>7. first \o mid \in Seq(UserSteps)
    BY <1>5, Holds
<1>8. \A s, t \in Seq(UserSteps) : s \o t \in Seq(UserSteps)
    BY Holds
<1>9. (first \o mid) \o last \in Seq(UserSteps)
    BY <1>5, <1>7, <1>8
<1> QED
    BY <1>6, <1>9

\* An install begins: nothing is recorded, and every file is as it was found.
LEMMA StartInstallOnTheWay ==
    ASSUME UndoInv, NEW ts \in Targets, NEW scope \in Scopes, NEW skips \in BOOLEAN,
           StartInstall(ts, scope, skips), undo'.clean
    PROVE  OnTheWay'
<1> DEFINE each == [i \in 1 .. Len(ts) |-> InstallSteps(ts[i], scope, skips, skips)]
<1>1. scope = "user" /\ undo'.files = files /\ files' = files
    BY DEF StartInstall
<1>2. ts \in Seq(Used)
    BY TargetsAreKnown
<1>3. each \in Seq(Seq(UserSteps))
    BY <1>1, <1>2, StepsOfUser
<1> HIDE DEF each
<1>4. FlattenSeq(each) \in Seq(UserSteps)
    BY <1>3, FlattenIn
<1>5. PICK force \in BOOLEAN : Begin("install", FlattenSeq(each), force)
    BY DEF StartInstall, each
<1>6. cmd'.op = "install" /\ cmd'.todo = FlattenSeq(each) /\ cmd'.done = <<>>
    BY <1>5 DEF Begin
<1>7. ChainTo(cmd.done)'
  <2>1. \A k \in 1 .. Len(<<>>) : FALSE
      OBVIOUS
  <2> QED
      BY <1>1, <1>6, <2>1 DEF ChainTo, Chain, Left
<1> QED
    BY <1>4, <1>6, <1>7 DEF OnTheWay

\* The list an install leaves is the list a rollback goes back along.
LEMMA ReverseIs ==
    ASSUME NEW S, NEW r \in Seq(S)
    PROVE  /\ Len(Reverse(r)) = Len(r) /\ Len(r) \in Nat
           /\ \A i \in 1 .. Len(r) : Reverse(r)[i] = r[Len(r) + 1 - i]
<1>1. Len(r) \in Nat
    OBVIOUS
<1> DEFINE n == Len(r)
           q == [i \in 1 .. n |-> r[(n - i) + 1]]
<1>2. Reverse(r) = q
    BY DEF Reverse
<1>3. \A i \in 1 .. n : (n - i) + 1 = n + 1 - i /\ (n - i) + 1 \in 1 .. n
    BY <1>1
<1>4. \A i \in 1 .. n : r[(n - i) + 1] \in S
    BY <1>1, <1>3
<1>5. q \in Seq(S) /\ Len(q) = n
    BY <1>1, <1>4
<1> QED
    BY <1>1, <1>2, <1>3, <1>5

\* A rollback of the newest receipt begins at the end of the chain.
LEMMA StartRollbackOnTheWay ==
    ASSUME UndoInv, NEW n, StartRollback(n), undo'.clean, clobbered' = {}
    PROVE  OnTheWay'
<1>1. /\ cmd = NoCommand /\ n \in DOMAIN receipts /\ undo.clean /\ n = Len(receipts)
      /\ undo'.files = undo.files
      /\ UNCHANGED <<files, baks, seconds, receipts, events, wrote, clobbered>>
  <2>1. undo \in [clean : BOOLEAN, left : Int, files : [Files -> Contents]]
      BY DEF UndoInv
  <2>2. undo' = [undo EXCEPT !.clean = undo.clean /\ n = Len(receipts), !.left = undo.left - 1]
      BY DEF StartRollback
  <2>3. undo'.clean = (undo.clean /\ n = Len(receipts)) /\ undo'.files = undo.files
      BY <2>1, <2>2
  <2> QED
      BY <2>3 DEF StartRollback, Starts
<1> DEFINE r == Last(receipts)
<1>2. receipts # <<>> /\ ChainTo(r)
  <2>1. OnTheWay
      BY <1>1 DEF UndoInv
  <2>2. cmd.op = "idle"
      BY <1>1 DEF NoCommand
  <2> QED
      BY <2>1, <2>2 DEF OnTheWay
<1>3. r = receipts[n] /\ r \in Seq(Actions)
  <2>1. receipts[n] \in Seq(Actions)
      BY <1>1, NotedAreActions DEF UndoInv, TextInv
  <2> QED
      BY <1>1, <2>1 DEF Last
<1>4. cmd'.op = "rollback" /\ cmd'.todo = Reverse(r)
    BY <1>3 DEF StartRollback, Begin
<1>5. r' = r
    BY <1>1
<1> HIDE DEF r
<1>6. /\ Len(cmd'.todo) = Len(r) /\ Len(r) \in Nat
      /\ \A i \in 1 .. Len(r) : cmd'.todo[i] = r[Len(r) + 1 - i]
    BY <1>3, <1>4, ReverseIs
<1>7. RollingBack(r)'
  <2>1. Chain(undo'.files, baks', r)
      BY <1>1, <1>2 DEF ChainTo
  <2>2. \A f \in Files : Tracked(undo'.files, f) => Left(undo'.files, r, Len(r), f, files'[f])
      BY <1>1, <1>2 DEF ChainTo
  <2> QED
      BY <1>5, <1>6, <2>1, <2>2 DEF RollingBack
<1> QED
    BY <1>1, <1>2, <1>4, <1>7 DEF OnTheWay, r

\* The receipt is saved: what was done is its newest.
LEMMA FinishesOnTheWay ==
    ASSUME UndoInv, Finishes, undo'.clean, clobbered' = {}
    PROVE  OnTheWay'
<1>1. undo'.clean = FALSE \/ (receipts' = Append(receipts, cmd.done) /\ UNCHANGED undo)
  <2>1. undo \in [clean : BOOLEAN, left : Int, files : [Files -> Contents]]
      BY DEF UndoInv
  <2> QED
      BY <2>1 DEF Finishes
<1>2. /\ receipts' = Append(receipts, cmd.done) /\ cmd' = NoCommand
      /\ UNCHANGED <<files, baks, seconds, clobbered, undo>> /\ cmd.op \in {"install", "uninstall"}
    BY <1>1 DEF Finishes
<1>3. ChainTo(cmd.done)
    BY <1>2 DEF UndoInv, OnTheWay
<1>4. receipts \in Seq(Seq(Actions)) /\ cmd.done \in Seq(Actions)
    BY CommandIs DEF UndoInv, TextInv, InstallTypeOK
<1>5. receipts' # <<>> /\ Last(receipts') = cmd.done
    BY <1>2, <1>4 DEF Last
<1>6. ChainTo(Last(receipts))'
    BY <1>2, <1>3, <1>5 DEF ChainTo
<1>7. cmd'.op = "idle"
    BY <1>2 DEF NoCommand
<1> QED
    BY <1>5, <1>6, <1>7 DEF OnTheWay

\* Of the copies of a file, at most one is the newest.
LEMMA OneLatest ==
    ASSUME NEW b PROVE LatestBak(b) \subseteq Seconds /\ \A x, y \in LatestBak(b) : x = y
<1>1. \A x, y \in Seconds : x = y \/ x > y \/ y > x
    BY InstallAssumption DEF Seconds
<1> QED
    BY <1>1 DEF LatestBak

\* A step that is written extends the chain of what was done.
LEMMA StepWritesOnTheWay ==
    ASSUME UndoInv, StepWrites, undo'.clean, clobbered' = {}
    PROVE  OnTheWay'
<1> DEFINE s == Head(cmd.todo)
           quiet == NoWrite(s)
           new == IF quiet THEN files[s.file] ELSE Written(s)
           b == IF quiet THEN baks ELSE Backup(s)
           pushed == Recorded(s, files[s.file], new, b[s.file])
           found == undo.files
           d == cmd.done
<1>1. InstallTypeOK /\ Writing /\ undo' = undo /\ clobbered = {} /\ OnTheWay /\ NoneLater
    BY DEF StepWrites, UndoInv, TextInv
<1>2. cmd.op = "install" /\ cmd.todo \in Seq(UserSteps) /\ cmd.todo # <<>> /\ ChainTo(d)
    BY <1>1 DEF OnTheWay, Writing
<1>3. /\ s \in UserSteps /\ Tail(cmd.todo) \in Seq(UserSteps)
      /\ s \in Steps({"manifest", "mcp", "hooks"}) /\ s \in Steps(Kinds)
      /\ s.file \in Files /\ s.p \in Used /\ s.what \in {"manifest", "mcp", "hooks"}
      /\ s.what = "mcp" => s.file = McpConfigPath(s.p, "user")
      /\ s.what = "hooks" => s.file = HooksPath(s.p, "user")
  <2>1. s \in UserSteps /\ Tail(cmd.todo) \in Seq(UserSteps)
      BY <1>2, Holds
  <2> HIDE DEF s
  <2>2. s \in Steps({"manifest", "mcp", "hooks"})
        /\ (s.what = "mcp" => s.file = McpConfigPath(s.p, "user"))
        /\ (s.what = "hooks" => s.file = HooksPath(s.p, "user"))
      BY <2>1 DEF UserSteps
  <2> QED
      BY <2>1, <2>2, StepIs DEF Kinds
<1>4. /\ Written(s) # WriteFailed /\ files' = [files EXCEPT ![s.file] = new] /\ baks' = b
      /\ cmd' = [cmd EXCEPT !.todo = Rest(s, FALSE), !.done = d \o pushed]
      /\ clobbered' = clobbered \cup (IF quiet THEN {} ELSE Clobbers(s))
    BY <1>2 DEF StepWrites
<1>5. cmd'.op = "install" /\ cmd'.todo = Tail(cmd.todo) /\ cmd'.done = d \o pushed
  <2>1. Rest(s, FALSE) = Tail(cmd.todo)
      BY DEF Rest
  <2>2. /\ [cmd EXCEPT !.todo = Rest(s, FALSE), !.done = d \o pushed].op = cmd.op
        /\ [cmd EXCEPT !.todo = Rest(s, FALSE), !.done = d \o pushed].todo = Rest(s, FALSE)
        /\ [cmd EXCEPT !.todo = Rest(s, FALSE), !.done = d \o pushed].done = d \o pushed
    <3> HIDE DEF pushed, s, d
    <3> QED
        BY <1>1 DEF InstallTypeOK
  <2> HIDE DEF pushed, s, d
  <2> QED
      BY <1>2, <1>4, <2>1, <2>2
<1>6. /\ files \in [Files -> Contents] /\ new \in Contents
      /\ files'[s.file] = new /\ \A f \in Files : f # s.file => files'[f] = files[f]
  <2>1. files \in [Files -> Contents] /\ Written(s) \in Contents
      BY <1>1, <1>3, <1>4, WritersKeepText DEF InstallTypeOK
  <2> QED
      BY <1>3, <1>4, <2>1
<1>7. CopiesKept(baks, b) /\ b \in [Files -> [Seconds -> Contents]]
  <2>1. baks \in [Files -> [Seconds -> Contents]]
      BY <1>1 DEF InstallTypeOK
  <2>2. CASE quiet
      BY <2>1, <2>2 DEF CopiesKept
  <2>3. CASE ~quiet
    <3>1. Clobbers(s) = {}
        BY <1>4, <2>3
    <3>2. CopiesKept(baks, Backup(s))
        BY <1>1, <1>3, <3>1, CopiesSame
    <3>3. Backup(s) \in [Files -> [Seconds -> Contents]]
        BY <1>1, <1>3, <2>1 DEF Backup, InstallTypeOK
    <3> QED
        BY <2>3, <3>2, <3>3
  <2> QED
      BY <2>2, <2>3
<1>8. d \in Seq(Actions) /\ pushed \in Seq(Actions) /\ \A a \in ToSet(pushed) : a.file = s.file /\ a.after = new
  <2>1. b[s.file] \in [Seconds -> Contents]
      BY <1>3, <1>7
  <2>2. d \in Seq(Actions)
      BY <1>1, CommandIs
  <2> HIDE DEF s, new, b, d, quiet
  <2>3. InstallTypeOK /\ s \in Steps(Kinds) /\ new \in Contents
      BY <1>1, <1>3, <1>6
  <2>4. pushed \in Seq(Actions)
      BY <2>1, <2>3, RecordsAre
  <2>5. \A a \in ToSet(pushed) : a.file = s.file /\ a.after = new
      BY <2>1, <2>3, RecordsAre
  <2> QED
      BY <2>2, <2>4, <2>5
<1>9. \A a \in ToSet(pushed) : a.what = "registered" => a.file = McpConfigPath(a.p, "user")
  <2> SUFFICES ASSUME NEW a \in ToSet(pushed), a.what = "registered" PROVE a.file = McpConfigPath(a.p, "user")
      OBVIOUS
  <2> HIDE DEF s, new, b
  <2>1. a.p = s.p /\ a.file = s.file /\ s.what = "mcp"
      BY RecordsSay, OneLatest
  <2> QED
      BY <1>3, <2>1
<1> HIDE DEF pushed, d
<1>10. Chain(found, baks, d) /\ \A f \in Files : Tracked(found, f) => Left(found, d, Len(d), f, files[f])
    BY <1>2 DEF ChainTo
<1>11. \A f \in Files : Tracked(found, f) /\ f # s.file =>
          Left(found, d \o pushed, Len(d \o pushed), f, files'[f])
    BY <1>6, <1>8, <1>10, LeftGrows
<1>12. /\ Chain(found, b, d \o pushed)
       /\ Tracked(found, s.file) => Left(found, d \o pushed, Len(d \o pushed), s.file, new)
  <2>1. CASE ~Tracked(found, s.file)
    <3> HIDE DEF s, b, new, found
    <3> QED
        BY <1>7, <1>8, <1>9, <1>10, <2>1, GrowsBeside
  <2>2. CASE Tracked(found, s.file)
    <3> DEFINE old == files[s.file]
               e == IF s.what = "mcp" THEN <<Record("registered", s, 0, new)>> ELSE <<>>
    <3>1. s.file \notin Unkept /\ Left(found, d, Len(d), s.file, old)
        BY <1>3, <1>10, <2>2 DEF Tracked
    <3>2. old.user = found[s.file].user /\ (old = Gone => found[s.file] = Gone)
      <4>1. Len(d) \in Nat /\ Len(d) \in 0 .. Len(d)
          BY <1>8, LenProperties
      <4> HIDE DEF d, s, old, found
      <4> QED
          BY <1>10, <2>2, <3>1, <4>1, LeftIsKept
    <3>3. old = Gone => s.what # "hooks"
      <4>1. s.p \in ToSet(AllKnown)
          BY <1>3, TargetsAreKnown DEF Used
      <4> QED
          BY <1>3, <2>2, <3>2, <4>1 DEF Tracked
    <3>4. /\ ~quiet /\ Written(s) # Gone /\ Written(s).mneme = "ours" /\ Written(s).user = old.user
          /\ s.what = "mcp" => Written(s).made
        BY <1>1, <1>3, <1>4, <3>1, InstallWrites
    <3>5. PICK m \in Actions :
             /\ \/ m.what = "modified" /\ old # Gone /\ m.bak = seconds
                   /\ Backup(s)[s.file][seconds] = old
                \/ m.what = "created" /\ old = Gone
             /\ m.file = s.file /\ m.after = Written(s)
             /\ Recorded(s, old, Written(s), Backup(s)[s.file])
                   = <<m>> \o (IF s.what = "mcp" THEN <<Record("registered", s, 0, Written(s))>> ELSE <<>>)
      <4> HIDE DEF s
      <4> QED
          BY <1>1, <1>3, <1>4, <3>1, <3>3, RecordsOfCopied DEF NoneLater
    <3>6. pushed = <<m>> \o e /\ new = Written(s) /\ b = Backup(s)
        BY <3>4, <3>5 DEF pushed
    <3>7. /\ e \in Seq(Actions)
          /\ \/ e = <<>>
             \/ \E g \in Actions : /\ e = <<g>> /\ g.what = "registered" /\ g.file = s.file
                                   /\ g.file = McpConfigPath(g.p, "user") /\ g.after = new /\ new.made
      <4>1. CASE s.what = "mcp"
        <5> DEFINE g == Record("registered", s, 0, new)
        <5>1. 0 \in 0 .. MaxSeconds
            BY InstallAssumption
        <5>2. /\ g \in Actions /\ g.what = "registered" /\ g.file = s.file /\ g.p = s.p
              /\ g.after = new
            BY <1>3, <1>6, <5>1 DEF Record, Actions
        <5> HIDE DEF g
        <5>3. e = <<g>>
            BY <4>1 DEF g
        <5> HIDE DEF e, new
        <5> QED
            BY <1>3, <3>4, <3>6, <4>1, <5>2, <5>3
      <4>2. CASE s.what # "mcp"
          BY <4>2, EmptySeq
      <4> QED
          BY <4>1, <4>2
    <3> HIDE DEF s, b, new, found, e, old, quiet
    <3>8. \/ m.what = "modified" /\ old # Gone /\ b[s.file][m.bak] = old
          \/ m.what = "created" /\ old = Gone
        BY <3>5, <3>6
    <3>9. new # Gone /\ new.mneme = "ours" /\ new.user = found[s.file].user /\ m.file = s.file /\ m.after = new
        BY <3>2, <3>4, <3>5, <3>6
    <3>10. /\ Chain(found, b, d \o (<<m>> \o e))
           /\ Left(found, d \o (<<m>> \o e), Len(d \o (<<m>> \o e)), s.file, new)
        BY <1>7, <1>8, <1>10, <2>2, <3>1, <3>7, <3>8, <3>9, GrowsOn
    <3> QED
        BY <3>6, <3>10
  <2> QED
      BY <2>1, <2>2
<1>13. ChainTo(cmd.done)'
  <2>1. Chain(undo'.files, baks', cmd'.done)
      BY <1>1, <1>4, <1>5, <1>12
  <2>2. ASSUME NEW f \in Files, Tracked(undo'.files, f)
        PROVE  Left(undo'.files, cmd'.done, Len(cmd'.done), f, files'[f])
      BY <1>1, <1>5, <1>6, <1>11, <1>12, <2>2
  <2> QED
      BY <2>1, <2>2 DEF ChainTo
<1> HIDE DEF s, d, pushed
<1> QED
    BY <1>3, <1>5, <1>13 DEF OnTheWay

\* The newest receipt holds actions.
LEMMA LastReceipt ==
    ASSUME InstallTypeOK, receipts # <<>>
    PROVE  Last(receipts) \in Seq(Actions) /\ \A i \in DOMAIN Last(receipts) : Last(receipts)[i] \in Actions
<1>1. receipts \in Seq(Seq(Actions))
    BY DEF InstallTypeOK
<1>2. receipts[Len(receipts)] \in Seq(Actions)
    BY <1>1
<1>3. Last(receipts) \in Seq(Actions)
    BY <1>2 DEF Last
<1>4. ASSUME NEW r0 \in Seq(Actions) PROVE \A i \in DOMAIN r0 : r0[i] \in Actions
    OBVIOUS
<1> QED
    BY <1>3, <1>4

\* A step back along the chain: the action is the last one that is left.
LEMMA StepBack ==
    ASSUME UndoInv, NEW what, Undoing(what), Undone, undo.clean, clobbered = {},
           UNCHANGED <<receipts, undo>>
    PROVE  \E r \in Seq(Actions), k \in Nat \ {0} :
             /\ r = Last(receipts) /\ receipts # <<>> /\ k <= Len(r) /\ Len(r) \in Nat
             /\ Head(cmd.todo) = r[k] /\ r[k] \in Actions /\ r[k].what = what
             /\ Chain(undo.files, baks, r) /\ Link(undo.files, baks, r, k)
             /\ cmd'.op = "rollback" /\ Len(cmd'.todo) = k - 1
             /\ \A i \in 1 .. k - 1 : cmd'.todo[i] = r[k - i]
             /\ \A f \in Files : Tracked(undo.files, f) =>
                   Left(undo.files, r, k, f, files[f]) \/ Stripped(undo.files, f, files[f])
<1> DEFINE r == Last(receipts)
           k == Len(cmd.todo)
<1>1. /\ InstallTypeOK /\ OnTheWay /\ cmd.op = "rollback" /\ cmd.todo # <<>>
      /\ Head(cmd.todo).what = what
    BY DEF UndoInv, TextInv, Undoing
<1>2. receipts # <<>> /\ RollingBack(r)
    BY <1>1 DEF OnTheWay
<1>3. r \in Seq(Actions)
    BY <1>1, <1>2, LastReceipt
<1>4. cmd.todo \in Seq(Actions)
    BY <1>1, CommandIs
<1>5. cmd'.op = "rollback" /\ cmd'.todo = Tail(cmd.todo)
    BY <1>1, CommandFields DEF Undone
<1>6. /\ k \in Nat \ {0} /\ Head(cmd.todo) = cmd.todo[1] /\ Len(Tail(cmd.todo)) = k - 1
      /\ \A i \in 1 .. k - 1 : Tail(cmd.todo)[i] = cmd.todo[i + 1]
    BY <1>1, <1>4
<1>7. Len(r) \in Nat /\ \A i \in 1 .. Len(r) : r[i] \in Actions
    BY <1>3
<1> HIDE DEF r
<1>8. /\ Chain(undo.files, baks, r) /\ k <= Len(r) /\ \A i \in 1 .. k : cmd.todo[i] = r[k + 1 - i]
      /\ \A f \in Files : Tracked(undo.files, f) =>
            Left(undo.files, r, k, f, files[f]) \/ Stripped(undo.files, f, files[f])
    BY <1>2 DEF RollingBack
<1> HIDE DEF k
<1>9. /\ 1 \in 1 .. k /\ k + 1 - 1 = k /\ k \in 1 .. Len(r)
      /\ \A i \in 1 .. k - 1 : i + 1 \in 1 .. k /\ k + 1 - (i + 1) = k - i
    BY <1>6, <1>7, <1>8
<1>10. Head(cmd.todo) = r[k] /\ r[k] \in Actions /\ Link(undo.files, baks, r, k)
    BY <1>6, <1>7, <1>8, <1>9 DEF Chain
<1>11. \A i \in 1 .. k - 1 : cmd'.todo[i] = r[k - i]
    BY <1>5, <1>6, <1>8, <1>9
<1>12. Len(cmd'.todo) = k - 1
    BY <1>5, <1>6
<1> QED
    BY <1>1, <1>2, <1>3, <1>5, <1>6, <1>7, <1>8, <1>10, <1>11, <1>12 DEF r

\* After a step back, everything before it is left to undo.
LEMMA OneLinkBack ==
    ASSUME UndoInv, NEW r \in Seq(Actions), NEW k \in Nat \ {0},
           r = Last(receipts), receipts # <<>>, receipts' = receipts, undo' = undo,
           k <= Len(r), Len(r) \in Nat,
           cmd'.op = "rollback", Len(cmd'.todo) = k - 1, \A i \in 1 .. k - 1 : cmd'.todo[i] = r[k - i],
           Chain(undo.files, baks', r),
           \A f \in Files : Tracked(undo.files, f) =>
              Left(undo.files, r, k - 1, f, files'[f]) \/ Stripped(undo.files, f, files'[f])
    PROVE  OnTheWay'
<1>1. k - 1 <= Len(r) /\ \A i \in 1 .. k - 1 : k - 1 + 1 - i = k - i
    OBVIOUS
<1>2. RollingBack(r)'
    BY <1>1 DEF RollingBack
<1> QED
    BY <1>2 DEF OnTheWay

\* Wherever an action is on a chain, its file was as old says before it.
GoesBack(a, old) ==
    \A r, k : a = r[k] /\ Link(undo.files, baks, r, k) /\ Tracked(undo.files, a.file)
                => Left(undo.files, r, k - 1, a.file, old)

\* The file of an action on the chain is as the install left it, and is made as it
\* was before; or it was stripped, which is a drift.
LEMMA ReplacedOnTheWay ==
    ASSUME UndoInv, NEW what, Undoing(what), Undone,
           undo.clean, clobbered = {}, UNCHANGED <<baks, receipts, undo>>, NEW old,
           files' = IF Drifted(Head(cmd.todo)) THEN files
                    ELSE [files EXCEPT ![Head(cmd.todo).file] = old],
           GoesBack(Head(cmd.todo), old)
    PROVE  OnTheWay'
<1> DEFINE a == Head(cmd.todo)
           found == undo.files
<1>1. PICK r \in Seq(Actions), k \in Nat \ {0} :
             /\ r = Last(receipts) /\ receipts # <<>> /\ k <= Len(r) /\ Len(r) \in Nat
             /\ a = r[k] /\ r[k] \in Actions /\ r[k].what = what
             /\ Chain(found, baks, r) /\ Link(found, baks, r, k)
             /\ cmd'.op = "rollback" /\ Len(cmd'.todo) = k - 1
             /\ \A i \in 1 .. k - 1 : cmd'.todo[i] = r[k - i]
             /\ \A f \in Files : Tracked(found, f) =>
                   Left(found, r, k, f, files[f]) \/ Stripped(found, f, files[f])
    BY StepBack
<1>2. a.file \in Files /\ files \in [Files -> Contents]
    BY <1>1 DEF Actions, UndoInv, TextInv, InstallTypeOK
<1>3. Tracked(found, a.file) => /\ a.after # Gone /\ a.after.mneme = "ours"
                                /\ Left(found, r, k - 1, a.file, old)
    BY <1>1 DEF Link, GoesBack
<1> HIDE DEF a, found
<1>4. \A f \in Files : files'[f] = IF f = a.file /\ ~Drifted(a) THEN old ELSE files[f]
    BY <1>2 DEF a
<1>5. ASSUME NEW f \in Files, Tracked(found, f)
      PROVE  Left(found, r, k - 1, f, files'[f]) \/ Stripped(found, f, files'[f])
  <2>1. Left(found, r, k, f, files[f]) \/ Stripped(found, f, files[f])
      BY <1>1, <1>5
  <2>2. CASE f # a.file
    <3>1. Left(found, r, k, f, files[f]) => Left(found, r, k - 1, f, files[f])
      <4>1. r[k].file # f /\ k \in Nat /\ k # 0
          BY <1>1, <2>2
      <4> QED
          BY <4>1, LeftBefore
    <3> QED
        BY <1>4, <2>1, <2>2, <3>1
  <2>3. CASE f = a.file /\ Left(found, r, k, f, files[f])
    <3>1. files[f] = a.after
      <4>1. r[k].file = f /\ k # 0
          BY <1>1, <2>3
      <4>2. files[f] = r[k].after
          BY <2>3, <4>1, LastLeft
      <4> QED
          BY <1>1, <4>2
    <3>2. ~Drifted(a)
        BY <2>3, <3>1 DEF Drifted
    <3> QED
        BY <1>3, <1>4, <1>5, <2>3, <3>2
  <2>4. CASE f = a.file /\ Stripped(found, f, files[f])
    <3>1. Drifted(a)
        BY <1>3, <1>5, <2>4 DEF Drifted, Stripped
    <3> QED
        BY <1>4, <2>4, <3>1
  <2> QED
      BY <2>1, <2>2, <2>3, <2>4
<1> QED
    BY <1>1, <1>5, OneLinkBack DEF found

\* A modified file is made as its copy.
LEMMA UndoModifiedOnTheWay ==
    ASSUME UndoInv, UndoModified, undo'.clean, clobbered' = {} PROVE OnTheWay'
<1> DEFINE a == Head(cmd.todo)
           old == baks[a.file][a.bak]
<1>1. /\ Undoing("modified") /\ Undone /\ undo.clean /\ clobbered = {}
      /\ UNCHANGED <<baks, receipts, undo>>
    BY DEF UndoModified
<1>2. a.what = "modified"
    BY <1>1 DEF Undoing
<1>3. CASE old = Gone
  <2>1. PICK r \in Seq(Actions), k \in Nat \ {0} :
             /\ r = Last(receipts) /\ receipts # <<>> /\ k <= Len(r) /\ Len(r) \in Nat
             /\ a = r[k] /\ r[k] \in Actions
             /\ Chain(undo.files, baks, r) /\ Link(undo.files, baks, r, k)
             /\ cmd'.op = "rollback" /\ Len(cmd'.todo) = k - 1
             /\ \A i \in 1 .. k - 1 : cmd'.todo[i] = r[k - i]
             /\ \A f \in Files : Tracked(undo.files, f) =>
                   Left(undo.files, r, k, f, files[f]) \/ Stripped(undo.files, f, files[f])
      BY <1>1, StepBack
  <2>2. files' = files
      BY <1>3 DEF UndoModified
  <2>3. ~Tracked(undo.files, a.file)
      BY <1>2, <1>3, <2>1 DEF Link
  <2>4. \A f \in Files : Tracked(undo.files, f) =>
            Left(undo.files, r, k - 1, f, files'[f]) \/ Stripped(undo.files, f, files'[f])
    <3> SUFFICES ASSUME NEW f \in Files, Tracked(undo.files, f)
                 PROVE  Left(undo.files, r, k - 1, f, files'[f]) \/ Stripped(undo.files, f, files'[f])
        OBVIOUS
    <3> HIDE DEF a
    <3>1. r[k].file # f
        BY <2>1, <2>3
    <3>2. Left(undo.files, r, k, f, files[f]) <=> Left(undo.files, r, k - 1, f, files[f])
        BY <3>1, LeftBefore
    <3> QED
        BY <2>1, <2>2, <3>2
  <2> QED
      BY <1>1, <2>1, <2>4, OneLinkBack
<1>4. CASE old # Gone
  <2>1. files' = IF Drifted(a) THEN files ELSE [files EXCEPT ![a.file] = old]
      BY <1>4 DEF UndoModified
  <2>2. GoesBack(a, old)
      BY <1>2 DEF Link, GoesBack
  <2> HIDE DEF old
  <2> QED
      BY <1>1, <2>1, <2>2, ReplacedOnTheWay
<1> QED
    BY <1>3, <1>4

\* A created file is removed.
LEMMA UndoCreatedOnTheWay ==
    ASSUME UndoInv, UndoCreated, undo'.clean, clobbered' = {} PROVE OnTheWay'
<1> DEFINE a == Head(cmd.todo)
<1>1. /\ Undoing("created") /\ Undone /\ undo.clean /\ clobbered = {}
      /\ UNCHANGED <<baks, receipts, undo>>
      /\ files' = IF Drifted(a) THEN files ELSE [files EXCEPT ![a.file] = Gone]
    BY DEF UndoCreated
<1>2. a.what = "created"
    BY <1>1 DEF Undoing
<1>3. GoesBack(a, Gone)
    BY <1>2 DEF Link, GoesBack
<1> QED
    BY <1>1, <1>3, ReplacedOnTheWay

\* An entry is stripped from its registry: the file is as before the entry, or has
\* lost mneme's section.
LEMMA UndoRegisteredOnTheWay ==
    ASSUME UndoInv, UndoRegistered, undo'.clean, clobbered' = {} PROVE OnTheWay'
<1> DEFINE a == Head(cmd.todo)
           s == FileStep("unmcp", a.p, McpConfigPath(a.p, "user"))
           writes == ~NoWrite(s) /\ Written(s) # WriteFailed
           found == undo.files
<1>1. /\ Undoing("registered") /\ Undone /\ undo.clean /\ clobbered = {} /\ InstallTypeOK
      /\ UNCHANGED <<receipts, undo>>
      /\ files' = IF writes THEN [files EXCEPT ![s.file] = Written(s)] ELSE files
      /\ baks' = IF writes THEN Backup(s) ELSE baks
      /\ writes => Clobbers(s) = {}
    BY DEF UndoRegistered, UndoInv, TextInv
<1>2. PICK r \in Seq(Actions), k \in Nat \ {0} :
             /\ r = Last(receipts) /\ receipts # <<>> /\ k <= Len(r) /\ Len(r) \in Nat
             /\ a = r[k] /\ r[k] \in Actions /\ r[k].what = "registered"
             /\ Chain(found, baks, r) /\ Link(found, baks, r, k)
             /\ cmd'.op = "rollback" /\ Len(cmd'.todo) = k - 1
             /\ \A i \in 1 .. k - 1 : cmd'.todo[i] = r[k - i]
             /\ \A f \in Files : Tracked(found, f) =>
                   Left(found, r, k, f, files[f]) \/ Stripped(found, f, files[f])
    BY <1>1, StepBack
<1>3. /\ a.file \in Files /\ a.p \in Used /\ s.file = a.file /\ s.what = "unmcp" /\ s.p = a.p
      /\ a \in Actions
    BY <1>2 DEF Actions, Link, FileStep
<1>4. s \in Steps(Kinds)
    BY <1>3 DEF Steps, Kinds, FileStep
<1>5. Tracked(found, a.file) => /\ a.after # Gone /\ a.after.user = found[a.file].user /\ a.after.made
                                /\ Left(found, r, k - 1, a.file, a.after)
    BY <1>2 DEF Link
<1> HIDE DEF a, s, found
<1>6. Chain(found, baks', r)
  <2>1. CopiesKept(baks, baks')
    <3>1. CASE writes
        BY <1>1, <1>4, <3>1, CopiesSame
    <3>2. CASE ~writes
        BY <1>1, <3>2 DEF CopiesKept
    <3> QED
        BY <3>1, <3>2
  <2>2. ASSUME NEW i \in 1 .. Len(r) PROVE Link(found, baks', r, i)
    <3>1. i \in Nat \ {0} /\ r[i] \in Actions /\ \A j \in 1 .. i : r[j] = r[j]
        BY <1>2
    <3>2. Link(found, baks, r, i)
        BY <1>2 DEF Chain
    <3> QED
        BY <2>1, <3>1, <3>2, LinkStays
  <2> QED
      BY <2>2 DEF Chain
<1>7. files \in [Files -> Contents]
    BY <1>1 DEF InstallTypeOK
<1>8. ASSUME writes
      PROVE  /\ files[s.file] # Gone /\ Written(s) # Gone /\ Written(s).user = files[s.file].user
             /\ Written(s).mneme \in {files[s.file].mneme, "none"}
             /\ files[s.file].made /\ Written(s).mneme # "none" => Written(s) = files[s.file]
  <2> DEFINE c == files[s.file]
             w == AdapterOf(s.p).writer
  <2>1. c # Gone
      BY <1>3, <1>8 DEF NoWrite
  <2>2. c \in [user : Nat, mneme : {"none", "ours", "edited"}, made : BOOLEAN, valid : BOOLEAN]
      BY <1>3, <1>7, <2>1, GoneIsApart
  <2>3. Written(s) = Strip(w, c)
      BY <1>3, <2>1 DEF Written, Existing
  <2> HIDE DEF c, w
  <2>4. Written(s) = [c EXCEPT !.mneme = IF w = "zed" THEN c.mneme ELSE "none", !.made = TRUE]
    <3>1. Strip(w, c) # WriteFailed
        BY <1>8, <2>3
    <3> QED
        BY <2>3, <3>1 DEF Strip
  <2>5. /\ Written(s) \in [user : Nat, mneme : {"none", "ours", "edited"}, made : BOOLEAN, valid : BOOLEAN]
        /\ Written(s).user = c.user /\ Written(s).mneme = (IF w = "zed" THEN c.mneme ELSE "none")
        /\ Written(s).made = TRUE /\ Written(s).valid = c.valid
      BY <2>2, <2>4
  <2>6. c.made /\ Written(s).mneme # "none" => Written(s) = c
    <3> SUFFICES ASSUME c.made, Written(s).mneme # "none" PROVE Written(s) = c
        OBVIOUS
    <3>1. c.made = TRUE
        BY <2>2
    <3> QED
        BY <2>2, <2>5, <3>1
  <2>7. Written(s) # Gone
      BY <2>5, GoneIsApart
  <2> QED
      BY <2>1, <2>5, <2>6, <2>7 DEF c
<1>9. \A f \in Files : files'[f] = IF f = a.file /\ writes THEN Written(s) ELSE files[f]
    BY <1>1, <1>3, <1>7
<1>10. ASSUME NEW f \in Files, Tracked(found, f)
       PROVE  Left(found, r, k - 1, f, files'[f]) \/ Stripped(found, f, files'[f])
  <2>1. Left(found, r, k, f, files[f]) \/ Stripped(found, f, files[f])
      BY <1>2, <1>10
  <2>2. CASE f # a.file
    <3>1. Left(found, r, k, f, files[f]) => Left(found, r, k - 1, f, files[f])
      <4>1. r[k].file # f /\ k \in Nat /\ k # 0
          BY <1>2, <2>2
      <4> QED
          BY <4>1, LeftBefore
    <3> QED
        BY <1>9, <2>1, <2>2, <3>1
  <2>3. CASE f = a.file /\ Left(found, r, k, f, files[f])
    <3>1. files[f] = a.after
      <4>1. r[k].file = f /\ k # 0
          BY <1>2, <2>3
      <4>2. files[f] = r[k].after
          BY <2>3, <4>1, LastLeft
      <4> QED
          BY <1>2, <4>2
    <3>2. CASE ~writes
        BY <1>5, <1>9, <1>10, <2>3, <3>1, <3>2
    <3>3. CASE writes
      <4>1. files'[f] = Written(s) /\ s.file = f
          BY <1>3, <1>9, <2>3, <3>3
      <4>2. CASE Written(s).mneme # "none"
        <5>1. Written(s) = a.after
            BY <1>5, <1>8, <1>10, <2>3, <3>1, <3>3, <4>1, <4>2
        <5> QED
            BY <1>5, <1>10, <2>3, <4>1, <5>1
      <4>3. CASE Written(s).mneme = "none"
          BY <1>5, <1>8, <1>10, <2>3, <3>1, <3>3, <4>1, <4>3 DEF Stripped
      <4> QED
          BY <4>2, <4>3
    <3> QED
        BY <3>2, <3>3
  <2>4. CASE f = a.file /\ Stripped(found, f, files[f])
    <3>1. CASE ~writes
        BY <1>9, <2>4, <3>1
    <3>2. CASE writes
      <4>1. files'[f] = Written(s) /\ s.file = f
          BY <1>3, <1>9, <2>4, <3>2
      <4> QED
          BY <1>8, <2>4, <3>2, <4>1 DEF Stripped
    <3> QED
        BY <3>1, <3>2
  <2> QED
      BY <2>1, <2>2, <2>3, <2>4
<1> QED
    BY <1>1, <1>2, <1>6, <1>10, OneLinkBack DEF found

\* At the end of the way back every file is as it was found, or stripped.
LEMMA RolledBackOnTheWay ==
    ASSUME UndoInv, RolledBack, undo'.clean, clobbered' = {} PROVE OnTheWay'
<1>1. /\ cmd.op = "rollback" /\ cmd.todo = <<>> /\ cmd' = [NoCommand EXCEPT !.op = "rolled back"]
      /\ UNCHANGED <<files, baks, receipts, undo, clobbered>>
    BY DEF RolledBack
<1>2. receipts # <<>> /\ RollingBack(Last(receipts))
    BY <1>1 DEF UndoInv, OnTheWay
<1>3. Len(cmd.todo) = 0
  <2>1. Len(<<>>) = 0 /\ cmd.todo = <<>>
      BY <1>1, EmptySeq
  <2> QED
      BY <2>1, Zenon
<1>4. \A f : ~\E i \in 1 .. 0 : TRUE
    OBVIOUS
<1>5. BackAgain
    BY <1>2, <1>3, <1>4 DEF RollingBack, BackAgain, Left
<1>6. BackAgain'
    BY <1>1, <1>5 DEF BackAgain
<1>7. cmd'.op = "rolled back"
    BY <1>1 DEF NoCommand
<1> QED
    BY <1>1, <1>2, <1>6, <1>7 DEF OnTheWay

\* The invariant while nothing it is about changes.
LEMMA OnTheWayStays ==
    ASSUME UndoInv, UNCHANGED <<files, baks, receipts, cmd, undo, clobbered>>,
           undo'.clean, clobbered' = {}
    PROVE  OnTheWay'
<1>1. OnTheWay
    BY DEF UndoInv
<1> QED
    BY <1>1 DEF OnTheWay, ChainTo, RollingBack, BackAgain

\* No copy is named after a second that has not come.
LEMMA NoneLaterKept ==
    ASSUME UndoInv, [InstallNext]_installVars PROVE NoneLater'
<1>1. InstallTypeOK /\ NoneLater /\ seconds \in Seconds /\ Seconds \subseteq Nat
  <2>1. InstallTypeOK /\ NoneLater
      BY DEF UndoInv, TextInv
  <2>2. Seconds \subseteq Nat
      BY InstallAssumption DEF Seconds
  <2> QED
      BY <2>1, <2>2 DEF InstallTypeOK
<1>2. CASE baks' = baks /\ seconds' = seconds
    BY <1>1, <1>2 DEF NoneLater
<1>3. ASSUME NEW s \in Steps(Kinds), baks' = Backup(s), seconds' = seconds PROVE NoneLater'
  <2>1. s.file \in Files /\ baks \in [Files -> [Seconds -> Contents]]
      BY <1>1, StepIs DEF InstallTypeOK
  <2>2. \A f \in Files : \A x \in Seconds : x # seconds => Backup(s)[f][x] = baks[f][x]
      BY <1>1, <2>1 DEF Backup
  <2>3. \A x \in Seconds : x > seconds => x # seconds
      BY <1>1
  <2> QED
      BY <1>1, <1>3, <2>2, <2>3 DEF NoneLater
<1>4. CASE baks' = baks /\ seconds' = seconds + 1
  <2>1. \A x \in Seconds : x > seconds + 1 => x > seconds
      BY <1>1
  <2> QED
      BY <1>1, <1>4, <2>1 DEF NoneLater
<1>5. ASSUME Writing PROVE Head(cmd.todo) \in Steps(Kinds)
    BY <1>1, <1>5, WritingIs
<1>6. CASE UNCHANGED installVars
    BY <1>2, <1>6 DEF installVars
<1>7. ASSUME NEW ts, NEW scope,
             (\E skips \in BOOLEAN : StartInstall(ts, scope, skips)) \/ StartUninstall(ts, scope)
      PROVE  NoneLater'
    BY <1>2, <1>7 DEF StartInstall, StartUninstall
<1>8. ASSUME NEW n, StartRollback(n) PROVE NoneLater'
    BY <1>2, <1>8 DEF StartRollback
<1>9. CASE StepWrites
  <2>1. baks' = baks \/ baks' = Backup(Head(cmd.todo))
      BY <1>9 DEF StepWrites
  <2>2. Writing /\ seconds' = seconds
      BY <1>9 DEF StepWrites
  <2> QED
      BY <1>2, <1>3, <1>5, <2>1, <2>2
<1>10. CASE StepFails
  <2>1. baks' = baks \/ baks' = Backup(Head(cmd.todo))
      BY <1>10 DEF StepFails
  <2>2. Writing /\ seconds' = seconds
      BY <1>10 DEF StepFails
  <2> QED
      BY <1>2, <1>3, <1>5, <2>1, <2>2
<1>11. CASE Finishes \/ UndoModified \/ UndoCreated \/ RolledBack \/ Prompt
    BY <1>2, <1>11 DEF Finishes, UndoModified, UndoCreated, RolledBack, Prompt
<1>12. CASE UndoRegistered
  <2> DEFINE a == Head(cmd.todo)
             s == FileStep("unmcp", a.p, McpConfigPath(a.p, "user"))
  <2>1. baks' = baks \/ baks' = Backup(s)
      BY <1>12 DEF UndoRegistered
  <2>2. seconds' = seconds /\ Undoing("registered") /\ Undone /\ receipts' = receipts
      BY <1>12 DEF UndoRegistered
  <2>3. a.p \in Used /\ "user" \in Scopes
      BY <1>1, <2>2, AfterUndo, InstallAssumption DEF Actions
  <2>4. McpConfigPath(a.p, "user") \in Files
      BY <2>3, PathsAreFiles
  <2>5. s \in Steps(Kinds)
      BY <2>3, <2>4 DEF FileStep, Steps, Kinds
  <2> HIDE DEF s
  <2> QED
      BY <1>2, <1>3, <2>1, <2>2, <2>5
<1>13. CASE Dies
  <2>1. baks' = baks \/ (Writing /\ baks' = Backup(Head(cmd.todo)))
      BY <1>13 DEF Dies
  <2>2. seconds' = seconds
      BY <1>13 DEF Dies
  <2> QED
      BY <1>2, <1>3, <1>5, <2>1, <2>2
<1>14. CASE Tick
    BY <1>4, <1>14 DEF Tick
<1>15. ASSUME NEW f \in Files, UserEdits(f) PROVE NoneLater'
    BY <1>2, <1>15 DEF UserEdits
<1> QED
    BY <1>6, <1>7, <1>8, <1>9, <1>10, <1>11, <1>12, <1>13, <1>14, <1>15 DEF InstallNext

\* The record of what an install found stays one.
LEMMA UndoIsKept ==
    ASSUME UndoInv, [InstallNext]_installVars
    PROVE  undo' \in [clean : BOOLEAN, left : Int, files : [Files -> Contents]]
<1> DEFINE Undos == [clean : BOOLEAN, left : Int, files : [Files -> Contents]]
<1> SUFFICES undo' \in Undos
    OBVIOUS
<1>1. undo \in Undos /\ files \in [Files -> Contents]
    BY DEF UndoInv, TextInv, InstallTypeOK
<1>2. [undo EXCEPT !.clean = FALSE] \in Undos /\ [undo EXCEPT !.clean = FALSE, !.left = @ - 1] \in Undos
  <2>1. undo.left - 1 \in Int
      BY <1>1
  <2>2. [undo EXCEPT !.clean = FALSE] \in Undos
      BY <1>1
  <2>3. [undo EXCEPT !.clean = FALSE, !.left = undo.left - 1] \in Undos
      BY <1>1, <2>1
  <2> QED
      BY <2>2, <2>3
<1>3. ASSUME NEW ts, NEW scope, NEW skips \in BOOLEAN, StartInstall(ts, scope, skips) PROVE undo' \in Undos
  <2>1. undo' = [clean |-> scope = "user", left |-> undo.left - 1, files |-> files]
      BY <1>3 DEF StartInstall
  <2>2. undo.left - 1 \in Int /\ (scope = "user") \in BOOLEAN
      BY <1>1
  <2> QED
      BY <1>1, <2>1, <2>2
<1>4. ASSUME NEW n, StartRollback(n) PROVE undo' \in Undos
  <2>1. undo' = [undo EXCEPT !.clean = undo.clean /\ n = Len(receipts), !.left = undo.left - 1]
      BY <1>4 DEF StartRollback
  <2>2. (undo.clean /\ n = Len(receipts)) \in BOOLEAN /\ undo.left - 1 \in Int
      BY <1>1
  <2> QED
      BY <1>1, <2>1, <2>2
<1> HIDE DEF Undos
<1>5. ASSUME NEW ts, NEW scope, StartUninstall(ts, scope) PROVE undo' \in Undos
    BY <1>2, <1>5 DEF StartUninstall
<1>6. CASE StepFails \/ Finishes \/ Prompt \/ Dies
  <2>1. undo' = undo \/ undo' = [undo EXCEPT !.clean = FALSE]
      BY <1>6 DEF StepFails, Finishes, Prompt, Dies
  <2> QED
      BY <1>1, <1>2, <2>1
<1>7. ASSUME NEW f \in Files, UserEdits(f) PROVE undo' \in Undos
    BY <1>2, <1>7 DEF UserEdits
<1>8. CASE StepWrites \/ UndoModified \/ UndoCreated \/ UndoRegistered \/ RolledBack \/ Tick
           \/ UNCHANGED installVars
  <2>1. undo' = undo
      BY <1>8 DEF StepWrites, UndoModified, UndoCreated, UndoRegistered, RolledBack, Tick, installVars
  <2> QED
      BY <1>1, <2>1
<1> QED
    BY <1>3, <1>4, <1>5, <1>6, <1>7, <1>8 DEF InstallNext

\* Every command, step, fault, edit and rollback keeps the invariant.
LEMMA UndoInvKept == UndoInv /\ [InstallNext]_installVars => UndoInv'
<1> SUFFICES ASSUME UndoInv, [InstallNext]_installVars PROVE UndoInv'
    OBVIOUS
<1>1. TextInv'
    BY TextInvKept DEF UndoInv
<1>2. NoneLater' /\ undo' \in [clean : BOOLEAN, left : Int, files : [Files -> Contents]]
    BY NoneLaterKept, UndoIsKept
<1>3. SUFFICES ASSUME undo'.clean, clobbered' = {} PROVE OnTheWay'
    BY <1>1, <1>2 DEF UndoInv
<1>4. undo \in [clean : BOOLEAN, left : Int, files : [Files -> Contents]]
    BY DEF UndoInv
<1>5. [undo EXCEPT !.clean = FALSE].clean = FALSE
      /\ [undo EXCEPT !.clean = FALSE, !.left = @ - 1].clean = FALSE
    BY <1>4
<1>6. CASE UNCHANGED installVars
    BY <1>3, <1>6, OnTheWayStays DEF installVars
<1>7. ASSUME NEW ts \in Targets, NEW scope \in Scopes,
             (\E skips \in BOOLEAN : StartInstall(ts, scope, skips)) \/ StartUninstall(ts, scope)
      PROVE  OnTheWay'
  <2>1. undo' # [undo EXCEPT !.clean = FALSE, !.left = @ - 1]
      BY <1>3, <1>5
  <2>2. ~StartUninstall(ts, scope)
      BY <2>1 DEF StartUninstall
  <2> QED
      BY <1>3, <1>7, <2>2, StartInstallOnTheWay
<1>8. ASSUME NEW n, StartRollback(n) PROVE OnTheWay'
    BY <1>3, <1>8, StartRollbackOnTheWay
<1>9. CASE StepWrites
    BY <1>3, <1>9, StepWritesOnTheWay
<1>10. CASE Finishes
    BY <1>3, <1>10, FinishesOnTheWay
<1>11. CASE UndoModified
    BY <1>3, <1>11, UndoModifiedOnTheWay
<1>12. CASE UndoCreated
    BY <1>3, <1>12, UndoCreatedOnTheWay
<1>13. CASE UndoRegistered
    BY <1>3, <1>13, UndoRegisteredOnTheWay
<1>14. CASE RolledBack
    BY <1>3, <1>14, RolledBackOnTheWay
<1>15. CASE Tick
    BY <1>3, <1>15, OnTheWayStays DEF Tick
<1>16. undo' # [undo EXCEPT !.clean = FALSE]
    BY <1>3, <1>5
<1>17. ~StepFails /\ ~Prompt /\ ~Dies /\ \A f \in Files : ~UserEdits(f)
    BY <1>16 DEF StepFails, Prompt, Dies, UserEdits
<1> QED
    BY <1>6, <1>7, <1>8, <1>9, <1>10, <1>11, <1>12, <1>13, <1>14, <1>15, <1>17 DEF InstallNext

\* The invariant holds at first: nothing has been installed.
LEMMA UndoInitially == InstallInit => UndoInv
<1> SUFFICES ASSUME InstallInit PROVE UndoInv
    OBVIOUS
<1>1. TextInv
    BY TextInitially
<1>2. undo = [clean |-> FALSE, left |-> MaxCommands, files |-> files]
      /\ baks = [f \in Files |-> [s \in Seconds |-> Gone]]
    BY DEF InstallInit
<1>3. MaxCommands \in Int /\ files \in [Files -> Contents]
  <2>1. MaxCommands \in Int
      BY InstallAssumption
  <2>2. files \in [Files -> Contents]
      BY <1>1 DEF TextInv, InstallTypeOK
  <2> QED
      BY <2>1, <2>2
<1>4. undo \in [clean : BOOLEAN, left : Int, files : [Files -> Contents]] /\ ~undo.clean
    BY <1>2, <1>3
<1>5. NoneLater
    BY <1>2 DEF NoneLater
<1> QED
    BY <1>1, <1>4, <1>5 DEF UndoInv

\* A rollback of the last install, when nothing else happened since it began and no
\* two copies of a file fell into one second, brings back every file but those that
\* a plain hook writer or Aider's appending writer replaces.
RollbackBringsBack ==
    cmd.op = "rolled back" /\ undo.clean /\ clobbered = {} =>
        \A i \in DOMAIN Last(receipts) :
            LET f == Last(receipts)[i].file
                before == undo.files[f]
                hook == \E p \in ToSet(AllKnown) : f = HooksPath(p, "user")
            IN f \notin Unkept /\ ~(hook /\ before = Gone) =>
                /\ MnemeIn(files[f]) \in {"none", MnemeIn(before)}
                /\ Existing(f).user = before.user

\* At the end of the way back, the files are as the property wants them.
LEMMA BackIsAsBefore == UndoInv => RollbackBringsBack
<1> SUFFICES ASSUME UndoInv, cmd.op = "rolled back", undo.clean, clobbered = {},
                    NEW i \in DOMAIN Last(receipts), NEW f, f = Last(receipts)[i].file,
                    f \notin Unkept,
                    ~((\E p \in ToSet(AllKnown) : f = HooksPath(p, "user")) /\ undo.files[f] = Gone)
             PROVE  /\ MnemeIn(files[f]) \in {"none", MnemeIn(undo.files[f])}
                    /\ Existing(f).user = undo.files[f].user
    BY Zenon DEF RollbackBringsBack
<1>1. receipts # <<>> /\ BackAgain /\ InstallTypeOK
    BY DEF UndoInv, OnTheWay, TextInv
<1>2. f \in Files
  <2>1. Last(receipts)[i] \in Actions
      BY <1>1, LastReceipt
  <2> QED
      BY <2>1 DEF Actions
<1>3. Tracked(undo.files, f)
    BY <1>2 DEF Tracked
<1>4. Existing(f).user = files[f].user
    BY GoneIsApart DEF Existing
<1>5. CASE files[f] = undo.files[f]
    BY <1>4, <1>5
<1>6. CASE Stripped(undo.files, f, files[f])
    BY <1>4, <1>6 DEF Stripped, MnemeIn
<1> QED
    BY <1>1, <1>2, <1>3, <1>5, <1>6 DEF BackAgain

\* So it is for any platforms, scopes, numbers of commands, edits, failed writes
\* and crashes.
THEOREM EveryRollbackBringsBack == InstallSpec => []RollbackBringsBack
<1> QED
    BY BackIsAsBefore, UndoInitially, UndoInvKept, PTL DEF InstallSpec

\* A rollback undoes the last install, for any platforms whose writers parse the
\* registry and copy the hook file first.
THEOREM RollbackUndoes ==
    ASSUME \A p \in Used : AdapterOf(p).writer # "append" /\ AdapterOf(p).hooks.writer # "plain"
    PROVE  InstallSpec => []RollbackUndoesInstall
<1>1. Unkept = {}
    BY DEF Unkept
<1>2. UndoInv => RollbackUndoesInstall
    BY <1>1, BackIsAsBefore, Zenon DEF RollbackBringsBack, RollbackUndoesInstall
<1> QED
    BY <1>2, UndoInitially, UndoInvKept, PTL DEF InstallSpec

-----------------------------------------------------------------------------
(* PromptHook: the elements of a sequence at some places. *)

\* Two finite sets between which there is a one-to-one map are of one size.
LEMMA SameSize ==
    ASSUME NEW S, NEW T, IsFiniteSet(S), NEW f \in [S -> T],
           \A a, b \in S : f[a] = f[b] => a = b,
           \A t \in T : \E a \in S : f[a] = t
    PROVE  IsFiniteSet(T) /\ Cardinality(T) = Cardinality(S)
<1>1. f \in Bijection(S, T)
    BY DEF Bijection, Injection, Surjection, IsInjective
<1> QED
    BY <1>1, FS_Bijection DEF ExistsBijection

\* The how-manieth x is in P.
Place(P, x) == Cardinality({y \in P : y <= x})

\* Places are those of the numbers from 1 to the size of P, in order.
Places(P) ==
    /\ Cardinality(P) \in Nat
    /\ \A x \in P : Place(P, x) \in 1 .. Cardinality(P)
    /\ \A x, y \in P : x < y => Place(P, x) < Place(P, y)
    /\ \A i \in 1 .. Cardinality(P) : \E x \in P : Place(P, x) = i

\* So it is for every finite set of numbers.
LEMMA PlacesCount ==
    ASSUME NEW P, P \subseteq Nat, IsFiniteSet(P) PROVE Places(P)
<1> DEFINE upTo(x) == {y \in P : y <= x}
           n == Cardinality(P)
<1>1. n \in Nat
    BY FS_CardinalityType
<1>2. \A x : IsFiniteSet(upTo(x)) /\ Cardinality(upTo(x)) \in Nat /\ Cardinality(upTo(x)) <= n
  <2> SUFFICES ASSUME NEW x PROVE IsFiniteSet(upTo(x)) /\ Cardinality(upTo(x)) \in Nat /\ Cardinality(upTo(x)) <= n
      OBVIOUS
  <2>1. upTo(x) \in SUBSET P
      OBVIOUS
  <2> HIDE DEF upTo
  <2>2. IsFiniteSet(upTo(x)) /\ Cardinality(upTo(x)) <= n
      BY <2>1, FS_Subset
  <2> QED
      BY <2>2, FS_CardinalityType
<1>3. \A x : Place(P, x) = Cardinality(upTo(x))
    BY DEF Place
<1>4. ASSUME NEW x \in P PROVE Place(P, x) \in 1 .. n
  <2>1. x \in upTo(x)
      OBVIOUS
  <2> HIDE DEF upTo
  <2>2. Cardinality(upTo(x)) # 0
      BY <1>2, <2>1, FS_EmptySet
  <2> QED
      BY <1>1, <1>2, <1>3, <2>2
<1>5. ASSUME NEW x \in P, NEW y \in P, x < y PROVE Place(P, x) < Place(P, y)
  <2>1. upTo(x) \in SUBSET upTo(y) /\ y \in upTo(y) /\ y \notin upTo(x)
    <3>1. x \in Nat /\ y \in Nat /\ \A z \in P : z \in Nat /\ (z <= x => z <= y)
        BY <1>5
    <3>2. \A z : z \in upTo(x) => z \in upTo(y)
        BY <3>1
    <3> QED
        BY <1>5, <3>1, <3>2
  <2> HIDE DEF upTo
  <2>2. Cardinality(upTo(x)) <= Cardinality(upTo(y)) /\ Cardinality(upTo(x)) # Cardinality(upTo(y))
      BY <1>2, <2>1, FS_Subset
  <2> QED
      BY <1>2, <1>3, <2>2
<1> DEFINE f == [x \in P |-> Place(P, x)]
<1>6. f \in Injection(P, 1 .. n)
  <2>1. \A x, y \in P : f[x] = f[y] => x = y
    <3> SUFFICES ASSUME NEW x \in P, NEW y \in P, f[x] = f[y], x # y PROVE FALSE
        OBVIOUS
    <3>1. x < y \/ y < x
        OBVIOUS
    <3>2. Place(P, x) \in Int /\ Place(P, x) = Place(P, y)
        BY <1>4
    <3> QED
        BY <1>5, <3>1, <3>2
  <2>2. f \in [P -> 1 .. n]
      BY <1>4
  <2> HIDE DEF f, n
  <2> QED
      BY <2>1, <2>2 DEF Injection, IsInjective
<1>7. f \in Surjection(P, 1 .. n)
  <2>1. IsFiniteSet(1 .. n) /\ Cardinality(1 .. n) = n
      BY <1>1, FS_Interval
  <2> HIDE DEF f
  <2> QED
      BY <1>6, <2>1, FS_Injection
<1>8. \A i \in 1 .. n : \E x \in P : f[x] = i
  <2> HIDE DEF f, n
  <2> QED
      BY <1>7 DEF Surjection
<1> QED
    BY <1>1, <1>4, <1>5, <1>8 DEF Places

\* Each place has one element.
ElementsOfPlaces(s, P) ==
    LET E == ElementsAt(s, P)
    IN  /\ DOMAIN E = 1 .. Cardinality(P) /\ E = [i \in 1 .. Cardinality(P) |-> E[i]]
        /\ \A x \in P : E[Place(P, x)] = s[x]
        /\ \A i \in DOMAIN E : \E x \in P : Place(P, x) = i /\ E[i] = s[x]

\* What ElementsAt is.
LEMMA ElementsAre ==
    ASSUME NEW s, NEW P, P \subseteq Nat, Places(P) PROVE ElementsOfPlaces(s, P)
<1> DEFINE E == ElementsAt(s, P)
           n == Cardinality(P)
           at(i) == CHOOSE x \in P : Place(P, x) = i
<1>1. E = [i \in 1 .. n |-> s[at(i)]]
    BY DEF ElementsAt, Place
<1>2. ASSUME NEW x \in P PROVE at(Place(P, x)) = x
  <2>1. at(Place(P, x)) \in P /\ Place(P, at(Place(P, x))) = Place(P, x)
      OBVIOUS
  <2> HIDE DEF at
  <2>2. \A y \in P : Place(P, y) = Place(P, x) => y = x
    <3> SUFFICES ASSUME NEW y \in P, Place(P, y) = Place(P, x), x # y PROVE FALSE
        OBVIOUS
    <3>1. x < y \/ y < x
        OBVIOUS
    <3> QED
        BY <3>1 DEF Places
  <2> QED
      BY <2>1, <2>2
<1>3. ASSUME NEW i \in 1 .. n PROVE at(i) \in P /\ Place(P, at(i)) = i
  <2>1. \E x \in P : Place(P, x) = i
      BY DEF Places
  <2> QED
      BY <2>1
<1> HIDE DEF at, E
<1>4. ASSUME NEW x \in P PROVE E[Place(P, x)] = s[x]
  <2>1. Place(P, x) \in 1 .. n
      BY DEF Places
  <2> QED
      BY <1>1, <1>2, <2>1
<1>5. ASSUME NEW i \in 1 .. n PROVE \E x \in P : Place(P, x) = i /\ E[i] = s[x]
    BY <1>1, <1>3
<1> QED
    BY <1>1, <1>4, <1>5 DEF E, ElementsOfPlaces

\* Some of the elements are as many as the places they come from.
LEMMA AsManyElements ==
    ASSUME NEW s, NEW P, P \subseteq Nat, IsFiniteSet(P), NEW I, NEW J, I \subseteq DOMAIN ElementsAt(s, P), J \subseteq P,
           \A x \in P : x \in J <=> Place(P, x) \in I
    PROVE  Cardinality(I) = Cardinality(J) /\ Cardinality(J) \in Nat
<1>1. Places(P)
    BY PlacesCount
<1>2. I \subseteq 1 .. Cardinality(P)
    BY <1>1, ElementsAre DEF ElementsOfPlaces
<1> DEFINE f == [x \in J |-> Place(P, x)]
<1>3. f \in [J -> I]
    OBVIOUS
<1>4. ASSUME NEW a \in J, NEW b \in J, f[a] = f[b] PROVE a = b
  <2> SUFFICES ASSUME a # b PROVE FALSE
      OBVIOUS
  <2>1. a < b \/ b < a
      OBVIOUS
  <2>2. Place(P, a) = Place(P, b)
      BY <1>4
  <2> QED
      BY <1>1, <2>1, <2>2 DEF Places
<1>5. ASSUME NEW i \in I PROVE \E a \in J : f[a] = i
    BY <1>1, <1>2 DEF Places
<1>6. IsFiniteSet(J)
    BY FS_Subset
<1> HIDE DEF f
<1>7. Cardinality(I) = Cardinality(J)
    BY <1>3, <1>4, <1>5, <1>6, SameSize
<1> QED
    BY <1>6, <1>7, FS_CardinalityType

\* One place more, behind the others.
LEMMA OnePlaceMore ==
    ASSUME NEW s, NEW n \in Nat, NEW P, P \subseteq 1 .. n
    PROVE  ElementsAt(s, P \cup {n + 1}) = Append(ElementsAt(s, P), s[n + 1])
<1> DEFINE Q == P \cup {n + 1}
           E == ElementsAt(s, P)
           F == ElementsAt(s, Q)
           m == Cardinality(P)
<1>1. P \subseteq Nat /\ Q \subseteq Nat /\ IsFiniteSet(P) /\ n + 1 \notin P
  <2>1. IsFiniteSet(1 .. n)
      BY FS_Interval
  <2>2. IsFiniteSet(P)
      BY <2>1, FS_Subset
  <2>3. \A x \in P : x \in Nat /\ x <= n
      OBVIOUS
  <2> QED
      BY <2>2, <2>3
<1>2. IsFiniteSet(Q) /\ Cardinality(Q) = m + 1
    BY <1>1, FS_AddElement
<1>3. Places(P) /\ Places(Q)
    BY <1>1, <1>2, PlacesCount
<1>4. ElementsOfPlaces(s, P) /\ ElementsOfPlaces(s, Q)
    BY <1>1, <1>3, ElementsAre
<1>5. \A x \in P : Place(Q, x) = Place(P, x)
  <2>1. \A x \in P : {y \in Q : y <= x} = {y \in P : y <= x}
      OBVIOUS
  <2> QED
      BY <2>1 DEF Place
<1>6. Place(Q, n + 1) = m + 1
  <2>1. {y \in Q : y <= n + 1} = Q
    <3>1. \A y \in Q : y <= n + 1
        OBVIOUS
    <3> QED
        BY <3>1
  <2> QED
      BY <1>2, <2>1 DEF Place
<1>7. m \in Nat /\ DOMAIN E = 1 .. m /\ DOMAIN F = 1 .. m + 1 /\ E = [i \in 1 .. m |-> E[i]] /\ F = [i \in 1 .. m + 1 |-> F[i]]
  <2>1. m \in Nat
      BY <1>3 DEF Places
  <2>2. DOMAIN E = 1 .. m /\ E = [i \in 1 .. m |-> E[i]]
      BY <1>4 DEF ElementsOfPlaces
  <2>3. DOMAIN F = 1 .. Cardinality(Q) /\ F = [i \in 1 .. Cardinality(Q) |-> F[i]]
      BY <1>4 DEF ElementsOfPlaces
  <2> HIDE DEF E, F, Q
  <2> QED
      BY <1>2, <2>1, <2>2, <2>3
<1>8. F[m + 1] = s[n + 1]
  <2>1. F[Place(Q, n + 1)] = s[n + 1]
      BY <1>4 DEF ElementsOfPlaces
  <2> HIDE DEF F
  <2> QED
      BY <1>6, <2>1
<1>9. ASSUME NEW i \in 1 .. m PROVE F[i] = E[i]
  <2>1. PICK x \in P : Place(P, x) = i /\ E[i] = s[x]
      BY <1>4, <1>7 DEF ElementsOfPlaces
  <2> QED
      BY <1>4, <1>5, <2>1 DEF ElementsOfPlaces
<1> HIDE DEF E, F
<1> DEFINE S == {E[i] : i \in 1 .. m} \cup {s[n + 1]}
<1>10. E \in Seq(S) /\ Len(E) = m
  <2>1. E \in [1 .. m -> S]
      BY <1>7
  <2> HIDE DEF S
  <2>2. E \in Seq(S)
      BY <1>7, <2>1, SeqDef
  <2> QED
      BY <1>7, <2>2, LenProperties
<1>11. Append(E, s[n + 1]) = F
  <2>1. /\ Append(E, s[n + 1]) \in Seq(S) /\ Len(Append(E, s[n + 1])) = m + 1
        /\ \A i \in 1 .. m : Append(E, s[n + 1])[i] = E[i]
        /\ Append(E, s[n + 1])[m + 1] = s[n + 1]
    <3>1. s[n + 1] \in S
        OBVIOUS
    <3> HIDE DEF S
    <3> QED
        BY <1>10, <3>1, AppendProperties
  <2>2. F \in Seq(S) /\ Len(F) = m + 1
    <3>1. F \in [1 .. m + 1 -> S]
        BY <1>7, <1>8, <1>9
    <3> HIDE DEF S
    <3>2. F \in Seq(S)
        BY <1>7, <3>1, SeqDef
    <3> QED
        BY <1>7, <3>2, LenProperties
  <2>3. \A i \in 1 .. m + 1 : Append(E, s[n + 1])[i] = F[i]
    <3> SUFFICES ASSUME NEW i \in 1 .. m + 1 PROVE Append(E, s[n + 1])[i] = F[i]
        OBVIOUS
    <3>1. CASE i = m + 1
        BY <1>8, <2>1, <3>1
    <3>2. CASE i # m + 1
      <4>1. i \in 1 .. m
          BY <1>7, <3>2
      <4> QED
          BY <1>9, <2>1, <4>1
    <3> QED
        BY <3>1, <3>2
  <2> HIDE DEF S
  <2> QED
      BY <2>1, <2>2, <2>3, SeqEqual
<1> QED
    BY <1>11 DEF E, F
-----------------------------------------------------------------------------
(* PromptHook: what ParseTinyYaml has read up to a line. *)

\* A sequence, of whatever it has.
IsSequence(s) == s \in Seq({s[i] : i \in DOMAIN s})

\* One element more.
Appended(s, e) ==
    LET t == Append(s, e)
    IN  /\ IsSequence(t) /\ Len(s) \in Nat /\ DOMAIN s = 1 .. Len(s) /\ DOMAIN t = 1 .. Len(s) + 1
        /\ t[Len(s) + 1] = e /\ \A i \in DOMAIN s : t[i] = s[i]

\* Append on such a sequence.
LEMMA AppendsOne ==
    ASSUME NEW s, NEW e, IsSequence(s) PROVE Appended(s, e)
<1> DEFINE S == {s[i] : i \in DOMAIN s} \cup {e}
           t == Append(s, e)
<1>1. s \in Seq(S) /\ e \in S
  <2>1. s \in Seq({s[i] : i \in DOMAIN s})
      BY DEF IsSequence
  <2>2. \A i \in 1 .. Len(s) : s[i] \in S
      BY <2>1
  <2> HIDE DEF S
  <2>3. s \in Seq(S)
      BY <2>1, <2>2, SeqDef
  <2> QED
      BY <2>3 DEF S
<1>2. t \in Seq(S) /\ Len(t) = Len(s) + 1 /\ t[Len(s) + 1] = e /\ \A i \in 1 .. Len(s) : t[i] = s[i]
  <2> HIDE DEF S
  <2> QED
      BY <1>1, AppendProperties
<1>3. Len(s) \in Nat /\ DOMAIN s = 1 .. Len(s) /\ DOMAIN t = 1 .. Len(s) + 1
  <2> HIDE DEF S
  <2> QED
      BY <1>1, <1>2, LenProperties
<1>4. IsSequence(t)
  <2>1. t \in [1 .. Len(s) + 1 -> {t[i] : i \in DOMAIN t}]
    <3>1. t = [i \in DOMAIN t |-> t[i]]
      <4> HIDE DEF S, t
      <4> QED
          BY <1>2, <1>3
    <3> HIDE DEF t
    <3> QED
        BY <1>3, <3>1
  <2>2. Len(s) + 1 \in Nat
      BY <1>3
  <2> HIDE DEF t
  <2>3. t \in Seq({t[i] : i \in DOMAIN t})
      BY <2>1, <2>2, SeqDef
  <2> QED
      BY <2>3 DEF IsSequence
<1> HIDE DEF S, t
<1> QED
    BY <1>2, <1>3, <1>4 DEF t, Appended

\* The last of some numbers.
LastOf(S) == CHOOSE x \in S : \A y \in S : y <= x

\* A set of some of the first numbers has a last one.
LEMMA LastIsLast ==
    ASSUME NEW n \in Nat, NEW S, S \subseteq 1 .. n, S # {}
    PROVE  LastOf(S) \in S /\ \A y \in S : y <= LastOf(S)
<1> DEFINE gaps == {n - i : i \in S}
<1>1. \A i \in S : i \in Nat /\ i <= n
    OBVIOUS
<1>2. gaps \subseteq Nat /\ gaps # {}
  <2>1. \A i \in S : n - i \in Nat
      BY <1>1
  <2> QED
      BY <2>1
<1>3. PICK g \in gaps : \A h \in gaps : g <= h
  <2> HIDE DEF gaps
  <2> QED
      BY <1>2, LeastNumber
<1>4. PICK i \in S : g = n - i
    BY <1>3
<1>5. ASSUME NEW j \in S PROVE j <= i
  <2>1. n - j \in gaps
      OBVIOUS
  <2> HIDE DEF gaps
  <2> QED
      BY <1>1, <1>3, <1>4, <2>1
<1> QED
    BY <1>5 DEF LastOf

\* The last one is the only one that no other exceeds.
LEMMA LastIs ==
    ASSUME NEW n \in Nat, NEW S, S \subseteq 1 .. n, NEW x \in S, \A y \in S : y <= x PROVE LastOf(S) = x
<1>1. LastOf(S) \in S /\ \A y \in S : y <= LastOf(S)
    BY LastIsLast
<1>2. \A y \in S : y \in Nat
    OBVIOUS
<1>3. LastOf(S) <= x /\ x <= LastOf(S) /\ x \in Nat /\ LastOf(S) \in Nat
    BY <1>1, <1>2
<1> QED
    BY <1>3

\* Of a key that comes twice the last one counts.
LEMMA LastFieldCounts ==
    ASSUME NEW kv, NEW e, NEW K, IsSequence(kv)
    PROVE  FieldOf(Append(kv, e), K) = IF e.key = K THEN e ELSE FieldOf(kv, K)
<1> DEFINE t == Append(kv, e)
           n == Len(kv)
           at == {i \in DOMAIN kv : kv[i].key = K}
           at2 == {i \in DOMAIN t : t[i].key = K}
<1>1. Appended(kv, e)
    BY AppendsOne
<1>2. /\ n \in Nat /\ DOMAIN kv = 1 .. n /\ DOMAIN t = 1 .. n + 1 /\ t[n + 1] = e
      /\ \A i \in 1 .. n : t[i] = kv[i]
    BY <1>1 DEF Appended
<1> HIDE DEF t, n
<1>3. CASE e.key = K
  <2>1. n + 1 \in at2 /\ \A j \in at2 : j <= n + 1
      BY <1>2, <1>3
  <2>2. \A i \in at2 : (\A j \in at2 : j <= i) => i = n + 1
      BY <1>2, <2>1
  <2>3. (CHOOSE i \in at2 : \A j \in at2 : j <= i) = n + 1
    <3> HIDE DEF at2
    <3> QED
        BY <2>1, <2>2
  <2>4. FieldOf(t, K) = t[n + 1]
      BY <2>1, <2>3 DEF FieldOf
  <2> QED
      BY <1>2, <1>3, <2>4 DEF t
<1>4. CASE e.key # K
  <2>1. at2 = at /\ at \subseteq 1 .. n
      BY <1>2, <1>4
  <2> DEFINE l == CHOOSE i \in at : \A j \in at : j <= i
  <2>2. FieldOf(t, K) = (IF at = {} THEN [key |-> K, array |-> TRUE, texts |-> <<>>] ELSE t[l])
    <3>1. FieldOf(t, K) = (IF at2 = {} THEN [key |-> K, array |-> TRUE, texts |-> <<>>]
                           ELSE t[CHOOSE i \in at2 : \A j \in at2 : j <= i])
        BY DEF FieldOf
    <3> HIDE DEF at, at2
    <3> QED
        BY <2>1, <3>1 DEF l
  <2>3. FieldOf(kv, K) = (IF at = {} THEN [key |-> K, array |-> TRUE, texts |-> <<>>] ELSE kv[l])
      BY DEF FieldOf
  <2>4. at # {} => l \in at
    <3>1. l = LastOf(at)
        BY DEF LastOf
    <3> HIDE DEF at, l
    <3> QED
        BY <1>2, <2>1, <3>1, LastIsLast
  <2> HIDE DEF l, at
  <2>5. at # {} => t[l] = kv[l]
      BY <1>2, <2>1, <2>4
  <2> QED
      BY <1>4, <2>2, <2>3, <2>5 DEF t
<1> QED
    BY <1>3, <1>4

\* The lines of a frontmatter.
IsFront(f) ==
    /\ IsSequence(f)
    /\ \A i \in DOMAIN f : IsLine(f[i]) /\ f[i].kind # "fence"

\* The lines behind line x, up to line n, may be of a block.
Clean(f, x, n) ==
    /\ \A r \in x + 1 .. n : f[r].kind \in {"item", "text", "blank"}
    /\ ~\E r, t \in x + 1 .. n : r < t /\ f[r].kind = "item" /\ f[t].kind = "text"

\* What WrittenTexts takes of the first n lines for the key line x, and for a key.
KeysUpTo(f, K, n) == {x \in 1 .. n : f[x].kind = "key" /\ f[x].key = K}
TakenUpTo(f, x, n, kind) == {q \in 1 .. n : InBlock(f, x, q) /\ f[q].kind = kind}
TextsOfKey(f, x, n) ==
    IF f[x].form = "scalar" THEN <<f[x].words[1].text>>
    ELSE IF f[x].form = "inline" THEN NonEmpty([i \in DOMAIN f[x].words |-> f[x].words[i].text])
    ELSE IF TakenUpTo(f, x, n, "item") # {} THEN LineTexts(ElementsAt(f, TakenUpTo(f, x, n, "item")))
    ELSE <<FlattenSeq(LineTexts(ElementsAt(f, TakenUpTo(f, x, n, "text"))))>>
TextsUpTo(f, K, n) ==
    IF KeysUpTo(f, K, n) = {} THEN <<>> ELSE TextsOfKey(f, LastOf(KeysUpTo(f, K, n)), n)


\* The elements at some of the first places are a sequence.
LEMMA ElementsAreSequence ==
    ASSUME NEW s, NEW n \in Nat, NEW P, P \subseteq 1 .. n PROVE IsSequence(ElementsAt(s, P))
<1> DEFINE E == ElementsAt(s, P)
           m == Cardinality(P)
<1>1. P \subseteq Nat /\ IsFiniteSet(P)
  <2>1. IsFiniteSet(1 .. n)
      BY FS_Interval
  <2>2. \A x \in 1 .. n : x \in Nat
      OBVIOUS
  <2> QED
      BY <2>1, <2>2, FS_Subset
<1>2. m \in Nat /\ DOMAIN E = 1 .. m /\ E = [i \in 1 .. m |-> E[i]]
  <2>1. Places(P)
      BY <1>1, PlacesCount
  <2>2. m \in Nat
      BY <2>1 DEF Places
  <2> QED
      BY <1>1, <2>1, <2>2, ElementsAre DEF ElementsOfPlaces
<1> HIDE DEF E, m
<1>3. E \in [1 .. m -> {E[i] : i \in DOMAIN E}]
    BY <1>2
<1>4. E \in Seq({E[i] : i \in DOMAIN E})
    BY <1>2, <1>3, SeqDef
<1> QED
    BY <1>4 DEF IsSequence, E

\* Nothing is at no place.
LEMMA NothingTaken ==
    ASSUME NEW s PROVE LineTexts(ElementsAt(s, {})) = <<>>
<1>1. Cardinality({}) = 0
    BY FS_EmptySet
<1> DEFINE E == ElementsAt(s, {})
<1>2. DOMAIN E = {}
    BY <1>1 DEF ElementsAt
<1> HIDE DEF E
<1>3. LineTexts(E) = [i \in {} |-> E[i].words[1].text]
    BY <1>2 DEF LineTexts
<1>4. LineTexts(E) \in [1 .. 0 -> {}]
    BY <1>3
<1>5. LineTexts(E) \in Seq({}) /\ Len(LineTexts(E)) = 0
  <2>1. LineTexts(E) \in Seq({})
      BY <1>4, SeqDef
  <2> QED
      BY <1>3, <2>1, LenProperties
<1>6. LineTexts(E) = <<>>
    BY <1>5, EmptySeq
<1> QED
    BY <1>6 DEF E

\* The texts of one line more.
LEMMA OneTextMore ==
    ASSUME NEW E, NEW l, IsSequence(E)
    PROVE  LineTexts(Append(E, l)) = Append(LineTexts(E), l.words[1].text)
<1> DEFINE T == LineTexts(E)
           U == LineTexts(Append(E, l))
           e == l.words[1].text
           m == Len(E)
<1>1. Appended(E, l)
    BY AppendsOne
<1>2. m \in Nat /\ DOMAIN E = 1 .. m /\ DOMAIN Append(E, l) = 1 .. m + 1
    BY <1>1 DEF Appended
<1>3. T = [i \in 1 .. m |-> T[i]] /\ DOMAIN T = 1 .. m /\ \A i \in 1 .. m : T[i] = E[i].words[1].text
    BY <1>2 DEF LineTexts
<1>4. U = [i \in 1 .. m + 1 |-> U[i]] /\ DOMAIN U = 1 .. m + 1 /\ \A i \in 1 .. m + 1 : U[i] = Append(E, l)[i].words[1].text
    BY <1>2 DEF LineTexts
<1>5. U[m + 1] = e /\ \A i \in 1 .. m : U[i] = T[i]
    BY <1>1, <1>2, <1>3, <1>4 DEF Appended
<1> HIDE DEF T, U, e, m
<1>6. T \in [1 .. m -> {T[i] : i \in DOMAIN T}]
    BY <1>3
<1>7. T \in Seq({T[i] : i \in DOMAIN T}) /\ Len(T) = m
  <2>1. T \in Seq({T[i] : i \in DOMAIN T})
      BY <1>2, <1>6, SeqDef
  <2> QED
      BY <1>2, <1>3, <2>1, LenProperties
<1>8. Appended(T, e)
    BY <1>7, AppendsOne DEF IsSequence
<1> DEFINE A == Append(T, e)
<1>9. A = [i \in DOMAIN A |-> A[i]]
  <2>1. IsSequence(A)
      BY <1>8 DEF Appended
  <2> HIDE DEF A
  <2>2. A \in [1 .. Len(A) -> {A[i] : i \in DOMAIN A}]
      BY <2>1 DEF IsSequence
  <2> QED
      BY <2>2
<1>10. DOMAIN A = 1 .. m + 1 /\ \A i \in 1 .. m + 1 : A[i] = U[i]
  <2>1. DOMAIN A = 1 .. m + 1 /\ A[m + 1] = e /\ \A i \in 1 .. m : A[i] = T[i]
      BY <1>2, <1>7, <1>8 DEF Appended
  <2> HIDE DEF A
  <2> SUFFICES ASSUME NEW i \in 1 .. m + 1 PROVE A[i] = U[i]
      BY <2>1
  <2>2. i = m + 1 \/ i \in 1 .. m
      BY <1>2
  <2> QED
      BY <1>5, <2>1, <2>2
<1> HIDE DEF A
<1>11. A = U
    BY <1>4, <1>9, <1>10
<1> QED
    BY <1>11 DEF A, U, T, e

\* An open key line all lines behind which may be of its block.
OpenAt(f, x, n) ==
    x \in 1 .. n /\ f[x].kind = "key" /\ f[x].form = "open" /\ Clean(f, x, n)

\* The open block of p is the one of line x.
BlockOf(f, p, x, n) ==
    /\ OpenAt(f, x, n) /\ f[x].key = p.key
    /\ p.array = (TakenUpTo(f, x, n, "item") # {})
    /\ p.items = LineTexts(ElementsAt(f, TakenUpTo(f, x, n, "item")))
    /\ p.folded = LineTexts(ElementsAt(f, TakenUpTo(f, x, n, "text")))

\* A record of the reader, and one without an open block.
IsReader(p) ==
    /\ p = [out |-> p.out, key |-> p.key, array |-> p.array, items |-> p.items, folded |-> p.folded]
    /\ IsSequence(p.out)
IsKey(key) == key # ""
IsIdle(p) == ~IsKey(p.key) /\ p.array = FALSE /\ p.items = <<>> /\ p.folded = <<>>

\* What the reader has after n lines.
ParserInv(f, p, n) ==
    /\ IsReader(p)
    /\ \/ IsIdle(p) /\ \A x : ~OpenAt(f, x, n)
       \/ IsKey(p.key) /\ \E x : BlockOf(f, p, x, n)
    /\ \A K : IsKey(K) /\ K # p.key => FieldOf(p.out, K).texts = TextsUpTo(f, K, n)

\* What it has when it closes a block there.
IdleInv(f, p, n) ==
    /\ IsReader(p) /\ IsIdle(p)
    /\ \A K : IsKey(K) => FieldOf(p.out, K).texts = TextsUpTo(f, K, n)

\* A block that is open is the only one.
LEMMA OnlyOneOpen ==
    ASSUME NEW f, NEW n \in Nat, NEW x, NEW y, OpenAt(f, x, n), y \in 1 .. n, f[y].kind = "key", y # x
    PROVE  y < x
<1>1. x \in 1 .. n /\ y \in 1 .. n /\ \A r \in x + 1 .. n : f[r].kind # "key"
    BY DEF OpenAt, Clean
<1>2. ~ (x < y)
  <2> SUFFICES ASSUME x < y PROVE FALSE
      OBVIOUS
  <2>1. y \in x + 1 .. n
      BY <1>1
  <2> QED
      BY <1>1, <2>1
<1> QED
    BY <1>1, <1>2

\* What closing a block adds.
LEMMA CloseIdle ==
    ASSUME NEW f, NEW p, NEW n \in Nat, ParserInv(f, p, n) PROVE IdleInv(f, Closed(p), n)
<1>1. CASE ~IsKey(p.key)
    BY <1>1 DEF ParserInv, IdleInv, Closed, IsKey
<1>2. CASE IsKey(p.key)
  <2> DEFINE e == [key |-> p.key, array |-> p.array,
                   texts |-> IF p.array THEN p.items ELSE <<FlattenSeq(p.folded)>>]
             c == [out |-> Append(p.out, e), key |-> "", array |-> FALSE, items |-> <<>>, folded |-> <<>>]
  <2>1. Closed(p) = c
      BY <1>2 DEF Closed, IsKey
  <2>2. IsReader(c) /\ IsIdle(c)
    <3>1. IsSequence(p.out)
        BY DEF ParserInv, IsReader
    <3> HIDE DEF e
    <3>2. IsSequence(Append(p.out, e))
        BY <3>1, AppendsOne DEF Appended
    <3> QED
        BY <3>2 DEF IsReader, IsIdle, IsKey
  <2>3. PICK x : BlockOf(f, p, x, n)
      BY <1>2 DEF ParserInv, IsIdle
  <2>4. e.texts = TextsUpTo(f, p.key, n)
    <3>1. x \in 1 .. n /\ f[x].kind = "key" /\ f[x].form = "open" /\ f[x].key = p.key
        BY <2>3 DEF BlockOf, OpenAt
    <3>2. x \in KeysUpTo(f, p.key, n) /\ KeysUpTo(f, p.key, n) \subseteq 1 .. n
        BY <3>1 DEF KeysUpTo
    <3>3. \A y \in KeysUpTo(f, p.key, n) : y <= x
      <4> SUFFICES ASSUME NEW y \in KeysUpTo(f, p.key, n), y # x PROVE y <= x
          BY <3>1
      <4>1. y \in 1 .. n /\ f[y].kind = "key"
          BY DEF KeysUpTo
      <4>2. OpenAt(f, x, n)
          BY <2>3 DEF BlockOf
      <4>3. y < x
          BY <4>1, <4>2, OnlyOneOpen
      <4> QED
          BY <3>1, <4>1, <4>3
    <3>4. LastOf(KeysUpTo(f, p.key, n)) = x
        BY <3>2, <3>3, LastIs
    <3>5. TextsUpTo(f, p.key, n) = TextsOfKey(f, x, n)
        BY <3>2, <3>4 DEF TextsUpTo
    <3> QED
        BY <2>3, <3>1, <3>5 DEF TextsOfKey, BlockOf
  <2>5. ASSUME NEW K, IsKey(K) PROVE FieldOf(c.out, K).texts = TextsUpTo(f, K, n)
    <3>1. FieldOf(c.out, K) = IF e.key = K THEN e ELSE FieldOf(p.out, K)
      <4>1. IsSequence(p.out)
          BY DEF ParserInv, IsReader
      <4> HIDE DEF e
      <4> QED
          BY <4>1, LastFieldCounts
    <3>2. e.key = p.key
        OBVIOUS
    <3> HIDE DEF e, c
    <3> QED
        BY <2>4, <2>5, <3>1, <3>2 DEF ParserInv
  <2> HIDE DEF c, e
  <2> QED
      BY <2>1, <2>2, <2>5 DEF IdleInv
<1> QED
    BY <1>1, <1>2

\* A line q behind x is in the block of x when all lines up to it may be.
LEMMA BlockIsClean ==
    ASSUME NEW f, NEW x, NEW q PROVE InBlock(f, x, q) <=> q > x /\ Clean(f, x, q)
BY DEF InBlock, Clean

\* Lines that may be of a block up to one line may be up to every earlier one.
LEMMA CleanBefore ==
    ASSUME NEW f, NEW x \in Nat, NEW n \in Nat, NEW m \in Nat, m <= n, Clean(f, x, n) PROVE Clean(f, x, m)
<1>1. \A r \in x + 1 .. m : r \in x + 1 .. n
    OBVIOUS
<1> QED
    BY <1>1 DEF Clean

\* What is taken for a key changes with a line only if the line is of its block.
LEMMA TakenStays ==
    ASSUME NEW f, NEW n \in Nat, NEW x, NEW kind, ~Clean(f, x, n + 1) \/ f[n + 1].kind # kind
    PROVE  TakenUpTo(f, x, n + 1, kind) = TakenUpTo(f, x, n, kind)
<1>1. \A q \in 1 .. n + 1 : q \in 1 .. n \/ q = n + 1
    OBVIOUS
<1>2. 1 .. n \subseteq 1 .. n + 1
    OBVIOUS
<1>3. ~ (InBlock(f, x, n + 1) /\ f[n + 1].kind = kind)
    BY BlockIsClean
<1> QED
    BY <1>1, <1>2, <1>3 DEF TakenUpTo

\* It grows with the lines of its block.
LEMMA TakenGrows ==
    ASSUME NEW f, NEW n \in Nat, NEW x, NEW kind, n + 1 > x, Clean(f, x, n + 1), f[n + 1].kind = kind
    PROVE  TakenUpTo(f, x, n + 1, kind) = TakenUpTo(f, x, n, kind) \cup {n + 1}
<1>1. \A q \in 1 .. n + 1 : q \in 1 .. n \/ q = n + 1
    OBVIOUS
<1>2. 1 .. n \subseteq 1 .. n + 1 /\ n + 1 \in 1 .. n + 1
    OBVIOUS
<1>3. InBlock(f, x, n + 1)
    BY <1>2, BlockIsClean
<1> QED
    BY <1>1, <1>2, <1>3 DEF TakenUpTo

\* A line that is no line of the key and not of its block changes nothing for it.
LEMMA TextsStay ==
    ASSUME NEW f, NEW n \in Nat, NEW K, ~ (f[n + 1].kind = "key" /\ f[n + 1].key = K),
           \A x \in KeysUpTo(f, K, n) : f[x].form = "open" => ~Clean(f, x, n + 1) \/ f[n + 1].kind \notin {"item", "text"},
           \A x \in KeysUpTo(f, K, n) : f[x].form \in {"open", "scalar", "inline"}
    PROVE  TextsUpTo(f, K, n + 1) = TextsUpTo(f, K, n)
<1>1. KeysUpTo(f, K, n + 1) = KeysUpTo(f, K, n) /\ KeysUpTo(f, K, n) \subseteq 1 .. n
  <2>1. \A q \in 1 .. n + 1 : q \in 1 .. n \/ q = n + 1
      OBVIOUS
  <2>2. 1 .. n \subseteq 1 .. n + 1
      OBVIOUS
  <2> QED
      BY <2>1, <2>2 DEF KeysUpTo
<1>2. CASE KeysUpTo(f, K, n) = {}
    BY <1>1, <1>2 DEF TextsUpTo
<1>3. CASE KeysUpTo(f, K, n) # {}
  <2> DEFINE x == LastOf(KeysUpTo(f, K, n))
  <2>1. x \in KeysUpTo(f, K, n)
      BY <1>1, <1>3, LastIsLast
  <2>2. TextsUpTo(f, K, n + 1) = TextsOfKey(f, x, n + 1) /\ TextsUpTo(f, K, n) = TextsOfKey(f, x, n)
      BY <1>1, <1>3 DEF TextsUpTo
  <2> HIDE DEF x
  <2>3. f[x].form = "open" => /\ TakenUpTo(f, x, n + 1, "item") = TakenUpTo(f, x, n, "item")
                              /\ TakenUpTo(f, x, n + 1, "text") = TakenUpTo(f, x, n, "text")
      BY <2>1, TakenStays
  <2>4. f[x].form \in {"open", "scalar", "inline"}
      BY <2>1
  <2>5. TextsOfKey(f, x, n + 1) = TextsOfKey(f, x, n)
      BY <2>3, <2>4 DEF TextsOfKey
  <2> QED
      BY <2>2, <2>5
<1> QED
    BY <1>2, <1>3

\* The forms of key lines.
LEMMA FormsOf ==
    ASSUME NEW f, NEW n \in Nat, 1 .. n \subseteq DOMAIN f, IsFront(f), NEW K, NEW x \in KeysUpTo(f, K, n)
    PROVE  f[x].form \in {"open", "scalar", "inline"} /\ IsKey(K) /\ f[x].key = K /\ x \in 1 .. n
<1>1. x \in 1 .. n /\ f[x].kind = "key" /\ f[x].key = K
    BY DEF KeysUpTo
<1>2. IsLine(f[x])
    BY <1>1 DEF IsFront
<1> QED
    BY <1>1, <1>2 DEF IsLine, IsKey

\* Behind a line no block takes, no earlier block is open.
LEMMA OuterLineStep ==
    ASSUME NEW f, NEW n \in Nat, n + 1 \in DOMAIN f, 1 .. n \subseteq DOMAIN f, IsFront(f), NEW c, IdleInv(f, c, n),
           \A x \in 1 .. n : f[x].kind = "key" /\ f[x].form = "open" => ~Clean(f, x, n + 1)
    PROVE  ParserInv(f, OuterLine(c, f[n + 1]), n + 1)
<1> DEFINE line == f[n + 1]
           p == OuterLine(c, line)
<1>1. IsLine(line)
    BY DEF IsFront
<1>2. /\ c = [out |-> c.out, key |-> c.key, array |-> c.array, items |-> c.items, folded |-> c.folded]
      /\ IsSequence(c.out) /\ IsReader(c) /\ IsIdle(c)
      /\ \A K : IsKey(K) => FieldOf(c.out, K).texts = TextsUpTo(f, K, n)
    BY DEF IdleInv, IsReader
<1>10. ~IsKey(c.key) /\ c.array = FALSE /\ c.items = <<>> /\ c.folded = <<>>
    BY <1>2 DEF IsIdle
<1>3. \A x \in 1 .. n : ~OpenAt(f, x, n + 1)
    BY DEF OpenAt
<1>4. ASSUME NEW K, ~ (line.kind = "key" /\ line.key = K) PROVE TextsUpTo(f, K, n + 1) = TextsUpTo(f, K, n)
  <2>1. \A x \in KeysUpTo(f, K, n) : f[x].form = "open" => ~Clean(f, x, n + 1)
      BY DEF KeysUpTo
  <2>2. \A x \in KeysUpTo(f, K, n) : f[x].form \in {"open", "scalar", "inline"}
      BY FormsOf
  <2> QED
      BY <1>4, <2>1, <2>2, TextsStay
<1>5. \A x : OpenAt(f, x, n + 1) => x = n + 1 /\ line.kind = "key" /\ line.form = "open"
  <2> SUFFICES ASSUME NEW x, OpenAt(f, x, n + 1) PROVE x = n + 1 /\ line.kind = "key" /\ line.form = "open"
      OBVIOUS
  <2>1. x \in 1 .. n + 1 /\ f[x].kind = "key" /\ f[x].form = "open"
      BY DEF OpenAt
  <2>2. x \in 1 .. n \/ x = n + 1
      BY <2>1
  <2> QED
      BY <1>3, <2>1, <2>2
<1>6. ASSUME line.kind = "key" PROVE KeysUpTo(f, line.key, n + 1) # {} /\ LastOf(KeysUpTo(f, line.key, n + 1)) = n + 1
  <2> DEFINE S == KeysUpTo(f, line.key, n + 1)
  <2>1. n + 1 \in S /\ S \subseteq 1 .. n + 1 /\ n + 1 \in Nat
      BY <1>6 DEF KeysUpTo
  <2> HIDE DEF S
  <2>2. \A y \in S : y <= n + 1
      BY <2>1
  <2>3. LastOf(S) = n + 1
      BY <2>1, <2>2, LastIs
  <2> QED
      BY <2>1, <2>3 DEF S
<1>7. CASE line.kind # "key"
  <2>1. p = c
      BY <1>7 DEF OuterLine
  <2> HIDE DEF p
  <2>2. \A x : ~OpenAt(f, x, n + 1)
      BY <1>5, <1>7
  <2>3. \A K : IsKey(K) => FieldOf(p.out, K).texts = TextsUpTo(f, K, n + 1)
      BY <1>2, <1>4, <1>7, <2>1
  <2>4. ParserInv(f, p, n + 1)
      BY <1>2, <2>1, <2>2, <2>3 DEF ParserInv
  <2> QED
      BY <2>4 DEF p
<1>8. CASE line.kind = "key" /\ line.form = "open"
  <2>1. p = [c EXCEPT !.key = line.key]
      BY <1>8 DEF OuterLine
  <2>2. p = [out |-> c.out, key |-> line.key, array |-> c.array, items |-> c.items, folded |-> c.folded]
    <3>1. c = [out |-> c.out, key |-> c.key, array |-> c.array, items |-> c.items, folded |-> c.folded]
        BY <1>2
    <3> HIDE DEF p
    <3> QED
        BY <2>1, <3>1
  <2>3. IsKey(line.key)
      BY <1>1, <1>8 DEF IsLine, IsKey
  <2>4. OpenAt(f, n + 1, n + 1)
    <3>1. (n + 1) + 1 .. n + 1 = {}
        OBVIOUS
    <3> QED
        BY <1>8, <3>1 DEF OpenAt, Clean
  <2>5. \A kind : TakenUpTo(f, n + 1, n + 1, kind) = {}
    <3>1. \A q \in 1 .. n + 1 : ~ (q > n + 1)
        OBVIOUS
    <3> QED
        BY <3>1 DEF TakenUpTo, InBlock
  <2> HIDE DEF p
  <2>6. BlockOf(f, p, n + 1, n + 1)
    <3>1. TakenUpTo(f, n + 1, n + 1, "item") = {} /\ TakenUpTo(f, n + 1, n + 1, "text") = {}
        BY <2>5
    <3> QED
        BY <1>10, <2>2, <2>4, <3>1, NothingTaken DEF BlockOf
  <2>7. \A K : IsKey(K) /\ K # p.key => FieldOf(p.out, K).texts = TextsUpTo(f, K, n + 1)
      BY <1>2, <1>4, <2>2
  <2>8. IsReader(p)
      BY <1>2, <2>2 DEF IsReader
  <2>9. ParserInv(f, p, n + 1)
      BY <2>2, <2>3, <2>6, <2>7, <2>8 DEF ParserInv
  <2> QED
      BY <2>9 DEF p
<1>9. CASE line.kind = "key" /\ line.form # "open"
  <2> DEFINE e == [key |-> line.key, array |-> line.form = "inline",
                   texts |-> IF line.form = "inline" THEN SplitInline(line.words)
                             ELSE <<StripScalar(line.words[1])>>]
  <2>1. p = [c EXCEPT !.out = Append(@, e)]
      BY <1>9 DEF OuterLine
  <2>2. p = [out |-> Append(c.out, e), key |-> c.key, array |-> c.array, items |-> c.items, folded |-> c.folded]
    <3>1. c = [out |-> c.out, key |-> c.key, array |-> c.array, items |-> c.items, folded |-> c.folded]
        BY <1>2
    <3> HIDE DEF p, e
    <3> QED
        BY <2>1, <3>1
  <2> HIDE DEF p
  <2>3. IsReader(p) /\ IsIdle(p)
    <3> HIDE DEF e
    <3>1. IsSequence(Append(c.out, e))
        BY <1>2, AppendsOne DEF Appended
    <3> QED
        BY <1>10, <2>2, <3>1 DEF IsReader, IsIdle
  <2>4. \A x : ~OpenAt(f, x, n + 1)
      BY <1>5, <1>9
  <2>5. e.texts = TextsUpTo(f, line.key, n + 1)
    <3>1. TextsUpTo(f, line.key, n + 1) = TextsOfKey(f, n + 1, n + 1)
        BY <1>6, <1>9 DEF TextsUpTo
    <3>2. line.form = "scalar" \/ line.form = "inline"
        BY <1>1, <1>9 DEF IsLine
    <3> QED
        BY <3>1, <3>2 DEF TextsOfKey, SplitInline, StripScalar
  <2>6. ASSUME NEW K, IsKey(K) PROVE FieldOf(p.out, K).texts = TextsUpTo(f, K, n + 1)
    <3>1. FieldOf(p.out, K) = IF e.key = K THEN e ELSE FieldOf(c.out, K)
      <4>1. p.out = Append(c.out, e)
          BY <2>2
      <4>2. IsSequence(c.out)
          BY <1>2
      <4> HIDE DEF e
      <4>3. FieldOf(Append(c.out, e), K) = IF e.key = K THEN e ELSE FieldOf(c.out, K)
          BY <4>2, LastFieldCounts
      <4> QED
          BY <4>1, <4>3
    <3>2. e.key = line.key
        OBVIOUS
    <3> HIDE DEF e
    <3> QED
        BY <1>2, <1>4, <2>5, <2>6, <3>1, <3>2
  <2>7. ParserInv(f, p, n + 1)
      BY <2>3, <2>4, <2>6 DEF ParserInv
  <2> QED
      BY <2>7 DEF p
<1> QED
    BY <1>7, <1>8, <1>9

\* A line the open block takes.
LEMMA InnerLineStep ==
    ASSUME NEW f, NEW n \in Nat, n + 1 \in DOMAIN f, 1 .. n \subseteq DOMAIN f, IsFront(f), NEW p, ParserInv(f, p, n),
           IsKey(p.key), f[n + 1].kind \in {"item", "text", "blank"}, f[n + 1].kind = "text" => p.array = FALSE
    PROVE  ParserInv(f, YamlLine(p, f[n + 1]), n + 1)
<1> DEFINE line == f[n + 1]
           p2 == YamlLine(p, line)
           e == line.words[1].text
<1>1. PICK x : BlockOf(f, p, x, n)
    BY DEF ParserInv, IsIdle
<1>2. /\ x \in 1 .. n /\ f[x].kind = "key" /\ f[x].form = "open" /\ Clean(f, x, n) /\ f[x].key = p.key
      /\ p.array = (TakenUpTo(f, x, n, "item") # {})
      /\ p.items = LineTexts(ElementsAt(f, TakenUpTo(f, x, n, "item")))
      /\ p.folded = LineTexts(ElementsAt(f, TakenUpTo(f, x, n, "text")))
    BY <1>1 DEF BlockOf, OpenAt
<1>0. x \in Nat /\ 1 <= x /\ x <= n /\ n + 1 \in x + 1 .. n + 1
  <2>1. x \in 1 .. n
      BY <1>2
  <2> QED
      BY <2>1
<1>3. Clean(f, x, n + 1)
  <2>1. \A r \in x + 1 .. n + 1 : r \in x + 1 .. n \/ r = n + 1
      BY <1>0
  <2>2. \A r \in x + 1 .. n + 1 : f[r].kind \in {"item", "text", "blank"}
      BY <1>2, <2>1 DEF Clean
  <2>3. ASSUME NEW r \in x + 1 .. n + 1, NEW t \in x + 1 .. n + 1, r < t, f[r].kind = "item", f[t].kind = "text" PROVE FALSE
    <3>1. CASE t \in x + 1 .. n
      <4>1. r \in x + 1 .. n
          BY <1>0, <2>3, <3>1
      <4> QED
          BY <1>2, <2>3, <3>1, <4>1 DEF Clean
    <3>2. CASE t = n + 1
      <4>1. r \in x + 1 .. n /\ r \in 1 .. n /\ r > x /\ r \in Nat /\ x \in Nat /\ r <= n
          BY <1>0, <2>3, <3>2
      <4>2. Clean(f, x, r)
          BY <1>2, <4>1, CleanBefore
      <4>3. r \in TakenUpTo(f, x, n, "item")
          BY <2>3, <4>1, <4>2, BlockIsClean DEF TakenUpTo
      <4> QED
          BY <1>2, <2>3, <3>2, <4>3
    <3> QED
        BY <2>1, <3>1, <3>2
  <2> QED
      BY <2>2, <2>3 DEF Clean
<1>4. OpenAt(f, x, n + 1)
  <2>1. x \in 1 .. n + 1
      BY <1>0
  <2> QED
      BY <1>2, <1>3, <2>1 DEF OpenAt
<1>5. ASSUME NEW K, IsKey(K), K # p.key PROVE FieldOf(p.out, K).texts = TextsUpTo(f, K, n + 1)
  <2>1. ASSUME NEW y \in KeysUpTo(f, K, n) PROVE ~Clean(f, y, n + 1)
    <3>1. y \in 1 .. n /\ f[y].kind = "key" /\ f[y].key = K
        BY DEF KeysUpTo
    <3>2. y # x
        BY <1>2, <1>5, <3>1
    <3>3. y < x
        BY <1>1, <3>1, <3>2, OnlyOneOpen DEF BlockOf
    <3>4. x \in y + 1 .. n + 1
        BY <1>0, <3>1, <3>3
    <3> QED
        BY <1>2, <3>4 DEF Clean
  <2>2. \A y \in KeysUpTo(f, K, n) : f[y].form \in {"open", "scalar", "inline"}
      BY FormsOf
  <2>3. TextsUpTo(f, K, n + 1) = TextsUpTo(f, K, n)
      BY <2>1, <2>2, TextsStay
  <2> QED
      BY <1>5, <2>3 DEF ParserInv
<1>6. ASSUME NEW kind, line.kind = kind
      PROVE  LineTexts(ElementsAt(f, TakenUpTo(f, x, n + 1, kind))) = Append(LineTexts(ElementsAt(f, TakenUpTo(f, x, n, kind))), e)
  <2> DEFINE P == TakenUpTo(f, x, n, kind)
  <2>1. P \subseteq 1 .. n
      BY DEF TakenUpTo
  <2>2. TakenUpTo(f, x, n + 1, kind) = P \cup {n + 1}
    <3>1. n + 1 > x
        BY <1>0
    <3> HIDE DEF P
    <3>2. TakenUpTo(f, x, n + 1, kind) = TakenUpTo(f, x, n, kind) \cup {n + 1}
      <4>1. Clean(f, x, n + 1)
          BY <1>3
      <4>2. f[n + 1].kind = kind
          BY <1>6
      <4> HIDE DEF line
      <4> QED
          BY <3>1, <4>1, <4>2, TakenGrows
    <3> QED
        BY <3>2 DEF P
  <2> HIDE DEF P
  <2>3. ElementsAt(f, P \cup {n + 1}) = Append(ElementsAt(f, P), line)
      BY <2>1, OnePlaceMore
  <2>4. IsSequence(ElementsAt(f, P))
      BY <2>1, ElementsAreSequence
  <2>5. LineTexts(Append(ElementsAt(f, P), line)) = Append(LineTexts(ElementsAt(f, P)), e)
      BY <2>4, OneTextMore
  <2> QED
      BY <2>2, <2>3, <2>5 DEF P
<1>7. ASSUME NEW kind, line.kind # kind PROVE TakenUpTo(f, x, n + 1, kind) = TakenUpTo(f, x, n, kind)
    BY <1>7, TakenStays
<1>8. p = [out |-> p.out, key |-> p.key, array |-> p.array, items |-> p.items, folded |-> p.folded] /\ IsSequence(p.out)
    BY DEF ParserInv, IsReader
<1>9. CASE line.kind = "item"
  <2>1. p2 = [p EXCEPT !.array = TRUE, !.items = Append(@, e)]
      BY <1>9 DEF YamlLine, IsKey, StripScalar
  <2>2. p2 = [out |-> p.out, key |-> p.key, array |-> TRUE, items |-> Append(p.items, e), folded |-> p.folded]
    <3> HIDE DEF p2, e
    <3> QED
        BY <1>8, <2>1
  <2>3. n + 1 \in TakenUpTo(f, x, n + 1, "item")
    <3>1. n + 1 > x
        BY <1>0
    <3>2. TakenUpTo(f, x, n + 1, "item") = TakenUpTo(f, x, n, "item") \cup {n + 1}
      <4>1. Clean(f, x, n + 1)
          BY <1>3
      <4>2. f[n + 1].kind = "item"
          BY <1>9
      <4> HIDE DEF line
      <4> QED
          BY <3>1, <4>1, <4>2, TakenGrows
    <3> QED
        BY <3>2
  <2>4. Append(p.items, e) = LineTexts(ElementsAt(f, TakenUpTo(f, x, n + 1, "item")))
      BY <1>2, <1>6, <1>9
  <2>5. p.folded = LineTexts(ElementsAt(f, TakenUpTo(f, x, n + 1, "text")))
      BY <1>2, <1>7, <1>9
  <2> HIDE DEF p2, e
  <2>6. BlockOf(f, p2, x, n + 1)
      BY <1>2, <1>4, <2>2, <2>3, <2>4, <2>5 DEF BlockOf
  <2>7. IsReader(p2) /\ p2.key = p.key /\ p2.out = p.out
      BY <1>8, <2>2 DEF IsReader
  <2>8. ParserInv(f, p2, n + 1)
      BY <1>5, <2>6, <2>7 DEF ParserInv
  <2> QED
      BY <2>8 DEF p2
<1>10. CASE line.kind = "text"
  <2>1. p2 = [p EXCEPT !.folded = Append(@, e)]
    <3>1. ~ p.array
        BY <1>10
    <3> QED
        BY <1>10, <3>1, Zenon DEF YamlLine, IsKey
  <2>2. p2 = [out |-> p.out, key |-> p.key, array |-> p.array, items |-> p.items, folded |-> Append(p.folded, e)]
    <3> HIDE DEF p2, e
    <3> QED
        BY <1>8, <2>1
  <2>3. TakenUpTo(f, x, n + 1, "item") = TakenUpTo(f, x, n, "item")
      BY <1>7, <1>10
  <2>4. Append(p.folded, e) = LineTexts(ElementsAt(f, TakenUpTo(f, x, n + 1, "text")))
      BY <1>2, <1>6, <1>10
  <2> HIDE DEF p2, e
  <2>5. BlockOf(f, p2, x, n + 1)
      BY <1>2, <1>4, <2>2, <2>3, <2>4 DEF BlockOf
  <2>6. IsReader(p2) /\ p2.key = p.key /\ p2.out = p.out
      BY <1>8, <2>2 DEF IsReader
  <2>7. ParserInv(f, p2, n + 1)
      BY <1>5, <2>5, <2>6 DEF ParserInv
  <2> QED
      BY <2>7 DEF p2
<1>11. CASE line.kind = "blank"
  <2>1. p2 = p
      BY <1>11 DEF YamlLine, IsKey
  <2>2. /\ TakenUpTo(f, x, n + 1, "item") = TakenUpTo(f, x, n, "item")
        /\ TakenUpTo(f, x, n + 1, "text") = TakenUpTo(f, x, n, "text")
      BY <1>7, <1>11
  <2> HIDE DEF p2
  <2>3. BlockOf(f, p, x, n + 1)
      BY <1>2, <1>4, <2>2 DEF BlockOf
  <2>4. IsReader(p)
      BY DEF ParserInv
  <2>5. ParserInv(f, p2, n + 1)
      BY <1>5, <2>1, <2>3, <2>4 DEF ParserInv
  <2> QED
      BY <2>5 DEF p2
<1> QED
    BY <1>9, <1>10, <1>11

\* One line of the reader.
LEMMA YamlLineStep ==
    ASSUME NEW f, NEW n \in Nat, n + 1 \in DOMAIN f, 1 .. n \subseteq DOMAIN f, IsFront(f), NEW p, ParserInv(f, p, n)
    PROVE  ParserInv(f, YamlLine(p, f[n + 1]), n + 1)
<1> DEFINE line == f[n + 1]
<1>1. IsLine(line) /\ line.kind # "fence"
    BY DEF IsFront
<1>2. CASE IsKey(p.key) /\ line.kind \in {"item", "text", "blank"} /\ ~ (line.kind = "text" /\ p.array)
  <2>1. p.array \in BOOLEAN
      BY DEF ParserInv, BlockOf, IsIdle
  <2>2. line.kind = "text" => p.array = FALSE
      BY <1>2, <2>1
  <2> QED
      BY <1>2, <2>2, InnerLineStep
<1>3. CASE ~IsKey(p.key) \/ line.kind \in {"key", "comment"} \/ (line.kind = "text" /\ p.array)
  <2>1. YamlLine(p, line) = OuterLine(Closed(p), line)
      BY <1>3 DEF YamlLine, IsKey
  <2>2. IdleInv(f, Closed(p), n)
      BY CloseIdle
  <2>3. ASSUME NEW x \in 1 .. n, f[x].kind = "key", f[x].form = "open", Clean(f, x, n + 1) PROVE FALSE
    <3>1. Clean(f, x, n)
        BY <2>3, CleanBefore
    <3>2. OpenAt(f, x, n)
        BY <2>3, <3>1 DEF OpenAt
    <3>3. PICK y : IsKey(p.key) /\ BlockOf(f, p, y, n)
        BY <3>2 DEF ParserInv
    <3>4. y = x
      <4> SUFFICES ASSUME y # x PROVE FALSE
          OBVIOUS
      <4>1. OpenAt(f, y, n) /\ y \in 1 .. n /\ f[y].kind = "key"
          BY <3>3 DEF BlockOf, OpenAt
      <4>2. y < x
          BY <2>3, <3>2, <4>1, OnlyOneOpen
      <4>3. x < y
          BY <2>3, <3>2, <4>1, OnlyOneOpen
      <4>4. x \in Nat /\ y \in Nat
          BY <4>1
      <4> QED
          BY <4>2, <4>3, <4>4
    <3>5. n + 1 \in x + 1 .. n + 1
        BY <2>3
    <3>6. line.kind \in {"item", "text", "blank"}
        BY <2>3, <3>5 DEF Clean
    <3>7. line.kind = "text" /\ p.array
        BY <1>3, <3>3, <3>6
    <3>8. PICK q \in TakenUpTo(f, x, n, "item") : TRUE
        BY <3>3, <3>4, <3>7 DEF BlockOf
    <3>9. q \in 1 .. n /\ q > x /\ f[q].kind = "item"
        BY DEF TakenUpTo, InBlock
    <3>10. q \in x + 1 .. n + 1 /\ q < n + 1
        BY <2>3, <3>9
    <3> QED
        BY <2>3, <3>5, <3>7, <3>9, <3>10 DEF Clean
  <2>4. ParserInv(f, OuterLine(Closed(p), f[n + 1]), n + 1)
    <3> DEFINE c == Closed(p)
    <3> HIDE DEF c
    <3>1. IdleInv(f, c, n)
        BY <2>2 DEF c
    <3>2. ParserInv(f, OuterLine(c, f[n + 1]), n + 1)
        BY <2>3, <3>1, OuterLineStep
    <3> QED
        BY <3>2 DEF c
  <2> QED
      BY <2>1, <2>4
<1>4. line.kind \in {"blank", "comment", "key", "item", "text"}
    BY <1>1 DEF IsLine
<1> QED
    BY <1>2, <1>3, <1>4

\* It starts with nothing.
LEMMA NoBlockYet ==
    ASSUME NEW f PROVE ParserInv(f, NoBlock, 0)
<1>1. 1 .. 0 = {}
    OBVIOUS
<1>2. IsSequence(<<>>)
    BY EmptySeq DEF IsSequence
<1>3. IsReader(NoBlock) /\ IsIdle(NoBlock)
    BY <1>2 DEF NoBlock, IsReader, IsIdle, IsKey
<1>4. \A x : ~OpenAt(f, x, 0)
    BY <1>1 DEF OpenAt
<1>5. \A K : FieldOf(NoBlock.out, K).texts = <<>> /\ TextsUpTo(f, K, 0) = <<>>
  <2>1. DOMAIN NoBlock.out = {}
      BY DEF NoBlock
  <2>2. \A K : KeysUpTo(f, K, 0) = {}
      BY <1>1 DEF KeysUpTo
  <2> QED
      BY <2>1, <2>2 DEF FieldOf, TextsUpTo
<1> QED
    BY <1>3, <1>4, <1>5 DEF ParserInv

\* The states the reader comes through up to line n.
RunOf(f, n, g) ==
    /\ g = [i \in 0 .. n |-> g[i]]
    /\ \A i \in 0 .. n : g[i] = IF i = 0 THEN NoBlock ELSE YamlLine(g[i - 1], f[i])

\* There are such states for every number of lines.
LEMMA RunsExist ==
    ASSUME NEW f, NEW N \in Nat PROVE \E g : RunOf(f, N, g)
<1> DEFINE U == {n \in Nat : ~ \E g : RunOf(f, n, g)}
<1>1. U = {}
  <2> SUFFICES ASSUME U # {} PROVE FALSE
      OBVIOUS
  <2>1. PICK n \in U : \A y \in U : n <= y
    <3>1. U \subseteq Nat
        OBVIOUS
    <3> HIDE DEF U
    <3> QED
        BY <3>1, LeastNumber
  <2>2. n \in Nat /\ ~ \E g : RunOf(f, n, g)
      BY <2>1
  <2>3. CASE n = 0
    <3> DEFINE g == [i \in 0 .. 0 |-> NoBlock]
    <3>1. RunOf(f, 0, g)
        BY DEF RunOf
    <3> QED
        BY <2>2, <2>3, <3>1
  <2>4. CASE n # 0
    <3>1. n - 1 \in Nat /\ n - 1 \notin U
      <4>1. n - 1 \in Nat /\ ~ (n <= n - 1)
          BY <2>2, <2>4
      <4> HIDE DEF U
      <4> QED
          BY <2>1, <4>1
    <3>2. PICK h : RunOf(f, n - 1, h)
        BY <3>1
    <3> DEFINE g == [i \in 0 .. n |-> IF i = n THEN YamlLine(h[n - 1], f[n]) ELSE h[i]]
    <3>3. \A i \in 0 .. n - 1 : h[i] = IF i = 0 THEN NoBlock ELSE YamlLine(h[i - 1], f[i])
        BY <3>2 DEF RunOf
    <3>4. ASSUME NEW i \in 0 .. n PROVE g[i] = IF i = 0 THEN NoBlock ELSE YamlLine(g[i - 1], f[i])
      <4>1. g[i] = (IF i = n THEN YamlLine(h[n - 1], f[n]) ELSE h[i])
          OBVIOUS
      <4>2. i # 0 => g[i - 1] = h[i - 1]
        <5>1. i # 0 => i - 1 \in 0 .. n /\ i - 1 # n
            BY <2>2
        <5> QED
            BY <5>1
      <4>3. i # n => i \in 0 .. n - 1
          BY <2>2
      <4> HIDE DEF g
      <4> QED
          BY <2>4, <3>3, <4>1, <4>2, <4>3
    <3>5. g = [i \in 0 .. n |-> g[i]]
        OBVIOUS
    <3> HIDE DEF g
    <3>6. RunOf(f, n, g)
        BY <3>4, <3>5 DEF RunOf
    <3> QED
        BY <2>2, <3>6
  <2> QED
      BY <2>3, <2>4
<1> QED
    BY <1>1

\* All of them are what the reader should have.
LEMMA RunIsRight ==
    ASSUME NEW f, IsFront(f), NEW g, RunOf(f, Len(f), g), NEW n \in 0 .. Len(f) PROVE ParserInv(f, g[n], n)
<1> DEFINE N == Len(f)
           U == {i \in Nat : i \in 0 .. N /\ ~ParserInv(f, g[i], i)}
<1>1. N \in Nat /\ DOMAIN f = 1 .. N
    BY LenProperties DEF IsFront, IsSequence
<1>2. \A i \in 0 .. N : g[i] = IF i = 0 THEN NoBlock ELSE YamlLine(g[i - 1], f[i])
    BY DEF RunOf
<1>3. U = {}
  <2> SUFFICES ASSUME U # {} PROVE FALSE
      OBVIOUS
  <2>1. PICK i \in U : \A y \in U : i <= y
    <3>1. U \subseteq Nat
        OBVIOUS
    <3> HIDE DEF U
    <3> QED
        BY <3>1, LeastNumber
  <2>2. i \in Nat /\ i \in 0 .. N /\ ~ParserInv(f, g[i], i)
      BY <2>1
  <2>3. CASE i = 0
      BY <1>2, <2>2, <2>3, NoBlockYet
  <2>4. CASE i # 0
    <3> DEFINE m == i - 1
    <3>1. m \in Nat /\ m \in 0 .. N /\ i = m + 1 /\ ~ (i <= m)
        BY <2>2, <2>4
    <3>2. m \notin U
      <4> HIDE DEF U, m
      <4> QED
          BY <2>1, <3>1
    <3>3. ParserInv(f, g[m], m)
        BY <3>1, <3>2
    <3>4. m + 1 \in DOMAIN f /\ 1 .. m \subseteq DOMAIN f
        BY <1>1, <2>2, <3>1
    <3>5. g[i] = YamlLine(g[m], f[i])
        BY <1>2, <2>2, <2>4
    <3> HIDE DEF m
    <3>6. ParserInv(f, YamlLine(g[m], f[m + 1]), m + 1)
        BY <3>1, <3>3, <3>4, YamlLineStep
    <3> QED
        BY <2>2, <3>1, <3>5, <3>6
  <2> QED
      BY <2>3, <2>4
<1>4. n \in Nat /\ n \in 0 .. N
    BY <1>1
<1> QED
    BY <1>3, <1>4

\* What is written in the whole file for a key.
LEMMA WrittenIsUpTo ==
    ASSUME NEW f, IsFront(f), NEW K PROVE WrittenTexts(f, K) = TextsUpTo(f, K, Len(f))
<1> DEFINE N == Len(f)
           keys == {p \in DOMAIN f : f[p].kind = "key" /\ f[p].key = K}
           x == CHOOSE y \in keys : \A z \in keys : z <= y
           taken(kind) == {q \in DOMAIN f : InBlock(f, x, q) /\ f[q].kind = kind}
<1>1. N \in Nat /\ DOMAIN f = 1 .. N
    BY LenProperties DEF IsFront, IsSequence
<1>2. keys = KeysUpTo(f, K, N) /\ x = LastOf(KeysUpTo(f, K, N))
    BY <1>1 DEF KeysUpTo, LastOf
<1>3. \A kind : taken(kind) = TakenUpTo(f, x, N, kind)
    BY <1>1 DEF TakenUpTo
<1>4. WrittenTexts(f, K) =
        CASE keys = {} -> <<>>
          [] keys # {} /\ f[x].form = "scalar" -> <<f[x].words[1].text>>
          [] keys # {} /\ f[x].form = "inline" -> NonEmpty([i \in DOMAIN f[x].words |-> f[x].words[i].text])
          [] keys # {} /\ f[x].form = "open" /\ taken("item") # {} -> LineTexts(ElementsAt(f, taken("item")))
          [] OTHER -> <<FlattenSeq(LineTexts(ElementsAt(f, taken("text"))))>>
    BY DEF WrittenTexts
<1>5. keys # {} => f[x].form \in {"open", "scalar", "inline"}
  <2>1. keys # {} => x \in KeysUpTo(f, K, N)
    <3>1. KeysUpTo(f, K, N) \subseteq 1 .. N
        BY DEF KeysUpTo
    <3> HIDE DEF keys, x, N
    <3> QED
        BY <1>1, <1>2, <3>1, LastIsLast
  <2> HIDE DEF keys, x, N
  <2> QED
      BY <1>1, <2>1, FormsOf
<1> HIDE DEF keys, x, taken, N
<1>6. CASE keys = {}
    BY <1>2, <1>4, <1>6 DEF TextsUpTo, N
<1>7. CASE keys # {}
  <2>1. TextsUpTo(f, K, N) = TextsOfKey(f, x, N)
      BY <1>2, <1>7 DEF TextsUpTo
  <2>2. taken("item") = TakenUpTo(f, x, N, "item") /\ taken("text") = TakenUpTo(f, x, N, "text")
      BY <1>3
  <2>3. CASE f[x].form = "scalar"
      BY <1>4, <1>7, <2>1, <2>3 DEF TextsOfKey, N
  <2>4. CASE f[x].form = "inline"
      BY <1>4, <1>7, <2>1, <2>4 DEF TextsOfKey, N
  <2>5. CASE f[x].form = "open"
      BY <1>4, <1>7, <2>1, <2>2, <2>5 DEF TextsOfKey, N
  <2> QED
      BY <1>5, <1>7, <2>3, <2>4, <2>5
<1> QED
    BY <1>6, <1>7

\* The reader finds what the file says.
LEMMA ReaderIsRight ==
    ASSUME NEW f, IsFront(f), NEW K, IsKey(K)
    PROVE  FieldOf(ParseTinyYaml(f), K).texts = WrittenTexts(f, K)
<1> DEFINE N == Len(f)
           body(h) == [n \in 0 .. N |-> IF n = 0 THEN NoBlock ELSE YamlLine(h[n - 1], f[n])]
           a == CHOOSE h : h = body(h)
<1>1. N \in Nat
    BY LenProperties DEF IsFront, IsSequence
<1>2. PICK g : RunOf(f, N, g)
    BY <1>1, RunsExist
<1>3. g = body(g)
  <2>1. g = [n \in 0 .. N |-> g[n]] /\ \A n \in 0 .. N : g[n] = IF n = 0 THEN NoBlock ELSE YamlLine(g[n - 1], f[n])
      BY <1>2 DEF RunOf
  <2> HIDE DEF N
  <2> QED
      BY <2>1
<1>4. a = body(a)
    BY <1>3
<1>5. ParseTinyYaml(f) = Closed(a[N]).out
    BY DEF ParseTinyYaml
<1> HIDE DEF a
<1>6. RunOf(f, N, a)
  <2> HIDE DEF N
  <2>1. a = [n \in 0 .. N |-> IF n = 0 THEN NoBlock ELSE YamlLine(a[n - 1], f[n])]
      BY <1>4
  <2>2. \A n \in 0 .. N : a[n] = IF n = 0 THEN NoBlock ELSE YamlLine(a[n - 1], f[n])
      BY <2>1
  <2>3. a = [n \in 0 .. N |-> a[n]]
      BY <2>1
  <2> QED
      BY <2>2, <2>3 DEF RunOf
<1>7. ParserInv(f, a[N], N)
  <2>1. N \in 0 .. N
    <3> HIDE DEF N
    <3> QED
        BY <1>1
  <2> QED
      BY <1>6, <2>1, RunIsRight
<1>8. IdleInv(f, Closed(a[N]), N)
  <2> DEFINE p == a[N]
  <2> HIDE DEF p, N
  <2>1. ParserInv(f, p, N)
      BY <1>7 DEF p
  <2>2. IdleInv(f, Closed(p), N)
      BY <1>1, <2>1, CloseIdle
  <2> QED
      BY <2>2 DEF p
<1>9. FieldOf(ParseTinyYaml(f), K).texts = TextsUpTo(f, K, N)
    BY <1>5, <1>8 DEF IdleInv
<1> QED
    BY <1>9, WrittenIsUpTo

-----------------------------------------------------------------------------
(* PromptHook: what a skill file says and what it is worth. *)

\* The lines between the fences are a frontmatter.
LEMMA SliceIsFront ==
    ASSUME NEW lines, IsFile(lines), NEW f \in SliceFrontmatter(lines) PROVE IsFront(f)
<1> DEFINE N == Len(lines)
           ends == {i \in 2 .. N : lines[i].kind = "fence"}
           l == CHOOSE i \in ends : \A j \in ends : i <= j
           S == {lines[i] : i \in DOMAIN lines}
<1>1. lines \in Seq(S) /\ \A i \in DOMAIN lines : IsLine(lines[i])
    BY DEF IsFile
<1>2. N \in Nat /\ DOMAIN lines = 1 .. N
  <2> HIDE DEF S
  <2> QED
      BY <1>1, LenProperties
<1>3. ends # {} /\ f = SubSeq(lines, 2, l - 1)
    BY DEF SliceFrontmatter
<1>4. l \in ends /\ \A j \in ends : l <= j
  <2>1. ends \subseteq Nat
      BY <1>2
  <2> HIDE DEF ends
  <2>2. \E i \in ends : \A j \in ends : i <= j
      BY <1>3, <2>1, LeastNumber
  <2> QED
      BY <2>2
<1>5. l \in Nat /\ 2 <= l /\ l <= N
  <2> HIDE DEF l
  <2> QED
      BY <1>2, <1>4
<1>6. \A i \in 2 .. l - 1 : i \in 1 .. N /\ i \notin ends /\ i \in 2 .. N
  <2> HIDE DEF l
  <2>1. \A i \in 2 .. l - 1 : i \in 1 .. N /\ i \in 2 .. N /\ ~ (l <= i)
      BY <1>2, <1>5
  <2> HIDE DEF ends
  <2> QED
      BY <1>4, <2>1
<1> DEFINE m == l - 1
<1>7. m \in Nat /\ 1 <= m /\ \A i \in 2 .. m : lines[i] \in S /\ i \in 1 .. N /\ lines[i].kind # "fence"
  <2>1. m \in Nat /\ 1 <= m
    <3> HIDE DEF l
    <3> QED
        BY <1>5
  <2> HIDE DEF l
  <2> QED
      BY <1>2, <1>6, <2>1
<1>8. f = SubSeq(lines, 2, m)
    BY <1>3
<1> HIDE DEF l, m, ends, N
<1>9. f \in Seq(S) /\ Len(f) = m - 1 /\ \A i \in 1 .. m - 1 : f[i] = lines[i + 1]
  <2> HIDE DEF S
  <2>1. f \in Seq(S) /\ Len(f) = (IF 2 <= m THEN m - 2 + 1 ELSE 0) /\ \A i \in 1 .. m - 2 + 1 : f[i] = lines[2 + i - 1]
      BY <1>7, <1>8, SubSeqProperties
  <2>2. Len(f) = m - 1
      BY <1>7, <2>1
  <2>3. \A i \in 1 .. m - 1 : i \in 1 .. m - 2 + 1 /\ 2 + i - 1 = i + 1
      BY <1>7
  <2> QED
      BY <2>1, <2>2, <2>3
<1>10. DOMAIN f = 1 .. m - 1 /\ f \in [1 .. m - 1 -> {f[i] : i \in DOMAIN f}]
  <2> HIDE DEF S
  <2>1. DOMAIN f = 1 .. m - 1
      BY <1>9, LenProperties
  <2>2. f = [i \in 1 .. m - 1 |-> f[i]]
      BY <1>9, <2>1
  <2> QED
      BY <2>1, <2>2
<1>11. IsSequence(f)
  <2> HIDE DEF S
  <2>1. m - 1 \in Nat
      BY <1>7
  <2>2. f \in Seq({f[i] : i \in DOMAIN f})
      BY <1>10, <2>1, SeqDef
  <2> QED
      BY <2>2 DEF IsSequence
<1>12. ASSUME NEW i \in DOMAIN f PROVE IsLine(f[i]) /\ f[i].kind # "fence"
  <2>0. i \in 1 .. m - 1
      BY <1>10
  <2>1. i + 1 \in 2 .. m /\ f[i] = lines[i + 1]
    <3>1. m \in Nat
        BY <1>7
    <3>2. i + 1 \in 2 .. m
        BY <2>0, <3>1
    <3> QED
        BY <1>9, <2>0, <3>2
  <2> QED
      BY <1>1, <1>2, <1>7, <2>1
<1> QED
    BY <1>11, <1>12 DEF IsFront

\* A function on the first numbers.
IsList(s) == \E m \in Nat : DOMAIN s = 1 .. m

\* The elements at some places of a list are a list.
LEMMA ElementsAreList ==
    ASSUME NEW s, NEW n \in Nat, NEW P, P \subseteq 1 .. n PROVE IsList(ElementsAt(s, P))
<1> DEFINE E == ElementsAt(s, P)
<1>0. IsSequence(E)
    BY ElementsAreSequence
<1> HIDE DEF E
<1>1. E \in Seq({E[i] : i \in DOMAIN E})
    BY <1>0 DEF IsSequence
<1>2. Len(E) \in Nat /\ DOMAIN E = 1 .. Len(E)
    BY <1>1, LenProperties
<1> QED
    BY <1>2 DEF IsList, E

\* What is written for a key is a list of texts.
LEMMA WrittenIsList ==
    ASSUME NEW f, IsFront(f), NEW K PROVE IsList(WrittenTexts(f, K))
<1> DEFINE N == Len(f)
           S == KeysUpTo(f, K, N)
           x == LastOf(S)
<1>1. N \in Nat /\ DOMAIN f = 1 .. N
    BY LenProperties DEF IsFront, IsSequence
<1>2. WrittenTexts(f, K) = TextsUpTo(f, K, N)
    BY WrittenIsUpTo
<1> HIDE DEF N
<1>3. CASE S = {}
  <2>1. WrittenTexts(f, K) = <<>>
      BY <1>2, <1>3 DEF TextsUpTo
  <2>2. DOMAIN <<>> = 1 .. 0 /\ 0 \in Nat
      OBVIOUS
  <2> QED
      BY <2>1, <2>2 DEF IsList
<1>4. CASE S # {}
  <2>1. WrittenTexts(f, K) = TextsOfKey(f, x, N)
      BY <1>2, <1>4 DEF TextsUpTo
  <2>2. x \in S /\ S \subseteq 1 .. N
    <3>1. S \subseteq 1 .. N
        BY DEF KeysUpTo
    <3> HIDE DEF S
    <3> QED
        BY <1>1, <1>4, <3>1, LastIsLast
  <2>3. IsLine(f[x]) /\ f[x].kind = "key"
    <3>1. x \in DOMAIN f
        BY <1>1, <2>2
    <3>2. f[x].kind = "key"
        BY <2>2 DEF KeysUpTo
    <3> HIDE DEF x
    <3> QED
        BY <3>1, <3>2 DEF IsFront
  <2> HIDE DEF x, S
  <2>4. \A a : IsList(<<a>>)
    <3>1. \A a : DOMAIN <<a>> = 1 .. 1
        OBVIOUS
    <3>2. 1 \in Nat
        OBVIOUS
    <3> QED
        BY <3>1, <3>2 DEF IsList
  <2>5. IsList(NonEmpty([i \in DOMAIN f[x].words |-> f[x].words[i].text]))
    <3> DEFINE w == f[x].words
               t == [i \in DOMAIN w |-> w[i].text]
               n == Len(w)
    <3>1. w \in Seq({w[i] : i \in DOMAIN w})
        BY <2>3 DEF IsLine
    <3> HIDE DEF w
    <3>2. n \in Nat /\ DOMAIN w = 1 .. n
        BY <3>1, LenProperties
    <3>3. DOMAIN t = 1 .. n
        BY <3>2
    <3> HIDE DEF t, n
    <3>4. {i \in DOMAIN t : t[i] # <<>>} \subseteq 1 .. n
        BY <3>3
    <3>5. IsList(NonEmpty(t))
        BY <3>2, <3>4, ElementsAreList DEF NonEmpty
    <3> QED
        BY <3>5 DEF t, w
  <2>6. \A kind : IsList(LineTexts(ElementsAt(f, TakenUpTo(f, x, N, kind))))
    <3> SUFFICES ASSUME NEW kind PROVE IsList(LineTexts(ElementsAt(f, TakenUpTo(f, x, N, kind))))
        OBVIOUS
    <3> DEFINE E == ElementsAt(f, TakenUpTo(f, x, N, kind))
    <3>1. TakenUpTo(f, x, N, kind) \subseteq 1 .. N
        BY DEF TakenUpTo
    <3>2. IsList(E)
        BY <1>1, <3>1, ElementsAreList
    <3> HIDE DEF E
    <3>3. DOMAIN LineTexts(E) = DOMAIN E
        BY DEF LineTexts
    <3>4. IsList(LineTexts(E))
        BY <3>2, <3>3 DEF IsList
    <3> QED
        BY <3>4 DEF E
  <2>7. IsList(TextsOfKey(f, x, N))
      BY <2>4, <2>5, <2>6 DEF TextsOfKey
  <2> QED
      BY <2>1, <2>7
<1> QED
    BY <1>3, <1>4

\* Skill s is what file e says.
SkillOf(s, e) ==
    /\ e.readable /\ SliceFrontmatter(e.lines) # {}
    /\ s.source = e /\ s.name = NameIn(e) /\ s.name # <<>>
    /\ s.triggers = LowerAll(NonEmpty(TextsIn(e, "triggers")))
    /\ s.tags = LowerAll(NonEmpty(TextsIn(e, "tags")))

\* The texts in a file are those in its only frontmatter.
LEMMA FrontOfFile ==
    ASSUME NEW e, IsFile(e.lines), NEW f \in SliceFrontmatter(e.lines)
    PROVE  /\ IsFront(f) /\ \A K : TextsIn(e, K) = WrittenTexts(f, K)
           /\ \A g \in SliceFrontmatter(e.lines) : g = f
<1>1. \A g \in SliceFrontmatter(e.lines) : g = f
    BY DEF SliceFrontmatter
<1>2. OneOf(SliceFrontmatter(e.lines)) = f
  <2> DEFINE S == SliceFrontmatter(e.lines)
  <2> HIDE DEF S
  <2>1. f \in S /\ \A g \in S : g = f
      BY <1>1 DEF S
  <2>2. OneOf(S) \in S
      BY <2>1 DEF OneOf
  <2>3. OneOf(S) = f
      BY <2>1, <2>2
  <2> QED
      BY <2>3 DEF S
<1> QED
    BY <1>1, <1>2, SliceIsFront DEF TextsIn

\* ParseSkillFile reads what the file says.
LEMMA SkillIsTheFile ==
    ASSUME NEW e, IsFile(e.lines), NEW s \in ParseSkillFile(e) PROVE SkillOf(s, e)
<1>1. PICK f \in SliceFrontmatter(e.lines) :
         /\ e.readable /\ s.name # <<>>
         /\ s = [name |-> ValueAsScalar(FieldOf(ParseTinyYaml(f), "name")),
                 triggers |-> LowerAll(ValueAsArray(FieldOf(ParseTinyYaml(f), "triggers"))),
                 tags |-> LowerAll(ValueAsArray(FieldOf(ParseTinyYaml(f), "tags"))), source |-> e]
    BY DEF ParseSkillFile
<1>2. IsFront(f) /\ \A K : TextsIn(e, K) = WrittenTexts(f, K)
    BY FrontOfFile
<1>3. \A K : IsKey(K) => FieldOf(ParseTinyYaml(f), K).texts = TextsIn(e, K)
    BY <1>2, ReaderIsRight
<1>4. IsKey("name") /\ IsKey("triggers") /\ IsKey("tags")
    BY DEF IsKey
<1>5. s.name = NameIn(e) /\ s.triggers = LowerAll(NonEmpty(TextsIn(e, "triggers")))
      /\ s.tags = LowerAll(NonEmpty(TextsIn(e, "tags"))) /\ s.source = e
    BY <1>1, <1>3, <1>4 DEF ValueAsScalar, ValueAsArray, NameIn
<1> QED
    BY <1>1, <1>5 DEF SkillOf

\* A file that counts as a skill is read as one.
LEMMA CountedIsRead ==
    ASSUME NEW e, IsFile(e.lines), CountsAsSkill(e) PROVE ParseSkillFile(e) # {}
<1>1. PICK f \in SliceFrontmatter(e.lines) : e.readable
    BY DEF CountsAsSkill
<1>2. IsFront(f) /\ \A K : TextsIn(e, K) = WrittenTexts(f, K)
    BY FrontOfFile
<1> DEFINE kv == ParseTinyYaml(f)
           s == [name |-> ValueAsScalar(FieldOf(kv, "name")),
                 triggers |-> LowerAll(ValueAsArray(FieldOf(kv, "triggers"))),
                 tags |-> LowerAll(ValueAsArray(FieldOf(kv, "tags"))), source |-> e]
<1>3. FieldOf(kv, "name").texts = TextsIn(e, "name")
  <2>1. IsKey("name")
      BY DEF IsKey
  <2> QED
      BY <1>2, <2>1, ReaderIsRight
<1>4. s.name # <<>>
  <2>1. ValueAsScalar(FieldOf(kv, "name")) = NameIn(e)
    <3> HIDE DEF kv
    <3> QED
        BY <1>3 DEF ValueAsScalar, NameIn
  <2>2. NameIn(e) # <<>>
      BY DEF CountsAsSkill
  <2> HIDE DEF kv
  <2> QED
      BY <2>1, <2>2
<1>5. s \in ParseSkillFile(e)
  <2>1. kv \in {ParseTinyYaml(front) : front \in {g \in SliceFrontmatter(e.lines) : e.readable}}
      BY <1>1
  <2> QED
      BY <1>4, <2>1 DEF ParseSkillFile
<1> QED
    BY <1>5

\* A text fits a prompt, and what two lists of texts are worth for it.
Fits(t, p) == TriggerMatches(t, ToLower(p), Tokenize(p))
Value(triggers, tags, p) ==
    2 * Cardinality({i \in DOMAIN triggers : Fits(triggers[i], p)})
    + Cardinality({i \in DOMAIN tags : Fits(tags[i], p) /\ \A j \in DOMAIN triggers : triggers[j] # tags[i]})
WorthOf(e, p) == Value(LowerAll(TextsIn(e, "triggers")), LowerAll(TextsIn(e, "tags")), p)

\* The texts of a list that are not empty, with the places they come from.
LEMMA NonEmptyTexts ==
    ASSUME NEW T, IsList(T)
    PROVE  LET P == {i \in DOMAIN T : T[i] # <<>>}
           IN  /\ P \subseteq Nat /\ IsFiniteSet(P) /\ NonEmpty(T) = ElementsAt(T, P)
               /\ \A x \in P : Place(P, x) \in DOMAIN NonEmpty(T) /\ NonEmpty(T)[Place(P, x)] = T[x]
               /\ \A i \in DOMAIN NonEmpty(T) : \E x \in P : Place(P, x) = i /\ NonEmpty(T)[i] = T[x]
<1> DEFINE P == {i \in DOMAIN T : T[i] # <<>>}
<1>1. PICK m \in Nat : DOMAIN T = 1 .. m
    BY DEF IsList
<1>2. P \subseteq Nat /\ IsFiniteSet(P)
  <2>1. P \subseteq 1 .. m /\ P \in SUBSET (1 .. m)
      BY <1>1
  <2>2. IsFiniteSet(1 .. m)
      BY FS_Interval
  <2> HIDE DEF P
  <2>3. IsFiniteSet(P)
      BY <2>1, <2>2, FS_Subset
  <2> QED
      BY <2>1, <2>3
<1>3. NonEmpty(T) = ElementsAt(T, P)
    BY DEF NonEmpty
<1> HIDE DEF P
<1>4. Places(P) /\ ElementsOfPlaces(T, P)
    BY <1>2, PlacesCount, ElementsAre
<1>5. /\ \A x \in P : Place(P, x) \in DOMAIN NonEmpty(T) /\ NonEmpty(T)[Place(P, x)] = T[x]
      /\ \A i \in DOMAIN NonEmpty(T) : \E x \in P : Place(P, x) = i /\ NonEmpty(T)[i] = T[x]
    BY <1>3, <1>4 DEF Places, ElementsOfPlaces
<1> QED
    BY <1>2, <1>3, <1>5 DEF P

\* Empty texts are worth nothing.
LEMMA EmptyTextsDoNotCount ==
    ASSUME NEW T, NEW G, NEW p, IsList(T), IsList(G)
    PROVE  /\ Value(LowerAll(NonEmpty(T)), LowerAll(NonEmpty(G)), p) = Value(LowerAll(T), LowerAll(G), p)
           /\ Value(LowerAll(T), LowerAll(G), p) \in Nat
<1> DEFINE P == {i \in DOMAIN T : T[i] # <<>>}
           Q == {i \in DOMAIN G : G[i] # <<>>}
           t1 == LowerAll(NonEmpty(T))
           t2 == LowerAll(T)
           g1 == LowerAll(NonEmpty(G))
           g2 == LowerAll(G)
<1>1. /\ P \subseteq Nat /\ IsFiniteSet(P) /\ NonEmpty(T) = ElementsAt(T, P)
      /\ \A x \in P : Place(P, x) \in DOMAIN NonEmpty(T) /\ NonEmpty(T)[Place(P, x)] = T[x]
      /\ \A i \in DOMAIN NonEmpty(T) : \E x \in P : Place(P, x) = i /\ NonEmpty(T)[i] = T[x]
    BY NonEmptyTexts, Zenon
<1>2. /\ Q \subseteq Nat /\ IsFiniteSet(Q) /\ NonEmpty(G) = ElementsAt(G, Q)
      /\ \A x \in Q : Place(Q, x) \in DOMAIN NonEmpty(G) /\ NonEmpty(G)[Place(Q, x)] = G[x]
      /\ \A i \in DOMAIN NonEmpty(G) : \E x \in Q : Place(Q, x) = i /\ NonEmpty(G)[i] = G[x]
    BY NonEmptyTexts, Zenon
<1>3. \A A : DOMAIN LowerAll(A) = DOMAIN A /\ \A i \in DOMAIN A : LowerAll(A)[i] = ToLower(A[i])
    BY DEF LowerAll
<1>4. \A a : Fits(ToLower(a), p) => a # <<>> /\ ToLower(a) # <<>>
  <2> SUFFICES ASSUME NEW a, Fits(ToLower(a), p) PROVE a # <<>> /\ ToLower(a) # <<>>
      OBVIOUS
  <2>1. ToLower(a) # <<>>
      BY DEF Fits, TriggerMatches
  <2>2. a = <<>> => ToLower(a) = <<>>
    <3>1. ToLower(<<>>) = <<>>
        BY DEF ToLower
    <3> QED
        BY <3>1
  <2> QED
      BY <2>1, <2>2
<1>5. ToLower(<<>>) = <<>>
    BY DEF ToLower
<1> DEFINE I == {i \in DOMAIN t1 : Fits(t1[i], p)}
           J == {i \in DOMAIN t2 : Fits(t2[i], p)}
<1>6. Cardinality(I) = Cardinality(J) /\ Cardinality(J) \in Nat
  <2>1. I \subseteq DOMAIN ElementsAt(T, P) /\ J \subseteq P
    <3> HIDE DEF P
    <3>1. I \subseteq DOMAIN ElementsAt(T, P)
        BY <1>1, <1>3
    <3>2. \A i \in J : i \in DOMAIN T /\ T[i] # <<>>
        BY <1>3, <1>4
    <3> QED
        BY <3>1, <3>2 DEF P
  <2>2. \A x \in P : x \in J <=> Place(P, x) \in I
    <3> SUFFICES ASSUME NEW x \in P PROVE x \in J <=> Place(P, x) \in I
        OBVIOUS
    <3>1. x \in DOMAIN T
        OBVIOUS
    <3> HIDE DEF P
    <3>2. Place(P, x) \in DOMAIN NonEmpty(T) /\ NonEmpty(T)[Place(P, x)] = T[x]
        BY <1>1
    <3>3. t2[x] = ToLower(T[x]) /\ t1[Place(P, x)] = ToLower(T[x]) /\ x \in DOMAIN t2 /\ Place(P, x) \in DOMAIN t1
        BY <1>3, <3>1, <3>2
    <3> HIDE DEF t1, t2
    <3> QED
        BY <3>3
  <2> HIDE DEF P, I, J
  <2> QED
      BY <1>1, <2>1, <2>2, AsManyElements
<1> DEFINE other1(i) == \A j \in DOMAIN t1 : t1[j] # g1[i]
           other2(i) == \A j \in DOMAIN t2 : t2[j] # g2[i]
           I2 == {i \in DOMAIN g1 : Fits(g1[i], p) /\ other1(i)}
           J2 == {i \in DOMAIN g2 : Fits(g2[i], p) /\ other2(i)}
<1>7. Cardinality(I2) = Cardinality(J2) /\ Cardinality(J2) \in Nat
  <2>1. I2 \subseteq DOMAIN ElementsAt(G, Q) /\ J2 \subseteq Q
    <3> HIDE DEF Q
    <3>1. I2 \subseteq DOMAIN ElementsAt(G, Q)
        BY <1>2, <1>3
    <3>2. \A i \in J2 : i \in DOMAIN G /\ G[i] # <<>>
        BY <1>3, <1>4
    <3> QED
        BY <3>1, <3>2 DEF Q
  <2>2. \A x \in Q : x \in J2 <=> Place(Q, x) \in I2
    <3> SUFFICES ASSUME NEW x \in Q PROVE x \in J2 <=> Place(Q, x) \in I2
        OBVIOUS
    <3>1. x \in DOMAIN G
        OBVIOUS
    <3> HIDE DEF Q
    <3>2. Place(Q, x) \in DOMAIN NonEmpty(G) /\ NonEmpty(G)[Place(Q, x)] = G[x]
        BY <1>2
    <3> DEFINE a == ToLower(G[x])
               y == Place(Q, x)
    <3>3. g2[x] = a /\ g1[y] = a /\ x \in DOMAIN g2 /\ y \in DOMAIN g1
        BY <1>3, <3>1, <3>2
    <3>4. Fits(a, p) => a # <<>>
        BY <1>4
    <3> HIDE DEF a, y, g1, g2
    <3>5. ASSUME Fits(a, p), other2(x) PROVE other1(y)
      <4> SUFFICES ASSUME NEW j \in DOMAIN t1, t1[j] = g1[y] PROVE FALSE
          OBVIOUS
      <4>1. j \in DOMAIN NonEmpty(T) /\ t1[j] = ToLower(NonEmpty(T)[j])
          BY <1>3
      <4>2. PICK z \in P : NonEmpty(T)[j] = T[z]
        <5> HIDE DEF P, t1
        <5> QED
            BY <1>1, <4>1
      <4>3. z \in DOMAIN t2 /\ t2[z] = ToLower(T[z])
          BY <1>3
      <4> HIDE DEF t1, t2, P
      <4> QED
          BY <3>3, <3>5, <4>1, <4>2, <4>3
    <3>6. ASSUME Fits(a, p), other1(y) PROVE other2(x)
      <4> SUFFICES ASSUME NEW j \in DOMAIN t2, t2[j] = g2[x] PROVE FALSE
          OBVIOUS
      <4>1. j \in DOMAIN T /\ t2[j] = ToLower(T[j])
          BY <1>3
      <4>2. T[j] # <<>>
        <5> HIDE DEF t2, P
        <5> QED
            BY <1>5, <3>3, <3>4, <3>6, <4>1
      <4>3. j \in P
          BY <4>1, <4>2
      <4> HIDE DEF P
      <4>4. Place(P, j) \in DOMAIN NonEmpty(T) /\ NonEmpty(T)[Place(P, j)] = T[j]
          BY <1>1, <4>3
      <4>5. Place(P, j) \in DOMAIN t1 /\ t1[Place(P, j)] = ToLower(T[j])
          BY <1>3, <4>4
      <4> HIDE DEF t1, t2
      <4> QED
          BY <3>3, <3>6, <4>1, <4>5
    <3> HIDE DEF other1, other2
    <3>7. x \in J2 <=> Fits(a, p) /\ other2(x)
        BY <3>3
    <3>8. y \in I2 <=> Fits(a, p) /\ other1(y)
        BY <3>3
    <3>9. x \in J2 <=> y \in I2
      <4> HIDE DEF I2, J2
      <4> QED
          BY <3>5, <3>6, <3>7, <3>8
    <3> HIDE DEF I2, J2
    <3> QED
        BY <3>9 DEF y
  <2> HIDE DEF Q, I2, J2
  <2> QED
      BY <1>2, <2>1, <2>2, AsManyElements
<1>8. Value(t1, g1, p) = 2 * Cardinality(I) + Cardinality(I2) /\ Value(t2, g2, p) = 2 * Cardinality(J) + Cardinality(J2)
    BY DEF Value
<1> HIDE DEF t1, t2, g1, g2, I, J, I2, J2
<1>9. Value(t1, g1, p) = Value(t2, g2, p) /\ Value(t2, g2, p) \in Nat
    BY <1>6, <1>7, <1>8
<1> QED
    BY <1>9 DEF t1, t2, g1, g2

\* The score of a skill is what its file is worth.
LEMMA ScoreIsWorth ==
    ASSUME NEW e, IsFile(e.lines), NEW s, SkillOf(s, e), NEW p
    PROVE  /\ Scored(s, p).score = WorthOf(e, p) /\ WorthOf(e, p) \in Nat
           /\ Scored(s, p).source = e /\ Scored(s, p).confidence = ConfidenceFor(WorthOf(e, p))
<1>1. PICK f \in SliceFrontmatter(e.lines) : TRUE
    BY DEF SkillOf
<1>2. IsFront(f) /\ \A K : TextsIn(e, K) = WrittenTexts(f, K)
    BY FrontOfFile
<1>3. IsList(TextsIn(e, "triggers")) /\ IsList(TextsIn(e, "tags"))
    BY <1>2, WrittenIsList
<1>4. Value(s.triggers, s.tags, p) = WorthOf(e, p) /\ WorthOf(e, p) \in Nat
    BY <1>3, EmptyTextsDoNotCount DEF SkillOf, WorthOf
<1>5. /\ Scored(s, p).score = Value(s.triggers, s.tags, p) /\ Scored(s, p).source = s.source
      /\ Scored(s, p).confidence = ConfidenceFor(Value(s.triggers, s.tags, p))
    BY DEF Scored, Value, Fits
<1> QED
    BY <1>4, <1>5 DEF SkillOf

\* A prompt without a word fits nothing.
LEMMA NoPromptNoWorth ==
    ASSUME NEW e PROVE WorthOf(e, <<>>) = 0
<1>1. ToLower(<<>>) = <<>>
    BY DEF ToLower
<1>2. \A w : w \notin Tokenize(<<>>)
    BY DEF Tokenize
<1>3. \A t : ~Fits(t, <<>>)
  <2>1. DOMAIN <<>> = {}
      OBVIOUS
  <2>2. \A t : ~Occurs(t, <<>>)
      BY <2>1, Zenon DEF Occurs
  <2>3. \A t : ~TriggerMatches(t, <<>>, Tokenize(<<>>))
      BY <1>2, <2>1, <2>2, Zenon DEF TriggerMatches
  <2> QED
      BY <1>1, <2>3, Zenon DEF Fits
<1>4. \A A, B : Value(A, B, <<>>) = 0
  <2> SUFFICES ASSUME NEW A, NEW B PROVE Value(A, B, <<>>) = 0
      OBVIOUS
  <2> DEFINE X == {i \in DOMAIN A : Fits(A[i], <<>>)}
             Y == {i \in DOMAIN B : Fits(B[i], <<>>) /\ \A j \in DOMAIN A : A[j] # B[i]}
  <2>1. X = {} /\ Y = {}
      BY <1>3
  <2>2. Cardinality({}) = 0
      BY FS_EmptySet
  <2>3. Value(A, B, <<>>) = 2 * Cardinality(X) + Cardinality(Y)
      BY DEF Value
  <2> HIDE DEF X, Y
  <2>4. Cardinality(X) = 0 /\ Cardinality(Y) = 0
      BY <2>1, <2>2
  <2> QED
      BY <2>3, <2>4
<1> QED
    BY <1>4 DEF WorthOf

\* Hits with scores, of which there is one at least.
IsHits(hits) ==
    \E m \in Nat : m >= 1 /\ DOMAIN hits = 1 .. m /\ \A i \in 1 .. m : hits[i].score \in Nat

\* The first of the hits by score has the greatest score.
LEMMA FirstIsBest ==
    ASSUME NEW hits, IsHits(hits)
    PROVE  \E i \in DOMAIN hits : ByScore(hits)[1] = hits[i] /\ \A j \in DOMAIN hits : hits[j].score <= hits[i].score
<1>1. PICK m \in Nat : m >= 1 /\ DOMAIN hits = 1 .. m /\ \A i \in 1 .. m : hits[i].score \in Nat
    BY DEF IsHits
<1> DEFINE D == 1 .. m
           sc(i) == hits[i].score
           before(i) == {j \in D : sc(j) > sc(i) \/ (sc(j) = sc(i) /\ j <= i)}
<1>2. ASSUME NEW i \in D
      PROVE  /\ IsFiniteSet(before(i)) /\ Cardinality(before(i)) \in Nat /\ i \in before(i)
             /\ Rank(hits, i) = Cardinality(before(i))
  <2>1. IsFiniteSet(D)
      BY FS_Interval
  <2>2. before(i) \in SUBSET D
      OBVIOUS
  <2>3. i \in before(i)
    <3>1. i <= i
        OBVIOUS
    <3> HIDE DEF sc
    <3> QED
        BY <3>1
  <2>4. Rank(hits, i) = Cardinality(before(i))
      BY <1>1 DEF Rank
  <2> HIDE DEF before, D
  <2>5. IsFiniteSet(before(i))
      BY <2>1, <2>2, FS_Subset
  <2> QED
      BY <2>3, <2>4, <2>5, FS_CardinalityType
<1>3. \A i \in D : sc(i) \in Nat /\ i \in Nat
    BY <1>1
<1> HIDE DEF sc
<1>4. PICK i \in D : \A j \in D : Rank(hits, i) <= Rank(hits, j)
  <2> DEFINE ranks == {Rank(hits, j) : j \in D}
  <2>1. ranks \subseteq Nat /\ ranks # {}
    <3>1. 1 \in D
        BY <1>1
    <3> HIDE DEF D, before
    <3> QED
        BY <1>2, <3>1
  <2> HIDE DEF ranks
  <2>2. PICK r \in ranks : \A q \in ranks : r <= q
      BY <2>1, LeastNumber
  <2> QED
      BY <2>2 DEF ranks
<1>5. Rank(hits, i) = 1
  <2>1. ASSUME NEW j \in before(i), j # i PROVE FALSE
    <3>1. before(j) \in SUBSET before(i) /\ i \notin before(j) /\ j \in D
      <4>1. j \in D /\ (sc(j) > sc(i) \/ (sc(j) = sc(i) /\ j < i))
          BY <1>3, <2>1
      <4>2. i \notin before(j)
          BY <1>3, <4>1
      <4>3. ASSUME NEW k \in before(j) PROVE k \in before(i)
          BY <1>3, <4>1, <4>3
      <4> HIDE DEF before
      <4> QED
          BY <4>1, <4>2, <4>3
    <3> HIDE DEF before, D
    <3>2. Cardinality(before(j)) <= Cardinality(before(i)) /\ Cardinality(before(j)) # Cardinality(before(i))
        BY <1>2, <3>1, FS_Subset
    <3> QED
        BY <1>2, <1>4, <3>1, <3>2
  <2>2. before(i) = {i}
    <3> HIDE DEF before
    <3> QED
        BY <1>2, <2>1
  <2> HIDE DEF before, D
  <2> QED
      BY <1>2, <2>2, FS_Singleton
<1> DEFINE b == CHOOSE x \in DOMAIN hits : Rank(hits, x) = 1
<1>6. b \in DOMAIN hits /\ Rank(hits, b) = 1
    BY <1>1, <1>5
<1>7. 1 \in DOMAIN hits
    BY <1>1
<1>8. ByScore(hits)[1] = hits[b]
    BY <1>7 DEF ByScore
<1> HIDE DEF b
<1>9. ASSUME NEW j \in D PROVE sc(j) <= sc(b)
  <2>1. b \in D
      BY <1>1, <1>6
  <2>2. before(b) = {b}
    <3> HIDE DEF before, D
    <3>1. \E x : before(b) = {x}
        BY <1>2, <1>6, <2>1, FS_Singleton
    <3> QED
        BY <1>2, <2>1, <3>1
  <2>3. j = b \/ j \notin before(b)
    <3> HIDE DEF before
    <3> QED
        BY <2>2
  <2> QED
      BY <1>3, <2>1, <2>3
<1>10. \A j \in DOMAIN hits : hits[j].score <= hits[b].score
    BY <1>1, <1>9 DEF sc
<1> QED
    BY <1>6, <1>8, <1>10

\* The skills read so far.
AreSkills(ss) ==
    /\ IsSequence(ss)
    /\ \A i \in DOMAIN ss : SkillOf(ss[i], ss[i].source) /\ IsFile(ss[i].source.lines)

\* The block the hook adds, and whether it adds none.
Hinted(ss, p, h) ==
    \E i \in DOMAIN ss :
        /\ h.source = ss[i].source /\ WorthOf(ss[i].source, p) > 0
        /\ \A j \in DOMAIN ss : WorthOf(ss[j].source, p) <= WorthOf(ss[i].source, p)
NoHint(ss, p) == \A j \in DOMAIN ss : WorthOf(ss[j].source, p) = 0

\* The first of a sequence and another one.
LEMMA FirstOfBoth ==
    ASSUME NEW m \in Nat, m >= 1, NEW s, DOMAIN s = 1 .. m, s = [i \in 1 .. m |-> s[i]], NEW t, IsSequence(t)
    PROVE  LET all == s \o t
               hits == SubSeq(all, 1, IF 1 < Len(all) THEN 1 ELSE Len(all))
           IN  hits # <<>> /\ hits[1] = s[1]
<1> DEFINE S == {s[i] : i \in DOMAIN s} \cup {t[i] : i \in DOMAIN t}
           all == s \o t
           l == IF 1 < Len(all) THEN 1 ELSE Len(all)
<1>1. s \in Seq(S) /\ Len(s) = m
  <2>1. s \in [1 .. m -> S]
      OBVIOUS
  <2> HIDE DEF S
  <2>2. s \in Seq(S)
      BY <2>1, SeqDef
  <2> QED
      BY <2>2, LenProperties
<1>2. t \in Seq(S) /\ Len(t) \in Nat
  <2>1. t \in Seq({t[i] : i \in DOMAIN t})
      BY DEF IsSequence
  <2>2. Len(t) \in Nat /\ DOMAIN t = 1 .. Len(t) /\ t = [i \in 1 .. Len(t) |-> t[i]]
      BY <2>1
  <2>3. t \in [1 .. Len(t) -> S]
      BY <2>2
  <2> HIDE DEF S
  <2> QED
      BY <2>2, <2>3, SeqDef
<1> HIDE DEF S
<1>3. all \in Seq(S) /\ Len(all) = m + Len(t) /\ \A i \in 1 .. m + Len(t) : all[i] = IF i <= m THEN s[i] ELSE t[i - m]
    BY <1>1, <1>2, ConcatProperties
<1>4. Len(all) >= 1 /\ Len(all) \in Nat /\ 1 \in 1 .. m + Len(t)
    BY <1>2, <1>3
<1>5. all[1] = s[1] /\ all[1] \in S /\ l = 1
  <2>1. all[1] = s[1]
      BY <1>3, <1>4
  <2>2. s[1] \in S
      BY <1>1
  <2>3. l = 1
    <3> DEFINE k == Len(all)
    <3>1. k \in Nat /\ k >= 1 /\ l = IF 1 < k THEN 1 ELSE k
        BY <1>4
    <3> HIDE DEF k, l
    <3> QED
        BY <3>1
  <2> HIDE DEF all, l
  <2> QED
      BY <2>1, <2>2, <2>3
<1> DEFINE hits == SubSeq(all, 1, l)
<1> HIDE DEF all, l
<1>6. hits \in Seq(S) /\ Len(hits) = 1 /\ hits[1] = all[1]
  <2>1. \A i \in 1 .. 1 : all[i] \in S
      BY <1>5
  <2>2. /\ SubSeq(all, 1, 1) \in Seq(S) /\ Len(SubSeq(all, 1, 1)) = (IF 1 <= 1 THEN 1 - 1 + 1 ELSE 0)
        /\ \A i \in 1 .. 1 - 1 + 1 : SubSeq(all, 1, 1)[i] = all[1 + i - 1]
      BY <2>1, SubSeqProperties
  <2>3. SubSeq(all, 1, 1)[1] = all[1] /\ Len(SubSeq(all, 1, 1)) = 1
      BY <2>2
  <2> QED
      BY <1>5, <2>2, <2>3
<1> HIDE DEF hits
<1>7. hits # <<>>
  <2>1. Len(<<>>) = 0
      OBVIOUS
  <2>2. Len(hits) # 0
      BY <1>6
  <2> QED
      BY <2>1, <2>2
<1>8. hits # <<>> /\ hits[1] = s[1]
    BY <1>5, <1>6, <1>7
<1> QED
    BY <1>8 DEF hits, all, l

\* The first of nothing and another one.
LEMMA FirstOfOther ==
    ASSUME NEW t, t = <<>> \/ \E x : t = <<x>>
    PROVE  LET all == <<>> \o t IN SubSeq(all, 1, IF 1 < Len(all) THEN 1 ELSE Len(all)) = t
<1>1. CASE t = <<>>
    BY <1>1
<1>2. CASE \E x : t = <<x>>
  <2>1. PICK x : t = <<x>>
      BY <1>2
  <2>2. t \in Seq({x}) /\ Len(t) = 1
      BY <2>1
  <2>3. <<>> \o t = t
      BY <2>2, ConcatEmptySeq
  <2>4. SubSeq(t, 1, Len(t)) = t
      BY <2>2, SubSeqFull
  <2> QED
      BY <2>2, <2>3, <2>4
<1> QED
    BY <1>1, <1>2

\* What Suggest comes to.
LEMMA SuggestsTheBest ==
    ASSUME AreSkills(skills), NEW p
    PROVE  LET hits == Suggest(p, 1)
           IN  \/ NoHint(skills, p) /\ (hits = <<>> \/ hits[1].confidence = "low")
               \/ hits # <<>> /\ hits[1].confidence # "low" /\ Hinted(skills, p, hits[1])
<1> DEFINE n == Len(skills)
           w(i) == WorthOf(skills[i].source, p)
           scored == [i \in DOMAIN skills |-> Scored(skills[i], p)]
           F == {i \in DOMAIN scored : scored[i].score > 0}
           hits0 == ElementsAt(scored, F)
           sorted == ByScore(hits0)
           guides == {i \in DOMAIN skills : skills[i].name = NudgeSkill}
           guide == skills[CHOOSE i \in guides : \A j \in guides : i <= j]
           nudge == IF /\ CodewordHit(ToLower(p)) /\ guides # {}
                       /\ \A i \in DOMAIN sorted : sorted[i].skill # NudgeSkill
                    THEN <<[skill |-> NudgeSkill, score |-> 1, confidence |-> "low", source |-> guide.source]>>
                    ELSE <<>>
           all == sorted \o nudge
           hits == Suggest(p, 1)
<1>1. n \in Nat /\ DOMAIN skills = 1 .. n
    BY LenProperties DEF AreSkills, IsSequence
<1>2. ASSUME NEW i \in DOMAIN skills
      PROVE  /\ w(i) \in Nat /\ scored[i].score = w(i) /\ scored[i].source = skills[i].source
             /\ scored[i].confidence = ConfidenceFor(w(i))
  <2>1. SkillOf(skills[i], skills[i].source) /\ IsFile(skills[i].source.lines)
      BY DEF AreSkills
  <2> QED
      BY <2>1, ScoreIsWorth
<1>3. hits = SubSeq(all, 1, IF 1 < Len(all) THEN 1 ELSE Len(all))
    BY DEF Suggest
<1>4. (nudge = <<>> \/ \E x : nudge = <<x>>) /\ (nudge # <<>> => nudge[1].confidence = "low")
    OBVIOUS
<1>5. DOMAIN scored = DOMAIN skills
    OBVIOUS
<1> HIDE DEF scored, nudge, hits, w
<1>6. F \subseteq 1 .. n /\ F \subseteq Nat /\ IsFiniteSet(F) /\ \A i \in DOMAIN skills : i \in F <=> w(i) > 0
  <2>1. F \subseteq 1 .. n /\ F \in SUBSET (1 .. n)
      BY <1>1, <1>5
  <2>2. \A i \in DOMAIN skills : i \in F <=> w(i) > 0
      BY <1>2, <1>5
  <2>3. IsFiniteSet(1 .. n) /\ 1 .. n \subseteq Nat
      BY <1>1, FS_Interval
  <2> HIDE DEF F, n
  <2>4. IsFiniteSet(F)
      BY <2>1, <2>3, FS_Subset
  <2> QED
      BY <2>1, <2>2, <2>3, <2>4
<1> HIDE DEF F, n
<1>7. Places(F) /\ ElementsOfPlaces(scored, F)
    BY <1>6, PlacesCount, ElementsAre
<1> DEFINE m == Cardinality(F)
<1>8. m \in Nat /\ DOMAIN hits0 = 1 .. m
    BY <1>7 DEF Places, ElementsOfPlaces
<1>9. CASE F = {}
  <2>1. m = 0
      BY <1>9, FS_EmptySet
  <2>2. sorted = <<>>
    <3>1. DOMAIN hits0 = {}
        BY <1>8, <2>1
    <3> HIDE DEF hits0
    <3> QED
        BY <3>1 DEF ByScore
  <2>3. hits = nudge
    <3> HIDE DEF sorted
    <3> QED
        BY <1>3, <1>4, <2>2, FirstOfOther
  <2>4. NoHint(skills, p)
    <3>1. \A i \in DOMAIN skills : w(i) = 0
        BY <1>2, <1>6, <1>9
    <3> QED
        BY <3>1 DEF NoHint, w
  <2> QED
      BY <1>4, <2>3, <2>4 DEF hits
<1>10. CASE F # {}
  <2>1. m >= 1
    <3>1. m # 0
        BY <1>6, <1>10, FS_EmptySet
    <3> HIDE DEF m
    <3> QED
        BY <1>8, <3>1
  <2>2. ASSUME NEW i \in DOMAIN hits0 PROVE \E x \in F : hits0[i] = scored[x] /\ hits0[i].score = w(x) /\ w(x) \in Nat
    <3>1. PICK x \in F : hits0[i] = scored[x]
        BY <1>7 DEF ElementsOfPlaces
    <3> QED
        BY <1>1, <1>2, <1>6, <3>1
  <2>3. \A x \in F : \E i \in DOMAIN hits0 : hits0[i] = scored[x]
    <3> SUFFICES ASSUME NEW x \in F PROVE \E i \in DOMAIN hits0 : hits0[i] = scored[x]
        OBVIOUS
    <3>1. Place(F, x) \in 1 .. m
        BY <1>7 DEF Places
    <3>2. hits0[Place(F, x)] = scored[x]
        BY <1>7 DEF ElementsOfPlaces
    <3> HIDE DEF hits0
    <3> QED
        BY <1>8, <3>1, <3>2
  <2> HIDE DEF hits0, m
  <2>4. IsHits(hits0)
      BY <1>8, <2>1, <2>2 DEF IsHits
  <2>5. PICK i \in DOMAIN hits0 : sorted[1] = hits0[i] /\ \A j \in DOMAIN hits0 : hits0[j].score <= hits0[i].score
      BY <2>4, FirstIsBest
  <2>6. DOMAIN sorted = 1 .. m /\ sorted = [r \in 1 .. m |-> sorted[r]]
      BY <1>8 DEF ByScore
  <2> HIDE DEF sorted
  <2>7. IsSequence(nudge)
    <3>1. CASE nudge = <<>>
        BY <3>1 DEF IsSequence
    <3>2. CASE \E x : nudge = <<x>>
      <4>1. PICK x : nudge = <<x>>
          BY <3>2
      <4>2. {nudge[k] : k \in DOMAIN nudge} = {x}
          BY <4>1
      <4>3. nudge \in Seq({x})
          BY <4>1
      <4> QED
          BY <4>2, <4>3 DEF IsSequence
    <3> QED
        BY <1>4, <3>1, <3>2
  <2>8. hits # <<>> /\ hits[1] = sorted[1]
    <3>1. LET a == sorted \o nudge
              h == SubSeq(a, 1, IF 1 < Len(a) THEN 1 ELSE Len(a))
          IN  h # <<>> /\ h[1] = sorted[1]
        BY <1>8, <2>1, <2>6, <2>7, FirstOfBoth
    <3> QED
        BY <1>3, <3>1
  <2>9. PICK x \in F : hits0[i] = scored[x] /\ hits0[i].score = w(x) /\ w(x) \in Nat
      BY <2>2
  <2>10. x \in DOMAIN skills /\ w(x) > 0
      BY <1>1, <1>6
  <2>11. hits[1] = scored[x]
      BY <2>5, <2>8, <2>9
  <2>12. \A y \in DOMAIN skills : w(y) <= w(x)
    <3> SUFFICES ASSUME NEW y \in DOMAIN skills PROVE w(y) <= w(x)
        OBVIOUS
    <3>1. w(y) \in Nat /\ (y \in F <=> w(y) > 0)
        BY <1>2, <1>6
    <3>2. CASE y \in F
      <4>1. PICK j \in DOMAIN hits0 : hits0[j] = scored[y]
          BY <2>3, <3>2
      <4>2. hits0[j].score = w(y)
          BY <1>2, <4>1
      <4> QED
          BY <2>5, <2>9, <4>1, <4>2
    <3>3. CASE y \notin F
        BY <2>9, <2>10, <3>1, <3>3
    <3> QED
        BY <3>2, <3>3
  <2>13. hits[1].source = skills[x].source /\ hits[1].confidence # "low"
    <3>1. w(x) >= 1 /\ hits[1].source = skills[x].source /\ hits[1].confidence = ConfidenceFor(w(x))
        BY <1>2, <2>9, <2>10, <2>11
    <3> QED
        BY <3>1 DEF ConfidenceFor
  <2>14. Hinted(skills, p, hits[1])
      BY <2>10, <2>12, <2>13 DEF Hinted, w
  <2> QED
      BY <2>8, <2>13, <2>14 DEF hits
<1> QED
    BY <1>9, <1>10

-----------------------------------------------------------------------------
(* PromptHook: the directories, the skills in them and the prescription. *)

\* The skill files of directory j, and the directories in the order they are loaded.
FilesOf(R, j) == {e \in R[j].entries : IsSkillFile(e)}
Listed(R, C) ==
    /\ IsSequence(C)
    /\ \A c \in DOMAIN C : \E r \in DOMAIN R :
          /\ C[c] = FilesOf(R, r)
          /\ \A j \in 1 .. r - 1 : \E b \in 1 .. c - 1 : C[b] = FilesOf(R, j)
    /\ \A j \in DOMAIN R : \E c \in DOMAIN C : C[c] = FilesOf(R, j)

\* Directories that are found twice are loaded once, at their first place.
LEMMA EveryDirListed ==
    ASSUME NEW R, IsListing(R) PROVE Listed(R, CandidateDirs(R))
<1> DEFINE N == Len(R)
           P == {i \in DOMAIN R : \A j \in 1 .. i - 1 : R[j].path # R[i].path}
           fst == ElementsAt(R, P)
           C == CandidateDirs(R)
<1>1. N \in Nat /\ DOMAIN R = 1 .. N
  <2>1. R \in Seq({R[i] : i \in DOMAIN R})
      BY DEF IsListing
  <2> QED
      BY <2>1, LenProperties
<1>2. P \subseteq 1 .. N /\ P \subseteq Nat /\ IsFiniteSet(P)
  <2>1. P \subseteq 1 .. N /\ P \in SUBSET (1 .. N)
      BY <1>1
  <2>2. IsFiniteSet(1 .. N) /\ 1 .. N \subseteq Nat
      BY <1>1, FS_Interval
  <2> HIDE DEF P, N
  <2>3. IsFiniteSet(P)
      BY <2>1, <2>2, FS_Subset
  <2> QED
      BY <2>1, <2>2, <2>3
<1>3. C = [i \in DOMAIN fst |-> {e \in fst[i].entries : IsSkillFile(e)}]
    BY DEF CandidateDirs
<1>4. ASSUME NEW j \in DOMAIN R PROVE \E i \in P : i <= j /\ R[i].path = R[j].path /\ R[i].entries = R[j].entries
  <2> DEFINE same == {i \in DOMAIN R : R[i].path = R[j].path}
  <2>1. same \subseteq Nat /\ j \in same
      BY <1>1
  <2>2. PICK i \in same : \A k \in same : i <= k
    <3> HIDE DEF same
    <3> QED
        BY <2>1, LeastNumber
  <2>3. i \in DOMAIN R /\ R[i].path = R[j].path /\ i <= j
      BY <2>1, <2>2
  <2>4. \A k \in 1 .. i - 1 : R[k].path # R[i].path
    <3> SUFFICES ASSUME NEW k \in 1 .. i - 1, R[k].path = R[i].path PROVE FALSE
        OBVIOUS
    <3>1. k \in 1 .. N /\ ~ (i <= k)
        BY <1>1, <2>3
    <3>2. k \in same
        BY <1>1, <2>3, <3>1
    <3> HIDE DEF same
    <3> QED
        BY <2>2, <3>1, <3>2
  <2>5. R[i].entries = R[j].entries
      BY <2>3 DEF IsListing
  <2> QED
      BY <2>3, <2>4, <2>5
<1> HIDE DEF P, N
<1>5. Places(P) /\ ElementsOfPlaces(R, P)
    BY <1>2, PlacesCount, ElementsAre
<1> DEFINE m == Cardinality(P)
<1>6. /\ m \in Nat /\ DOMAIN fst = 1 .. m
      /\ \A x \in P : Place(P, x) \in 1 .. m /\ fst[Place(P, x)] = R[x]
      /\ \A c \in 1 .. m : \E x \in P : Place(P, x) = c /\ fst[c] = R[x]
    BY <1>5 DEF Places, ElementsOfPlaces
<1> HIDE DEF fst, m, C
<1>7. DOMAIN C = 1 .. m /\ C = [i \in 1 .. m |-> C[i]] /\ \A c \in 1 .. m : \A x : fst[c] = R[x] => C[c] = FilesOf(R, x)
    BY <1>3, <1>6 DEF FilesOf
<1>8. IsSequence(C)
  <2>1. C \in [1 .. m -> {C[i] : i \in DOMAIN C}]
      BY <1>7
  <2>2. C \in Seq({C[i] : i \in DOMAIN C})
      BY <1>6, <2>1, SeqDef
  <2> QED
      BY <2>2 DEF IsSequence
<1>9. ASSUME NEW c \in DOMAIN C
      PROVE  \E r \in DOMAIN R : /\ C[c] = FilesOf(R, r)
                                 /\ \A j \in 1 .. r - 1 : \E b \in 1 .. c - 1 : C[b] = FilesOf(R, j)
  <2>1. PICK r \in P : Place(P, r) = c /\ fst[c] = R[r]
      BY <1>6, <1>7
  <2>2. r \in DOMAIN R /\ r \in 1 .. N /\ C[c] = FilesOf(R, r)
      BY <1>1, <1>2, <1>7, <2>1
  <2>3. ASSUME NEW j \in 1 .. r - 1 PROVE \E b \in 1 .. c - 1 : C[b] = FilesOf(R, j)
    <3>1. j \in DOMAIN R /\ j < r
        BY <1>1, <2>2
    <3>2. PICK i \in P : i <= j /\ R[i].entries = R[j].entries
        BY <1>4, <3>1
    <3>3. i < r /\ i \in Nat
        BY <1>1, <1>2, <2>2, <3>1, <3>2
    <3>4. Place(P, i) < Place(P, r) /\ Place(P, i) \in 1 .. m
        BY <1>5, <1>6, <3>3 DEF Places
    <3>5. C[Place(P, i)] = FilesOf(R, i)
        BY <1>6, <1>7
    <3>6. FilesOf(R, i) = FilesOf(R, j)
        BY <3>2 DEF FilesOf
    <3>7. Place(P, i) \in 1 .. c - 1
        BY <1>6, <1>7, <2>1, <3>4
    <3> QED
        BY <3>5, <3>6, <3>7
  <2> QED
      BY <2>2, <2>3
<1>10. ASSUME NEW j \in DOMAIN R PROVE \E c \in DOMAIN C : C[c] = FilesOf(R, j)
  <2>1. PICK i \in P : R[i].entries = R[j].entries
      BY <1>4
  <2>2. FilesOf(R, i) = FilesOf(R, j)
      BY <2>1 DEF FilesOf
  <2>3. Place(P, i) \in 1 .. m /\ C[Place(P, i)] = FilesOf(R, i)
      BY <1>6, <1>7
  <2> QED
      BY <1>7, <2>2, <2>3
<1>11. Listed(R, C)
    BY <1>8, <1>9, <1>10 DEF Listed
<1> QED
    BY <1>11 DEF C

\* Offered and SoleOffer for the directories R.
OfferedIn(R, e) ==
    \E i \in DOMAIN R :
        /\ e \in R[i].entries /\ CountsAsSkill(e)
        /\ ~ \E j \in 1 .. i - 1 : \E d \in R[j].entries : CountsAsSkill(d) /\ NameIn(d) = NameIn(e)
SoleIn(R, e) ==
    /\ OfferedIn(R, e)
    /\ \A i \in DOMAIN R : \A d \in R[i].entries :
          CountsAsSkill(d) /\ NameIn(d) = NameIn(e) => d = e \/ ~OfferedIn(R, d)

\* The directories ds left after the first k of C, the first of them perhaps in part.
LeftOf(C, ds, k) ==
    /\ IsSequence(ds) /\ k \in Nat /\ k + Len(ds) = Len(C)
    /\ \A i \in 2 .. Len(ds) : ds[i] = C[k + i]
    /\ Len(ds) >= 1 => ds[1] \subseteq C[k + 1]
SeenOf(C, ds, k, e) ==
    (\E c \in 1 .. k : e \in C[c]) \/ (Len(ds) >= 1 /\ e \in C[k + 1] /\ e \notin ds[1])

\* Of what was seen every skill's name is there, and what is there is offered.
LoadedFrom(R, ds, k, ss) ==
    /\ LeftOf(CandidateDirs(R), ds, k)
    /\ \A e : SeenOf(CandidateDirs(R), ds, k, e) /\ CountsAsSkill(e) => \E i \in DOMAIN ss : ss[i].name = NameIn(e)
    /\ AreSkills(ss) /\ \A i \in DOMAIN ss : OfferedIn(R, ss[i].source)

\* The start.
LEMMA NothingLoaded ==
    ASSUME NEW R, IsListing(R) PROVE LoadedFrom(R, CandidateDirs(R), 0, <<>>)
<1> DEFINE C == CandidateDirs(R)
<1>1. IsSequence(C)
    BY EveryDirListed DEF Listed
<1> HIDE DEF C
<1>2. Len(C) \in Nat
    BY <1>1 DEF IsSequence
<1>3. LeftOf(C, C, 0)
  <2>1. \A i \in 2 .. Len(C) : 0 + i = i
      OBVIOUS
  <2>2. 0 + Len(C) = Len(C) /\ 0 + 1 = 1 /\ 0 \in Nat
      BY <1>2
  <2> QED
      BY <1>1, <2>1, <2>2 DEF LeftOf
<1>4. \A e : ~SeenOf(C, C, 0, e)
  <2>1. 1 .. 0 = {} /\ 0 + 1 = 1
      OBVIOUS
  <2> QED
      BY <2>1 DEF SeenOf
<1>5. AreSkills(<<>>)
    BY DEF AreSkills, IsSequence
<1>6. DOMAIN <<>> = {}
    OBVIOUS
<1> QED
    BY <1>3, <1>4, <1>5, <1>6 DEF LoadedFrom, C

\* The files of a listing.
LEMMA ListedIsFile ==
    ASSUME NEW R, IsListing(R), NEW C, Listed(R, C), NEW c \in DOMAIN C, NEW e \in C[c]
    PROVE  IsFile(e.lines) /\ IsSkillFile(e) /\ \E r \in DOMAIN R : e \in R[r].entries
<1>1. PICK r \in DOMAIN R : C[c] = FilesOf(R, r)
    BY DEF Listed
<1>2. e \in R[r].entries /\ IsSkillFile(e)
    BY <1>1 DEF FilesOf
<1> QED
    BY <1>2 DEF IsListing

\* A function on the first m numbers.
Lists(s, m) == s = [i \in 1 .. m |-> s[i]]

\* It is a sequence.
LEMMA ListIsSequence ==
    ASSUME NEW s, NEW m \in Nat, Lists(s, m) PROVE IsSequence(s) /\ Len(s) = m
<1>1. DOMAIN s = 1 .. m /\ s \in [1 .. m -> {s[i] : i \in DOMAIN s}]
    BY DEF Lists
<1>2. s \in Seq({s[i] : i \in DOMAIN s})
    BY <1>1, SeqDef
<1>3. Len(s) = m
    BY <1>1, <1>2, LenProperties
<1> QED
    BY <1>1, <1>2, <1>3 DEF IsSequence

\* One entry.
LEMMA EntryLoaded ==
    ASSUME NEW R, IsListing(R), NEW ds, NEW k, NEW ss, LoadedFrom(R, ds, k, ss), ds # <<>>, NEW e \in ds[1],
           NEW ds2, ds2 = [ds EXCEPT ![1] = @ \ {e}],
           NEW new, new = {s \in ParseSkillFile(e) : \A i \in DOMAIN ss : ss[i].name # s.name},
           NEW ss2, ss2 = IF new = {} THEN ss ELSE Append(ss, OneOf(new))
    PROVE  LoadedFrom(R, ds2, k, ss2)
<1> DEFINE C == CandidateDirs(R)
           n == Len(ds)
<1>1. Listed(R, C)
    BY EveryDirListed
<1> HIDE DEF C
<1>2. /\ LeftOf(C, ds, k) /\ AreSkills(ss) /\ \A i \in DOMAIN ss : OfferedIn(R, ss[i].source)
      /\ \A d : SeenOf(C, ds, k, d) /\ CountsAsSkill(d) => \E i \in DOMAIN ss : ss[i].name = NameIn(d)
    BY DEF LoadedFrom, C
<1>3. ds \in Seq({ds[i] : i \in DOMAIN ds}) /\ k \in Nat /\ k + n = Len(C)
    BY <1>2 DEF LeftOf, IsSequence
<1>4. n \in Nat /\ n >= 1 /\ DOMAIN ds = 1 .. n
  <2>1. n \in Nat /\ DOMAIN ds = 1 .. n /\ n # 0
      BY <1>3, EmptySeq, LenProperties
  <2> HIDE DEF n
  <2> QED
      BY <2>1
<1>5. DOMAIN C = 1 .. Len(C) /\ Len(C) \in Nat
    BY <1>1, LenProperties DEF Listed, IsSequence
<1>6. k + 1 \in DOMAIN C /\ e \in C[k + 1] /\ ds[1] \subseteq C[k + 1] /\ 1 .. k \subseteq DOMAIN C
  <2>1. ds[1] \subseteq C[k + 1]
      BY <1>2, <1>4 DEF LeftOf
  <2> HIDE DEF n
  <2> QED
      BY <1>3, <1>4, <1>5, <2>1
<1>7. DOMAIN ds2 = 1 .. n /\ ds2[1] = ds[1] \ {e} /\ (\A i \in 2 .. n : ds2[i] = ds[i]) /\ ds2 = [i \in 1 .. n |-> ds2[i]]
  <2>1. 1 \in DOMAIN ds /\ \A i \in 2 .. n : i \in DOMAIN ds /\ i # 1
      BY <1>4
  <2>2. ds2 = [i \in DOMAIN ds |-> IF i = 1 THEN ds[1] \ {e} ELSE ds[i]]
      BY <1>3
  <2> QED
      BY <1>4, <2>1, <2>2
<1>8. IsSequence(ds2) /\ Len(ds2) = n
  <2>1. n \in Nat /\ Lists(ds2, n)
      BY <1>4, <1>7 DEF Lists
  <2> HIDE DEF n
  <2> QED
      BY <2>1, ListIsSequence
<1>9. LeftOf(C, ds2, k)
    BY <1>2, <1>3, <1>6, <1>7, <1>8 DEF LeftOf
<1>10. \A d : SeenOf(C, ds2, k, d) => d = e \/ SeenOf(C, ds, k, d)
    BY <1>7, <1>8 DEF SeenOf
<1>11. IsFile(e.lines) /\ IsSkillFile(e)
    BY <1>1, <1>6, ListedIsFile
<1>12. CASE new = {}
  <2>1. ss2 = ss
      BY <1>12
  <2>2. CountsAsSkill(e) => \E i \in DOMAIN ss : ss[i].name = NameIn(e)
    <3> SUFFICES ASSUME CountsAsSkill(e) PROVE \E i \in DOMAIN ss : ss[i].name = NameIn(e)
        OBVIOUS
    <3>1. PICK s \in ParseSkillFile(e) : TRUE
        BY <1>11, CountedIsRead
    <3>2. s.name = NameIn(e)
        BY <1>11, SkillIsTheFile DEF SkillOf
    <3>3. s \notin new
        BY <1>12
    <3> QED
        BY <3>2, <3>3
  <2> QED
      BY <1>2, <1>9, <1>10, <2>1, <2>2 DEF LoadedFrom, C
<1>13. CASE new # {}
  <2> DEFINE s == OneOf(new)
  <2>1. s \in new
      BY <1>13 DEF OneOf
  <2> HIDE DEF s
  <2>2. s \in ParseSkillFile(e) /\ \A i \in DOMAIN ss : ss[i].name # s.name
      BY <2>1
  <2>3. SkillOf(s, e)
      BY <1>11, <2>2, SkillIsTheFile
  <2>4. s.source = e /\ s.name = NameIn(e) /\ CountsAsSkill(e)
      BY <1>11, <2>3 DEF SkillOf, CountsAsSkill
  <2>5. ss2 = Append(ss, s)
      BY <1>13 DEF s
  <2>6. Appended(ss, s)
      BY <1>2, AppendsOne DEF AreSkills
  <2> DEFINE l == Len(ss)
  <2>7. /\ IsSequence(ss2) /\ l \in Nat /\ DOMAIN ss = 1 .. l /\ DOMAIN ss2 = 1 .. l + 1
        /\ ss2[l + 1] = s /\ \A i \in 1 .. l : ss2[i] = ss[i]
      BY <2>5, <2>6 DEF Appended
  <2> HIDE DEF l
  <2>8. \A i \in DOMAIN ss2 : i \in DOMAIN ss \/ i = l + 1
      BY <2>7
  <2>9. \A i \in DOMAIN ss : i \in DOMAIN ss2 /\ ss2[i] = ss[i]
      BY <2>7
  <2>10. AreSkills(ss2)
    <3> SUFFICES ASSUME NEW i \in DOMAIN ss2 PROVE SkillOf(ss2[i], ss2[i].source) /\ IsFile(ss2[i].source.lines)
        BY <2>7 DEF AreSkills
    <3>1. CASE i = l + 1
        BY <1>11, <2>3, <2>4, <2>7, <3>1
    <3>2. CASE i \in DOMAIN ss
        BY <1>2, <2>9, <3>2 DEF AreSkills
    <3> QED
        BY <2>8, <3>1, <3>2
  <2>11. OfferedIn(R, e)
    <3>1. PICK r \in DOMAIN R : /\ C[k + 1] = FilesOf(R, r)
                                /\ \A j \in 1 .. r - 1 : \E b \in 1 .. (k + 1) - 1 : C[b] = FilesOf(R, j)
        BY <1>1, <1>6 DEF Listed
    <3>2. (k + 1) - 1 = k
        BY <1>3
    <3>3. e \in R[r].entries
        BY <1>6, <3>1 DEF FilesOf
    <3>4. ASSUME NEW j \in 1 .. r - 1, NEW d \in R[j].entries, CountsAsSkill(d), NameIn(d) = NameIn(e) PROVE FALSE
      <4>1. PICK b \in 1 .. k : C[b] = FilesOf(R, j)
          BY <3>1, <3>2
      <4>2. d \in C[b]
          BY <3>4, <4>1 DEF FilesOf, CountsAsSkill
      <4>3. SeenOf(C, ds, k, d)
          BY <4>2 DEF SeenOf
      <4>4. PICK i \in DOMAIN ss : ss[i].name = NameIn(d)
          BY <1>2, <3>4, <4>3
      <4> QED
          BY <2>2, <2>4, <3>4, <4>4
    <3> QED
        BY <2>4, <3>3, <3>4 DEF OfferedIn
  <2>12. \A i \in DOMAIN ss2 : OfferedIn(R, ss2[i].source)
      BY <1>2, <2>4, <2>7, <2>8, <2>9, <2>11
  <2>13. l + 1 \in DOMAIN ss2 /\ ss2[l + 1].name = NameIn(e)
      BY <2>4, <2>7
  <2>14. \A d : SeenOf(C, ds2, k, d) /\ CountsAsSkill(d) => \E i \in DOMAIN ss2 : ss2[i].name = NameIn(d)
    <3> SUFFICES ASSUME NEW d, SeenOf(C, ds2, k, d), CountsAsSkill(d) PROVE \E i \in DOMAIN ss2 : ss2[i].name = NameIn(d)
        OBVIOUS
    <3>1. CASE d = e
        BY <2>13, <3>1
    <3>2. CASE d # e
      <4>1. PICK i \in DOMAIN ss : ss[i].name = NameIn(d)
          BY <1>2, <1>10, <3>2
      <4> QED
          BY <2>9, <4>1
    <3> QED
        BY <3>1, <3>2
  <2> QED
      BY <1>9, <2>10, <2>12, <2>14 DEF LoadedFrom, C
<1> QED
    BY <1>12, <1>13

\* One directory.
LEMMA DirLoaded ==
    ASSUME NEW R, IsListing(R), NEW ds, NEW k, NEW ss, LoadedFrom(R, ds, k, ss), ds # <<>>, ds[1] = {},
           NEW ds2, ds2 = Tail(ds)
    PROVE  LoadedFrom(R, ds2, k + 1, ss)
<1> DEFINE C == CandidateDirs(R)
           n == Len(ds)
           S == {ds[i] : i \in DOMAIN ds}
<1>1. Listed(R, C)
    BY EveryDirListed
<1> HIDE DEF C
<1>2. /\ LeftOf(C, ds, k) /\ AreSkills(ss) /\ \A i \in DOMAIN ss : OfferedIn(R, ss[i].source)
      /\ \A d : SeenOf(C, ds, k, d) /\ CountsAsSkill(d) => \E i \in DOMAIN ss : ss[i].name = NameIn(d)
    BY DEF LoadedFrom, C
<1>3. ds \in Seq(S) /\ k \in Nat /\ k + n = Len(C) /\ \A i \in 2 .. n : ds[i] = C[k + i]
    BY <1>2 DEF LeftOf, IsSequence
<1> HIDE DEF S
<1>4. n \in Nat /\ n >= 1
  <2>1. n \in Nat /\ n # 0
      BY <1>3, EmptySeq, LenProperties
  <2> HIDE DEF n
  <2> QED
      BY <2>1
<1>5. ds2 \in Seq(S) /\ Len(ds2) = n - 1 /\ \A i \in 1 .. n - 1 : ds2[i] = ds[i + 1]
    BY <1>3, HeadTailProperties
<1> HIDE DEF n
<1>6. ds2 = [i \in 1 .. n - 1 |-> ds2[i]]
  <2>1. ds2 = [i \in 1 .. Len(ds2) |-> ds2[i]]
    <3>1. \A t \in Seq(S) : t = [i \in 1 .. Len(t) |-> t[i]]
        OBVIOUS
    <3> QED
        BY <1>5, <3>1, Zenon
  <2> QED
      BY <1>5, <2>1
<1>7. IsSequence(ds2)
  <2>1. n - 1 \in Nat
      BY <1>4
  <2> QED
      BY <1>6, <2>1, ListIsSequence DEF Lists
<1>8. ASSUME NEW i \in 1 .. n - 1 PROVE ds2[i] = C[k + 1 + i]
  <2>1. i + 1 \in 2 .. n /\ k + (i + 1) = k + 1 + i
      BY <1>3, <1>4
  <2>2. ds[i + 1] = C[k + (i + 1)]
      BY <1>3, <2>1
  <2> QED
      BY <1>5, <2>1, <2>2
<1>9. LeftOf(C, ds2, k + 1)
  <2>1. (k + 1) + (n - 1) = Len(C) /\ k + 1 \in Nat
      BY <1>3, <1>4
  <2>2. \A i \in 2 .. n - 1 : ds2[i] = C[k + 1 + i]
    <3>1. \A i \in 2 .. n - 1 : i \in 1 .. n - 1
        BY <1>4
    <3> QED
        BY <1>8, <3>1
  <2>3. n - 1 >= 1 => ds2[1] = C[k + 1 + 1]
    <3>1. n - 1 >= 1 => 1 \in 1 .. n - 1
        BY <1>4
    <3> QED
        BY <1>8, <3>1
  <2> QED
      BY <1>5, <1>7, <2>1, <2>2, <2>3 DEF LeftOf
<1>10. ASSUME NEW d, SeenOf(C, ds2, k + 1, d) PROVE SeenOf(C, ds, k, d)
  <2>1. CASE \E c \in 1 .. k + 1 : d \in C[c]
    <3>1. PICK c \in 1 .. k + 1 : d \in C[c]
        BY <2>1
    <3>2. c \in 1 .. k \/ c = k + 1
        BY <1>3
    <3>3. d \notin ds[1]
        OBVIOUS
    <3> QED
        BY <1>4, <3>1, <3>2, <3>3 DEF SeenOf, n
  <2>2. CASE Len(ds2) >= 1 /\ d \in C[k + 1 + 1] /\ d \notin ds2[1]
    <3>1. 1 \in 1 .. n - 1
        BY <1>4, <1>5, <2>2
    <3> QED
        BY <1>8, <2>2, <3>1
  <2> QED
      BY <1>10, <2>1, <2>2 DEF SeenOf
<1> QED
    BY <1>2, <1>9, <1>10 DEF LoadedFrom, C

\* At the end every skill that is offered alone is there.
LEMMA SoleIsLoaded ==
    ASSUME NEW R, IsListing(R), NEW k, NEW ss, LoadedFrom(R, <<>>, k, ss), NEW d, SoleIn(R, d)
    PROVE  \E i \in DOMAIN ss : ss[i].source = d
<1> DEFINE C == CandidateDirs(R)
<1>1. Listed(R, C)
    BY EveryDirListed
<1> HIDE DEF C
<1>2. /\ LeftOf(C, <<>>, k) /\ AreSkills(ss) /\ \A i \in DOMAIN ss : OfferedIn(R, ss[i].source)
      /\ \A e : SeenOf(C, <<>>, k, e) /\ CountsAsSkill(e) => \E i \in DOMAIN ss : ss[i].name = NameIn(e)
    BY DEF LoadedFrom, C
<1>3. DOMAIN C = 1 .. k
  <2>1. DOMAIN C = 1 .. Len(C) /\ Len(C) \in Nat
      BY <1>1, LenProperties DEF Listed, IsSequence
  <2>2. k \in Nat /\ k + Len(<<>>) = Len(C)
      BY <1>2 DEF LeftOf
  <2>3. Len(<<>>) = 0
      OBVIOUS
  <2>4. k + 0 = Len(C)
      BY <2>2, <2>3
  <2>5. k = Len(C)
      BY <2>2, <2>4
  <2> QED
      BY <2>1, <2>5
<1>4. PICK j \in DOMAIN R : d \in R[j].entries /\ CountsAsSkill(d)
    BY DEF SoleIn, OfferedIn
<1>5. PICK c \in DOMAIN C : C[c] = FilesOf(R, j)
    BY <1>1 DEF Listed
<1>6. d \in C[c]
    BY <1>4, <1>5 DEF FilesOf, CountsAsSkill
<1>7. SeenOf(C, <<>>, k, d)
    BY <1>3, <1>6 DEF SeenOf
<1>8. PICK i \in DOMAIN ss : ss[i].name = NameIn(d)
    BY <1>2, <1>4, <1>7
<1> DEFINE e == ss[i].source
<1>9. OfferedIn(R, e) /\ NameIn(e) = NameIn(d)
    BY <1>2, <1>8 DEF AreSkills, SkillOf
<1> HIDE DEF e
<1>10. e = d
    BY <1>9 DEF SoleIn, OfferedIn
<1> QED
    BY <1>10 DEF e

\* What the blocks of ctx may say, for the inputs g and the prompt p.
GoodBlock(g, p, block) ==
    LET e == block.hit.source
    IN  /\ g.hint /\ OfferedIn(g.roots, e) /\ WorthOf(e, p) > 0
        /\ \A d : SoleIn(g.roots, d) => NameIn(d) = NameIn(e) \/ WorthOf(d, p) <= WorthOf(e, p)
NoSkillShown(ctx) == \A i \in DOMAIN ctx : ctx[i].block # "skill"
Best(g, p, ctx) ==
    /\ IsSequence(ctx)
    /\ \A i \in DOMAIN ctx : ctx[i].block = "skill" => GoodBlock(g, p, ctx[i])
    /\ NoSkillShown(ctx) /\ g.hint => \A d : SoleIn(g.roots, d) => WorthOf(d, p) = 0

\* The inductive invariant of the hook.
HookInv ==
    /\ given \in HookInputs
    /\ stage \in {"start", "ask"} => skills = <<>>
    /\ stage = "load" =>
         /\ given.hint /\ IsSequence(context) /\ NoSkillShown(context)
         /\ \E k : LoadedFrom(given.roots, dirs, k, skills)
    /\ stage \in {"nag", "emit", "done"} => Best(given, prompt, context)

\* One block more.
LEMMA BlockAdded ==
    ASSUME NEW g, NEW p, NEW ctx, NEW b, IsSequence(ctx),
           \A i \in DOMAIN ctx : ctx[i].block = "skill" => GoodBlock(g, p, ctx[i]),
           b.block = "skill" => GoodBlock(g, p, b),
           NoSkillShown(ctx) /\ b.block # "skill" /\ g.hint => \A d : SoleIn(g.roots, d) => WorthOf(d, p) = 0
    PROVE  Best(g, p, Append(ctx, b))
<1> DEFINE c2 == Append(ctx, b)
           n == Len(ctx)
<1>0. Appended(ctx, b)
    BY AppendsOne
<1>1. /\ IsSequence(c2) /\ n \in Nat /\ DOMAIN ctx = 1 .. n /\ DOMAIN c2 = 1 .. n + 1
      /\ c2[n + 1] = b /\ \A i \in DOMAIN ctx : c2[i] = ctx[i]
    BY <1>0 DEF Appended
<1> HIDE DEF c2, n
<1>2. \A i \in DOMAIN c2 : i \in DOMAIN ctx \/ i = n + 1
    BY <1>1
<1>3. (\A i \in DOMAIN ctx : i \in DOMAIN c2) /\ n + 1 \in DOMAIN c2
    BY <1>1
<1>4. \A i \in DOMAIN c2 : c2[i].block = "skill" => GoodBlock(g, p, c2[i])
    BY <1>1, <1>2
<1>5. NoSkillShown(c2) => NoSkillShown(ctx) /\ b.block # "skill"
    BY <1>1, <1>3 DEF NoSkillShown
<1>6. Best(g, p, c2)
    BY <1>1, <1>4, <1>5 DEF Best
<1> QED
    BY <1>6 DEF c2

\* The inputs of a run.
LEMMA InputIsListing ==
    ASSUME NEW g \in HookInputs PROVE IsListing(g.roots)
BY HookAssumption

\* The hook keeps its invariant.
LEMMA HookKeepsInv == HookInv /\ [HookNext]_hookVars => HookInv'
<1> SUFFICES ASSUME HookInv, [HookNext]_hookVars PROVE HookInv'
    OBVIOUS
<1>0. given \in HookInputs /\ IsListing(given.roots)
    BY InputIsListing DEF HookInv
<1>1. CASE ReadInput
    BY <1>1 DEF ReadInput, HookInv
<1>2. ASSUME NEW blocks \in {<<>>, <<[block |-> "bundle"]>>}, Ask(blocks) PROVE HookInv'
  <2>1. stage = "ask" /\ context' = blocks /\ given' = given /\ prompt' = prompt /\ skills' = skills /\ skills = <<>>
      BY <1>2 DEF Ask, HookInv
  <2>2. IsSequence(blocks) /\ NoSkillShown(blocks)
    <3>1. CASE blocks = <<>>
        BY <3>1 DEF IsSequence, NoSkillShown
    <3>2. CASE blocks = <<[block |-> "bundle"]>>
      <4> DEFINE b == [block |-> "bundle"]
      <4>1. b.block # "skill"
          OBVIOUS
      <4> HIDE DEF b
      <4>2. blocks = <<b>>
          BY <3>2 DEF b
      <4>3. DOMAIN blocks = 1 .. 1 /\ blocks[1] = b /\ blocks \in Seq({b}) /\ {blocks[i] : i \in DOMAIN blocks} = {b}
          BY <4>2
      <4>4. IsSequence(blocks)
          BY <4>3 DEF IsSequence
      <4>5. NoSkillShown(blocks)
          BY <4>1, <4>3 DEF NoSkillShown
      <4> QED
          BY <4>4, <4>5
    <3> QED
        BY <3>1, <3>2
  <2>3. CASE given.hint /\ prompt # <<>>
    <3>1. stage' = "load" /\ dirs' = CandidateDirs(given.roots)
        BY <1>2, <2>3 DEF Ask
    <3>2. LoadedFrom(given'.roots, dirs', 0, skills')
        BY <1>0, <2>1, <3>1, NothingLoaded
    <3> QED
        BY <1>0, <2>1, <2>2, <2>3, <3>1, <3>2 DEF HookInv
  <2>4. CASE ~ (given.hint /\ prompt # <<>>)
    <3>1. stage' = "nag"
        BY <1>2, <2>4 DEF Ask
    <3>2. given.hint => \A d : SoleIn(given.roots, d) => WorthOf(d, prompt) = 0
        BY <2>4, NoPromptNoWorth
    <3>3. Best(given', prompt', context')
        BY <2>1, <2>2, <3>2 DEF Best, NoSkillShown
    <3> QED
        BY <1>0, <2>1, <3>1, <3>3 DEF HookInv
  <2> QED
      BY <2>3, <2>4
<1>3. ASSUME NEW e, LoadEntry(e) PROVE HookInv'
  <2> DEFINE new == {s \in ParseSkillFile(e) : \A i \in DOMAIN skills : skills[i].name # s.name}
  <2>1. /\ stage = "load" /\ dirs # <<>> /\ e \in dirs[1] /\ stage' = stage /\ given' = given
        /\ prompt' = prompt /\ context' = context
        /\ skills' = (IF new = {} THEN skills ELSE Append(skills, OneOf(new)))
        /\ dirs' = [dirs EXCEPT ![1] = @ \ {e}]
      BY <1>3 DEF LoadEntry
  <2>2. PICK k : LoadedFrom(given.roots, dirs, k, skills)
      BY <2>1 DEF HookInv
  <2>3. LoadedFrom(given.roots, dirs', k, skills')
    <3> DEFINE nw == new
    <3>1. nw = {s \in ParseSkillFile(e) : \A i \in DOMAIN skills : skills[i].name # s.name}
        OBVIOUS
    <3> HIDE DEF nw
    <3>2. skills' = IF nw = {} THEN skills ELSE Append(skills, OneOf(nw))
        BY <2>1 DEF nw
    <3> QED
        BY <1>0, <2>1, <2>2, <3>1, <3>2, EntryLoaded
  <2> QED
      BY <2>1, <2>3 DEF HookInv
<1>4. CASE NextDir
  <2>1. /\ stage = "load" /\ dirs # <<>> /\ dirs[1] = {} /\ stage' = stage /\ given' = given
        /\ prompt' = prompt /\ context' = context /\ skills' = skills /\ dirs' = Tail(dirs)
      BY <1>4 DEF NextDir
  <2>2. PICK k : LoadedFrom(given.roots, dirs, k, skills)
      BY <2>1 DEF HookInv
  <2>3. LoadedFrom(given.roots, dirs', k + 1, skills)
      BY <1>0, <2>1, <2>2, DirLoaded
  <2> QED
      BY <2>1, <2>3 DEF HookInv
<1>5. CASE HintAt
  <2> DEFINE hits == Suggest(prompt, 1)
             R == given.roots
  <2>1. /\ stage = "load" /\ dirs = <<>> /\ stage' = "nag" /\ given' = given /\ prompt' = prompt
        /\ context' = IF hits = <<>> THEN context
                      ELSE IF hits[1].confidence = "low" THEN context
                      ELSE Append(context, [block |-> "skill", hit |-> hits[1]])
      BY <1>5 DEF HintAt
  <2>2. PICK k : LoadedFrom(R, <<>>, k, skills)
      BY <2>1 DEF HookInv
  <2>3. AreSkills(skills) /\ \A i \in DOMAIN skills : OfferedIn(R, skills[i].source)
      BY <2>2 DEF LoadedFrom
  <2>4. \A d : SoleIn(R, d) => \E i \in DOMAIN skills : skills[i].source = d
      BY <1>0, <2>2, SoleIsLoaded
  <2>5. \/ NoHint(skills, prompt) /\ (hits = <<>> \/ hits[1].confidence = "low")
        \/ hits # <<>> /\ hits[1].confidence # "low" /\ Hinted(skills, prompt, hits[1])
      BY <2>3, SuggestsTheBest
  <2> HIDE DEF hits
  <2>6. given.hint /\ IsSequence(context) /\ NoSkillShown(context)
      BY <2>1 DEF HookInv
  <2>7. CASE NoHint(skills, prompt) /\ (hits = <<>> \/ hits[1].confidence = "low")
    <3>1. context' = context
        BY <2>1, <2>7
    <3>2. \A d : SoleIn(R, d) => WorthOf(d, prompt) = 0
        BY <2>4, <2>7 DEF NoHint
    <3>3. Best(given, prompt, context)
        BY <2>6, <3>2 DEF Best, NoSkillShown
    <3> QED
        BY <1>0, <2>1, <3>1, <3>3 DEF HookInv
  <2>8. CASE hits # <<>> /\ hits[1].confidence # "low" /\ Hinted(skills, prompt, hits[1])
    <3> DEFINE b == [block |-> "skill", hit |-> hits[1]]
    <3>1. context' = Append(context, b)
        BY <2>1, <2>8
    <3>2. b.block = "skill" /\ b.hit = hits[1]
        OBVIOUS
    <3> HIDE DEF b
    <3>3. PICK i \in DOMAIN skills :
             /\ hits[1].source = skills[i].source /\ WorthOf(skills[i].source, prompt) > 0
             /\ \A j \in DOMAIN skills : WorthOf(skills[j].source, prompt) <= WorthOf(skills[i].source, prompt)
        BY <2>8 DEF Hinted
    <3>4. GoodBlock(given, prompt, b)
        BY <2>3, <2>4, <2>6, <3>2, <3>3 DEF GoodBlock
    <3>5. Best(given, prompt, Append(context, b))
        BY <2>6, <3>2, <3>4, BlockAdded DEF NoSkillShown
    <3> QED
        BY <1>0, <2>1, <3>1, <3>5 DEF HookInv
  <2> QED
      BY <2>5, <2>7, <2>8
<1>6. CASE Nag
  <2>1. stage = "nag" /\ stage' = "emit" /\ given' = given /\ prompt' = prompt
      BY <1>6 DEF Nag
  <2>2. context' = context \/ context' = Append(context, [block |-> "stale"])
      BY <1>6 DEF Nag
  <2>3. Best(given, prompt, context)
      BY <2>1 DEF HookInv
  <2> DEFINE b == [block |-> "stale"]
  <2>4. b.block # "skill"
      OBVIOUS
  <2>5. context' = context \/ context' = Append(context, b)
      BY <2>2
  <2> HIDE DEF b
  <2>6. Best(given, prompt, Append(context, b))
      BY <2>3, <2>4, BlockAdded DEF Best
  <2> QED
      BY <1>0, <2>1, <2>3, <2>5, <2>6 DEF HookInv
<1>7. CASE Emit
    BY <1>7 DEF Emit, HookInv
<1>8. CASE UNCHANGED hookVars
    BY <1>8 DEF hookVars, HookInv
<1> QED
    BY <1>1, <1>2, <1>3, <1>4, <1>5, <1>6, <1>7, <1>8 DEF HookNext

\* It says what is prescribed.
LEMMA InvPrescribes == HookInv => PrescribesTheBest
<1> SUFFICES ASSUME HookInv, stage = "done" PROVE PrescribesTheBest
    BY DEF PrescribesTheBest
<1> DEFINE R == given.roots
<1>1. Best(given, prompt, context)
    BY DEF HookInv
<1>2. \A e : Worth(e) = WorthOf(e, prompt)
    BY DEF Worth, WorthOf, Value, Fits
<1>3. \A e : Offered(e) <=> OfferedIn(R, e)
    BY DEF Offered, Overridden, OfferedIn
<1>4. \A e : SoleOffer(e) <=> SoleIn(R, e)
    BY <1>3 DEF SoleOffer, SoleIn
<1> DEFINE shown == {i \in DOMAIN context : context[i].block = "skill"}
           others == {e \in UNION {given.roots[i].entries : i \in DOMAIN given.roots} : SoleOffer(e)}
<1>5. ASSUME NEW i \in shown
      PROVE  LET e == context[i].hit.source
             IN  /\ given.hint /\ Offered(e) /\ Worth(e) > 0
                 /\ \A d \in others : NameIn(d) = NameIn(e) \/ Worth(d) <= Worth(e)
  <2>1. GoodBlock(given, prompt, context[i])
      BY <1>1 DEF Best
  <2> QED
      BY <1>2, <1>3, <1>4, <2>1 DEF GoodBlock
<1>6. ASSUME shown = {}, given.hint PROVE \A d \in others : Worth(d) = 0
  <2>1. NoSkillShown(context)
      BY <1>6 DEF NoSkillShown
  <2> QED
      BY <1>1, <1>2, <1>4, <1>6, <2>1 DEF Best
<1> QED
    BY <1>5, <1>6 DEF PrescribesTheBest

\* The hook prescribes the offered skill that fits the prompt best by what the skill
\* files say, and prescribes none only when none is wanted or none fits: for every
\* listing of the directories, every file in them and every prompt.
THEOREM BestIsPrescribed == HookSpec => []PrescribesTheBest
<1>1. HookInit => HookInv
    BY DEF HookInit, HookInv
<1>2. HookInv /\ [HookNext]_hookVars => HookInv'
    BY HookKeepsInv
<1>3. HookInv => PrescribesTheBest
    BY InvPrescribes
<1> QED
    BY <1>1, <1>2, <1>3, PTL DEF HookSpec
=============================================================================
