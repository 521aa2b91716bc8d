----------------------------- MODULE MCCommands -----------------------------
(***************************************************************************)
(* The commands of mneme that change something, each against kills,        *)
(* failing writes and files that change under it: install and its          *)
(* rollback, build and rebuild, audit with its scanner process.  They      *)
(* share no variable here, so a behaviour is one of one of them, the one   *)
(* in focus, and the others stay as they start.                            *)
(***************************************************************************)
EXTENDS Install, BuildPipeline, Audit

VARIABLE focus          \* "install", "build" or "audit"
commandVars == <<focus, installVars, buildVars, auditVars>>

\* Four files: findings of several severities and scanners that panic.
MCProject ==
    << [walk |-> "scan", finds |-> <<2, 0>>, panics |-> 1],
       [walk |-> "skip", finds |-> <<0>>, panics |-> 0],
       [walk |-> "unreadable", finds |-> <<>>, panics |-> 0],
       [walk |-> "scan", finds |-> <<3, 1>>, panics |-> 1] >>

CommandInit ==
    /\ focus \in {"install", "build", "audit"}
    /\ InstallInit /\ BuildInit /\ AuditInit
    /\ focus # "install" => \A f \in Files : files[f] = Gone

CommandNext ==
    \/ /\ focus = "install" /\ InstallNext
       /\ UNCHANGED <<focus, buildVars, auditVars>>
    \/ /\ focus = "build" /\ BuildNext
       /\ UNCHANGED <<focus, installVars, auditVars>>
    \/ /\ focus = "audit" /\ AuditNext
       /\ UNCHANGED <<focus, installVars, buildVars>>

CommandSpec == CommandInit /\ [][CommandNext]_commandVars
=============================================================================
