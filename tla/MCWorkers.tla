----------------------------- MODULE MCWorkers -----------------------------
(***************************************************************************)
(* The worker processes, each against full channels, failing steps, kills  *)
(* and requests that overlap: the parsers with the edits they hand to      *)
(* tree-sitter, the scanners, the brain, and the lifecycle requests of the *)
(* store.  They share no variable here, so a behaviour is one of one of    *)
(* them, the one in focus, and the others stay as they start.              *)
(***************************************************************************)
EXTENDS TLC, ParseWorker, InputEdit, ScanWorker, BrainWorker, StoreLifecycle

VARIABLE focus          \* the part whose behaviour this is
workerVars == <<focus, parseVars, inputEditVars, scanVars, brainVars, lifecycleVars>>

OneLayer == <<"graph">>
ConnSymmetry == Permutations(Conns)

\* With MaxRows = 1, a behaviour whose row is excused has nothing left to lose.
RowAtStake == acked = {} \/ acked \ excused # {}

WorkersInit ==
    /\ focus \in {"parse", "edit", "scan", "brain", "lifecycle"}
    /\ ParseInit /\ InputEditInit /\ ScanInit /\ BrainInit /\ LifecycleInit
    /\ focus # "edit" => cachedText = <<>>

WorkersNext ==
    \/ /\ focus = "parse" /\ ParseNext
       /\ UNCHANGED <<focus, inputEditVars, scanVars, brainVars, lifecycleVars>>
    \/ /\ focus = "edit" /\ InputEditNext
       /\ UNCHANGED <<focus, parseVars, scanVars, brainVars, lifecycleVars>>
    \/ /\ focus = "scan" /\ ScanNext
       /\ UNCHANGED <<focus, parseVars, inputEditVars, brainVars, lifecycleVars>>
    \/ /\ focus = "brain" /\ BrainNext
       /\ UNCHANGED <<focus, parseVars, inputEditVars, scanVars, lifecycleVars>>
    \/ /\ focus = "lifecycle" /\ RowAtStake /\ LifecycleNext
       /\ UNCHANGED <<focus, parseVars, inputEditVars, scanVars, brainVars>>

WorkersSpec == WorkersInit /\ [][WorkersNext]_workerVars
=============================================================================
