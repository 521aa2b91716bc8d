----------------------------- MODULE MCWaiting -----------------------------
(***************************************************************************)
(* What several parties wait for: changed files to be indexed (Watcher;    *)
(* the symbols of file "f" refer to those of "g", all others to            *)
(* themselves), the supervisor's stop (Shutdown), the lock of a project    *)
(* (BuildLock).  The three have no state in common, so a behaviour is one  *)
(* of one of them, the one in focus; the others stay as they start, and    *)
(* their fairness asks nothing of them.  Files and store fail only a user  *)
(* who waits for each change (WaitingProofs has the two together).         *)
(***************************************************************************)
EXTENDS Watcher, Shutdown, BuildLock

VARIABLE focus          \* "watcher", "stop" or "lock"
waitingVars == <<focus, vars, stopVars, lockVars>>

FCallsG == [x \in Nodes |-> IF x[1] = "f" THEN <<"g", x[2]>> ELSE x]

WaitingInit == focus \in {"watcher", "stop", "lock"} /\ Init /\ StopInit /\ LockInit

WaitingNext ==
    \/ /\ focus = "watcher" /\ Next /\ (missed' = {} \/ spaced')
       /\ UNCHANGED <<focus, stopVars, lockVars>>
    \/ focus = "stop" /\ StopNext /\ UNCHANGED <<focus, vars, lockVars>>
    \/ focus = "lock" /\ LockNext /\ UNCHANGED <<focus, vars, stopVars>>

InFocus(part, action) == focus = part /\ action

\* The fairness of FairSpec, FairStopSpec and FairLockSpec, each for the part in
\* focus.
WaitingSpec ==
    /\ WaitingInit /\ [][WaitingNext]_waitingVars
    /\ WF_vars(InFocus("watcher", Debounce \/ DebounceIgnored))
    /\ \A f \in Files : WF_vars(InFocus("watcher", Flush(f)))
    /\ \A j \in Jobs : WF_vars(InFocus("watcher", JobStep(j)))
    /\ WF_stopVars(InFocus("stop", MainStep))
    /\ SF_stopVars(InFocus("stop", SomeTaskStops))
    /\ \A t \in Tasks : WF_stopVars(InFocus("stop", TaskProceeds(t)))
    /\ \A b \in Builds : WF_lockVars(InFocus("lock", Step(b)))
=============================================================================
