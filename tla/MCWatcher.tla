------------------------------ MODULE MCWatcher ------------------------------
(***************************************************************************)
(* The smallest instance of Watcher for TLC: symbols refer to themselves.  *)
(***************************************************************************)
EXTENDS Watcher

SelfCalls == [x \in Nodes |-> x]
=============================================================================
