----------------------------- MODULE MCJobQueue -----------------------------
(***************************************************************************)
(* TLC instances of JobQueue: one pool of workers.                         *)
(***************************************************************************)
EXTENDS JobQueue

OnePool == [w \in Workers |-> "parser"]
=============================================================================
