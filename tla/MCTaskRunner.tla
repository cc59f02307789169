---------------------------- MODULE MCTaskRunner ----------------------------
(* Two tasks of the runner with timeouts of their own, and a child of one. *)
EXTENDS TaskRunner, TLC
CONSTANTS t1, t2, c

MCParent  == (t1 :> Runner) @@ (t2 :> Runner) @@ (c :> t1)

MCSeconds == (t1 :> 1) @@ (t2 :> 2) @@ (c :> 0)
=============================================================================
