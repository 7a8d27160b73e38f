-------------------- MODULE MCLockFreeQueue --------------------
(* Instances of LockFreeQueue for TLC. *)
EXTENDS LockFreeQueue

CONSTANTS t1, t2

MCReads == (t1 :> {"pop"}) @@ (t2 :> {"peek", "drop"})
MCPops == [t \in {t1, t2} |-> {"pop"}]
=============================================================================
