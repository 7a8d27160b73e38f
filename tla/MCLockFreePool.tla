--------------------------- MODULE MCLockFreePool ---------------------------
(***************************************************************************)
(* Instance of LockFreePool for TLC: two threads make three calls each on  *)
(* a pool of three nodes, which lets one of them pop two nodes and push    *)
(* the first back while the other is halfway through a pop (the ABA case). *)
(***************************************************************************)
EXTENDS LockFreePool
=============================================================================
