---------------------------- MODULE MCThreadPool ----------------------------
(***************************************************************************)
(* Instance of ThreadPoolClient for TLC: up to two workers, tasks that add *)
(* tasks, a queue for two of them, every order of pause, resume and stop.  *)
(***************************************************************************)
EXTENDS ThreadPoolClient
=============================================================================
