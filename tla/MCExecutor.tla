----------------------------- MODULE MCExecutor -----------------------------
(***************************************************************************)
(* An instance of Executor for TLC: the first voice task releases two, one *)
(* of which waits for the other as well; after the voices an effect graph  *)
(* of one task.                                                            *)
(***************************************************************************)
EXTENDS Executor

MCGraph == [voice |-> <<{2, 3}, {3}, {}>>, fx |-> <<{}>>]
MCTasks == {<<"voice", k>> : k \in 1 .. 3} \cup {<<"fx", 1>>}
=============================================================================
