------------------------ MODULE MCAsyncEventHandler ------------------------
(***************************************************************************)
(* Instance of AsyncEventHandler for TLC: two threads with three events    *)
(* of one or two units, in a ring with room for two events at most, so     *)
(* that it wraps around and fills up.                                      *)
(***************************************************************************)
EXTENDS AsyncEventHandler
=============================================================================
