----------------------------- MODULE MCPlayback -----------------------------
(***************************************************************************)
(* Instance of Playback for TLC: chunks of two frames, three voices and    *)
(* room for three events.  One script plays more notes than there are      *)
(* voices and more events than the queue holds, one strikes a released key *)
(* again, one turns two controls where the table has room for one.         *)
(***************************************************************************)
EXTENDS Playback

On(n) == [kind |-> "on", id |-> n, value |-> 0]
Off(n) == [kind |-> "off", id |-> n, value |-> 0]
Turn(id, value) == [kind |-> "parameter", id |-> id, value |-> value]

MCScripts == {
  <<On(60), On(62), On(64), On(65)>>,
  <<On(60), Off(60), On(60)>>,
  <<Turn(1, 5), Turn(2, 6), Turn(1, 7)>>}
=============================================================================
