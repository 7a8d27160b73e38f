---------------------------- MODULE VoicePolicy ----------------------------
(***************************************************************************)
(* What the voice allocator promises of the notes: the notes sounding, the *)
(* oldest first, and which of them are held.  A note that is held already  *)
(* does not start again; when all voices sound the oldest note gives way;  *)
(* a released note sounds until the instrument ends it.                    *)
(***************************************************************************)
EXTENDS Integers, Sequences, SequencesExt

CONSTANTS Notes, MaxVoices

VARIABLE sounding   \* sequence of [note, held]

Init == sounding = <<>>

Held(n) == {i \in DOMAIN sounding : sounding[i] = [note |-> n, held |-> TRUE]}

NoteOn(n) ==
  /\ Held(n) = {}
  /\ sounding' = Append(IF Len(sounding) = MaxVoices THEN Tail(sounding) ELSE sounding,
                        [note |-> n, held |-> TRUE])

NoteOff(n) == \E i \in Held(n) : sounding' = [sounding EXCEPT ![i].held = FALSE]

End == \E i \in DOMAIN sounding : sounding' = RemoveAt(sounding, i)

\* What changes, changes in one of these ways.
Next ==
  /\ sounding' # sounding
  /\ End \/ \E n \in Notes : NoteOn(n) \/ NoteOff(n)

Spec == Init /\ [][Next]_sounding
=============================================================================
