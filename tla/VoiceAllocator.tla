--------------------------- MODULE VoiceAllocator ---------------------------
(***************************************************************************)
(* c_voice_allocator (engine/executor/voice_allocator.cpp) as the audio    *)
(* callback uses it (executor.cpp): per chunk the note events give notes   *)
(* to voices, then each active voice is processed, then the effects, and   *)
(* the instrument says which remain active.  Voices stand in a linked      *)
(* array, inactive first, then active from oldest to newest.               *)
(*                                                                         *)
(* allocate_voices_for_chunk is StartChunk, one step for each note event,  *)
(* and EndEvents; Playback has the chunk's events.  Velocities are left    *)
(* out.                                                                    *)
(***************************************************************************)
EXTENDS Integers, Sequences, FiniteSets, SequencesExt

CONSTANTS
  Notes,           \* note_id
  MaxVoices,       \* max_voices
  Frames,          \* frames of a chunk
  VoiceLatency,    \* get_output_latency of the voice graph
  FxLatency,       \* get_output_latency of the FX graph
  MaxChunks        \* bound: chunks processed

ASSUME VoiceAssumption ==
  /\ MaxVoices \in Nat \ {0} /\ Frames \in Nat \ {0}
  /\ VoiceLatency \in Nat /\ FxLatency \in Nat /\ MaxChunks \in Nat

Voice == 0 .. MaxVoices - 1
Offset == 0 .. Frames - 1
Never == -1

List == INSTANCE LinkedArray WITH Count <- MaxVoices

VARIABLES
  voices,      \* m_voices
  list,        \* m_voice_list and m_voice_list_nodes
  graphs,      \* which of the instrument's two graphs there are
  fx,          \* m_fx_voice
  fxNeeded,    \* m_fx_needs_activation
  activateFx,  \* activate_fx
  phase,       \* where the callback is
  current,     \* voice_index of execute_internal
  chunks       \* how many there have been

vars == <<voices, list, graphs, fx, fxNeeded, activateFx, phase, current, chunks>>

NoVoice == [active |-> FALSE, activatedThisChunk |-> FALSE, released |-> FALSE, sampleIndex |-> 0,
            offset |-> 0, note |-> 0, releaseSample |-> 0]

\* The list initialize builds: a node for each voice, pushed in order.
Built[k \in 0 .. MaxVoices] ==
  IF k = 0 THEN List!Initialized
  ELSE LET a == Built[k - 1] IN List!PushBack(List!AllocateNode(a), a.free)

Init ==
  /\ voices = [v \in Voice |-> NoVoice]
  /\ list = Built[MaxVoices]
  /\ graphs \in {{"voice"}, {"fx"}, {"voice", "fx"}}
  /\ fx = [active |-> FALSE, activatedThisChunk |-> FALSE, sampleIndex |-> 0]
  /\ fxNeeded \in BOOLEAN
  /\ activateFx = FALSE
  /\ phase = "idle" /\ current = 0 /\ chunks = 0

-----------------------------------------------------------------------------
(* allocate_voices_for_chunk                                               *)

\* The voices a loop visits that goes from the back of the list to the first inactive one.
Playing ==
  LET back == List!FromBack(list)
      count == Cardinality({i \in DOMAIN back : \A j \in 1 .. i : voices[back[j]].active})
  IN  SubSeq(back, 1, count)

Holding(n) == {i \in DOMAIN Playing : voices[Playing[i]].note = n /\ ~voices[Playing[i]].released}

StartChunk ==
  /\ phase = "idle" /\ chunks < MaxChunks
  /\ chunks' = chunks + 1
  /\ activateFx' = ("fx" \in graphs /\ fxNeeded)
  /\ fxNeeded' = FALSE
  /\ voices' = [v \in Voice |->
       IF \E i \in DOMAIN Playing : Playing[i] = v
       THEN [voices[v] EXCEPT !.activatedThisChunk = FALSE, !.sampleIndex = 0, !.offset = 0,
                              !.releaseSample = Never]
       ELSE voices[v]]
  /\ fx' = [fx EXCEPT !.activatedThisChunk = IF fx.active THEN FALSE ELSE @]
  /\ phase' = "events"
  /\ UNCHANGED <<list, graphs, current>>

\* A mutated SampleOffset: nothing is clamped.
SampleOffsetRaw(t) == t

\* compute_sample_offset: a time close to the end of the chunk may be rounded up to it.
SampleOffset(t) == IF t > Frames - 1 THEN Frames - 1 ELSE t

\* A mutated Started: the release of the voice's last note is kept.
StartedReleased(v, n, t) ==
  [v EXCEPT !.active = TRUE, !.activatedThisChunk = TRUE, !.released = FALSE, !.sampleIndex = 0,
            !.offset = SampleOffset(t), !.note = n]

Started(v, n, t) ==
  [v EXCEPT !.active = TRUE, !.activatedThisChunk = TRUE, !.released = FALSE, !.sampleIndex = 0,
            !.offset = SampleOffset(t), !.note = n, !.releaseSample = Never]

\* A mutated Chosen: the newest voice gives way.
ChosenNewest == list.back

Chosen == list.front

\* A mutated ActivateFx: a note does not wake the effects.
ActivateFxLater == activateFx' = activateFx

ActivateFx == activateFx' = TRUE

NoteOn(n, t) ==
  /\ phase = "events"
  /\ \/ Holding(n) # {} /\ UNCHANGED <<voices, list, activateFx>>
     \/ /\ Holding(n) = {}
        /\ list' = List!PushBack(List!RemoveNode(list, Chosen), Chosen)
        /\ voices' = [voices EXCEPT ![Chosen] = Started(@, n, t)]
        /\ ActivateFx
  /\ UNCHANGED <<graphs, fx, fxNeeded, phase, current, chunks>>

NoteOff(n, t) ==
  /\ phase = "events"
  /\ voices' = [v \in Voice |->
       IF \E i \in Holding(n) : Playing[i] = v /\ \A j \in Holding(n) : i =< j
       THEN [voices[v] EXCEPT !.releaseSample = SampleOffset(t), !.released = TRUE]
       ELSE voices[v]]
  /\ UNCHANGED <<list, graphs, fx, fxNeeded, activateFx, phase, current, chunks>>

EndEvents ==
  /\ phase = "events"
  /\ fx' = IF "fx" \in graphs /\ activateFx /\ ~fx.active
           THEN [active |-> TRUE, activatedThisChunk |-> TRUE, sampleIndex |-> 0] ELSE fx
  /\ phase' = IF "voice" \in graphs THEN "voices" ELSE "fx"
  /\ current' = 0 /\ activateFx' = FALSE
  /\ UNCHANGED <<voices, list, graphs, fxNeeded, chunks>>

-----------------------------------------------------------------------------
(* execute_internal and process_instrument_stage                           *)

\* process_remain_active_output: the output cannot say "no" while the graph's
\* latency covers the chunk.  After that what its constant or the scan of its
\* samples says is a free choice.
RemainsActive(latency, sampleIndex, frames) ==
  IF latency - sampleIndex >= frames THEN {TRUE} ELSE BOOLEAN

\* A mutated DisableVoice: the voice keeps its place in the list.
DisableVoiceInPlace(v) ==
  /\ voices' = [voices EXCEPT ![v].active = FALSE, ![v].activatedThisChunk = FALSE,
                              ![v].sampleIndex = @ + Frames - voices[v].offset]
  /\ UNCHANGED list

DisableVoice(v) ==
  /\ voices' = [voices EXCEPT ![v].active = FALSE, ![v].activatedThisChunk = FALSE,
                              ![v].sampleIndex = @ + Frames - voices[v].offset]
  /\ list' = List!PushFront(List!RemoveNode(list, v), v)

ProcessVoice ==
  /\ phase = "voices" /\ current \in Voice /\ voices[current].active
  /\ LET frames == Frames - voices[current].offset IN
       /\ \E remain \in RemainsActive(VoiceLatency, voices[current].sampleIndex, frames) :
            IF remain
            THEN voices' = [voices EXCEPT ![current].sampleIndex = @ + frames] /\ UNCHANGED list
            ELSE DisableVoice(current)
  /\ current' = current + 1
  /\ UNCHANGED <<graphs, fx, fxNeeded, activateFx, phase, chunks>>

SkipVoice ==
  /\ phase = "voices" /\ current \in Voice /\ ~voices[current].active
  /\ current' = current + 1
  /\ UNCHANGED <<voices, list, graphs, fx, fxNeeded, activateFx, phase, chunks>>

EndVoices ==
  /\ phase = "voices" /\ current = MaxVoices
  /\ phase' = "fx" /\ current' = 0
  /\ UNCHANGED <<voices, list, graphs, fx, fxNeeded, activateFx, chunks>>

ProcessFx ==
  /\ phase = "fx"
  /\ \/ /\ fx.active
        /\ \E remain \in RemainsActive(FxLatency, fx.sampleIndex, Frames) :
             fx' = [active |-> remain, activatedThisChunk |-> remain /\ fx.activatedThisChunk,
                    sampleIndex |-> fx.sampleIndex + Frames]
     \/ ~fx.active /\ UNCHANGED fx
  /\ phase' = "idle"
  /\ UNCHANGED <<voices, list, graphs, fxNeeded, activateFx, current, chunks>>

-----------------------------------------------------------------------------
\* Every variable holds a value of its type.
TypeOK ==
  /\ voices \in [Voice -> [active : BOOLEAN, activatedThisChunk : BOOLEAN, released : BOOLEAN,
                           sampleIndex : 0 .. MaxChunks * Frames, offset : Offset,
                           note : Notes \cup {0}, releaseSample : Offset \cup {Never}]]
  /\ list \in List!ArrayType
  /\ graphs \subseteq {"voice", "fx"}
  /\ fx \in [active : BOOLEAN, activatedThisChunk : BOOLEAN, sampleIndex : 0 .. MaxChunks * Frames]
  /\ fxNeeded \in BOOLEAN /\ activateFx \in BOOLEAN
  /\ phase \in {"idle", "events", "voices", "fx"} /\ current \in 0 .. MaxVoices
  /\ chunks \in 0 .. MaxChunks

\* Both directions of the list show every voice once, in the same order, the
\* inactive voices first: each loop from the back meets all active voices, and
\* the front is inactive as long as any voice is.
VoiceListOrdered ==
  LET front == List!FromFront(list)
      back == List!FromBack(list)
  IN  /\ Len(front) = MaxVoices /\ Len(back) = MaxVoices
      /\ \A i \in 1 .. MaxVoices : front[i] = back[MaxVoices + 1 - i]
      /\ Voice = {front[i] : i \in 1 .. MaxVoices}
      /\ \A i, j \in 1 .. MaxVoices : i < j /\ voices[front[i]].active => voices[front[j]].active

\* The effects run in every chunk in which a note starts.
FxHearsNewNotes ==
  phase \in {"voices", "fx"} /\ "fx" \in graphs /\ (\E v \in Voice : voices[v].activatedThisChunk)
    => fx.active

\* The notes of the active voices, which are at the back of the list, from oldest to newest.
Sounding ==
  LET note == [v \in Voice |-> [note |-> voices[v].note, held |-> ~voices[v].released]]
      count == Cardinality({v \in Voice : voices[v].active})
  IN  [i \in 1 .. count |-> note[List!FromBack(list)[count + 1 - i]]]

Policy == INSTANCE VoicePolicy WITH sounding <- Sounding

\* Over the chunks the voices play the notes that VoicePolicy promises.
ImplementsPolicy == Policy!Spec

=============================================================================
