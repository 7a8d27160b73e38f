------------------------------ MODULE Playback ------------------------------
(***************************************************************************)
(* From the keys and controls of a MIDI device to the voices of the        *)
(* instrument: in each chunk the executor takes the events from the        *)
(* controller driver, has the controller event manager sort them and the   *)
(* voice allocator follow them (execute_internal), and the tasks of the    *)
(* voices read the parameters and how long their note has been pressed and *)
(* released (task_functions_controller.cpp).                               *)
(*                                                                         *)
(* What the player does is a constant of a behaviour, when is not.         *)
(***************************************************************************)
EXTENDS VoiceAllocator, ControllerDriver, ControllerEvents

CONSTANTS
  Scripts,      \* bound: what the player may do, sequences of events
  Parameters,   \* the parameters tasks read
  Early,        \* how much later than the clock a buffer may be said to start
  LastTime      \* bound: of the clock

\* The events of a keyboard and its controls.
PlayerEvent ==
  [kind : {"on", "off"}, id : Notes, value : Int] \cup [kind : {"parameter"}, id : Nat, value : Int]

ASSUME PlaybackAssumption ==
  /\ Early \in Nat /\ LastTime \in Nat
  /\ Scripts \subseteq Seq(PlayerEvent)

VARIABLES
  script,       \* what the player has still to do
  bufferTime,   \* buffer_time_sec
  notes,        \* m_note_events not yet seen by allocate_voices_for_chunk
  memory,       \* of get_note_press_duration and get_note_release_duration, per voice
  keys,         \* history: the notes whose key is down, as far as the driver has said
  controls,     \* history: the values of the parameters before this chunk
  begun, letGo  \* history: the sample at which each voice began, and was released

callbackVars == <<bufferTime, notes, parameters>>
historyVars == <<keys, controls, begun, letGo>>
playbackVars == <<vars, driverVars, callbackVars, historyVars, memory, script>>

NewMemory == [pressed |-> 0, released |-> FALSE, releasedFor |-> 0]

PlaybackInit ==
  /\ Init /\ DriverInit
  /\ script \in Scripts
  /\ bufferTime = 0 /\ notes = <<>> /\ parameters = <<>>
  /\ memory = [v \in Voice |-> NewMemory]
  /\ keys = {} /\ controls = [id \in Parameters |-> 0]
  /\ begun = [v \in Voice |-> 0] /\ letGo = [v \in Voice |-> Never]

-----------------------------------------------------------------------------
(* The player and the clock.  While the voices are processed no step       *)
(* depends on what the player does, so the player waits then.              *)

Listening == phase = "idle"

Play ==
  /\ Listening /\ script # <<>>
  /\ Stamp(Head(script))
  /\ script' = Tail(script)
  /\ UNCHANGED <<vars, callbackVars, historyVars, memory>>

Deliver ==
  /\ Listening /\ Push
  /\ UNCHANGED <<vars, callbackVars, historyVars, memory, script>>

Tick ==
  /\ Listening /\ ~popping
  /\ TimePasses(LastTime)
  /\ UNCHANGED <<vars, callbackVars, historyVars, memory, script>>

-----------------------------------------------------------------------------
(* The begin of execute_internal                                           *)

\* The changes of a parameter up to a frame, and its value then.
ChangesUpTo(f, id) == {i \in DOMAIN taken : ~IsNote(taken[i]) /\ taken[i].event.id = id /\ taken[i].at <= f}
Value(f, id) ==
  IF ChangesUpTo(f, id) = {} THEN controls[id] ELSE taken[Max(ChangesUpTo(f, id))].event.value

\* The buffers follow each other, or there is a gap between them after a late callback.
TakeEvents ==
  /\ phase = "idle" /\ chunks < MaxChunks
  /\ bufferTime' \in bufferTime + Frames .. now + Early
  /\ BeginTaking(bufferTime', Frames)
  /\ controls' = [id \in Parameters |-> Value(Frames, id)]
  /\ UNCHANGED <<vars, notes, parameters, keys, begun, letGo, memory, script>>

TakeEvent ==
  /\ Take(Frames)
  /\ UNCHANGED <<vars, callbackVars, historyVars, memory, script>>

\* The key of a note is struck, or let go.
Strikes(e, n) == e.event.kind = "on" /\ e.event.id = n
LetsGo(e, n) == e.event.kind = "off" /\ e.event.id = n

\* The keys that are down after some events: not let go since they were struck.
Down(before, events) ==
  {n \in Notes : \E i \in 0 .. Len(events) :
     /\ IF i = 0 THEN n \in before ELSE Strikes(events[i], n)
     /\ \A j \in i + 1 .. Len(events) : ~LetsGo(events[j], n)}

\* c_controller_event_manager::process_controller_events(), and allocate_voices_for_chunk()
\* up to the first event.
ProcessControllerEvents ==
  LET sorted == MergeSorted(taken)
  IN  /\ EndTaking(Frames)
      /\ StartChunk
      /\ ProcessEvents(sorted, chunks')
      /\ notes' = NoteEvents(sorted)
      /\ keys' = Down(keys, taken)
      /\ UNCHANGED <<bufferTime, controls, begun, letGo, memory, script>>

\* The frame of a time, which just before the end of the chunk may be rounded up to it.
FrameOf(at) == {at} \cup (IF at = Frames - 1 THEN {Frames} ELSE {})

Sample(offset) == (chunks - 1) * Frames + offset

\* A note event of allocate_voices_for_chunk.
Press ==
  /\ notes # <<>> /\ Head(notes).event.kind = "on"
  /\ LET e == Head(notes)
         starting == {v \in {Chosen} : Holding(e.event.id) = {}}
     IN  /\ \E t \in FrameOf(e.at) : NoteOn(e.event.id, t)
         /\ begun' = [v \in Voice |-> IF v \in starting THEN Sample(e.at) ELSE begun[v]]
         /\ letGo' = [v \in Voice |-> IF v \in starting THEN Never ELSE letGo[v]]
  /\ notes' = Tail(notes)
  /\ UNCHANGED <<driverVars, bufferTime, parameters, keys, controls, memory, script>>

Release ==
  /\ notes # <<>> /\ Head(notes).event.kind = "off"
  /\ LET e == Head(notes)
         holding == {Playing[i] : i \in Holding(e.event.id)}
     IN  /\ \E t \in FrameOf(e.at) : NoteOff(e.event.id, t)
         /\ letGo' = [v \in Voice |-> IF v \in holding THEN Sample(e.at) ELSE letGo[v]]
  /\ notes' = Tail(notes)
  /\ UNCHANGED <<driverVars, bufferTime, parameters, keys, controls, begun, memory, script>>

NotesAllocated ==
  /\ notes = <<>>
  /\ EndEvents
  /\ UNCHANGED <<driverVars, callbackVars, historyVars, memory, script>>

-----------------------------------------------------------------------------
(* The tasks of a voice                                                    *)

\* What the interface of a voice (c_voice_interface) says of the release of its note.
ReleaseSample(v) == voices[v].releaseSample - voices[v].offset

\* get_note_press_duration and get_note_release_duration, in samples, at a frame.
PressDuration(m, f) == m.pressed + f

ReleaseDuration(m, release, f) ==
  LET first == IF release < 0 THEN 0 ELSE release
  IN  IF f < first \/ (~m.released /\ release < 0) THEN 0 ELSE m.releasedFor + f - first

\* A mutated Activated: the voice goes on with the memory it has.
ActivatedNot(v) == memory[v]

\* The voice activators run before a voice that has started in this chunk.
Activated(v) == IF voices[v].activatedThisChunk THEN NewMemory ELSE memory[v]

\* What the two functions leave in the memory.
AfterTasks(m, release, frames) ==
  LET released == m.released \/ release >= 0
  IN  [pressed |-> m.pressed + frames,
       released |-> released,
       releasedFor |-> IF released THEN m.releasedFor + frames ELSE m.releasedFor]

PlayVoice ==
  /\ ProcessVoice
  /\ memory' = [memory EXCEPT ![current] = AfterTasks(Activated(current), ReleaseSample(current),
                                                      Frames - voices[current].offset)]
  /\ UNCHANGED <<driverVars, callbackVars, historyVars, script>>

PlayRest ==
  /\ SkipVoice \/ EndVoices \/ ProcessFx
  /\ UNCHANGED <<driverVars, callbackVars, historyVars, memory, script>>

PlaybackNext ==
  \/ Play \/ Deliver \/ Tick
  \/ TakeEvents \/ TakeEvent \/ ProcessControllerEvents
  \/ Press \/ Release \/ NotesAllocated
  \/ PlayVoice \/ PlayRest

PlaybackSpec == PlaybackInit /\ [][PlaybackNext]_playbackVars

-----------------------------------------------------------------------------
(***************************************************************************)
(* When the events of a chunk are through, no voice holds a note whose key *)
(* is up, and the key struck last, if it is still down, has its voice:     *)
(* whatever was late, came together in one chunk or at the same time, the  *)
(* voices are left in the order of the player's hands (merge_sort,         *)
(* process_controller_events, allocate_voices_for_chunk).  What the driver *)
(* dropped the voices cannot follow.                                       *)
(***************************************************************************)
KeysAreFollowed ==
  phase = "events" /\ notes = <<>> =>
    /\ \A v \in Voice : voices[v].active /\ ~voices[v].released => voices[v].note \in keys
    /\ \A i \in DOMAIN taken :
         LET n == taken[i].event.id IN
         /\ Strikes(taken[i], n) /\ n \in keys
         /\ \A j \in i + 1 .. Len(taken) : taken[j].event.kind # "on"
         => Holding(n) # {}

(***************************************************************************)
(* In every frame a parameter has the value of the last change up to then, *)
(* be it of this chunk or of one long before, unless the table of          *)
(* parameters is full of others: then it is 0 (update_parameter_state,     *)
(* get_parameter_value).                                                   *)
(***************************************************************************)
Heard(id) == id \in DOMAIN parameters \/ Cardinality(DOMAIN parameters) < MaxParameters

ParametersCarry ==
  phase \in {"events", "voices", "fx"} =>
    \A id \in Parameters, f \in 0 .. Frames - 1 :
      ParameterValue(id, chunks, Frames)[f] = IF Heard(id) THEN Value(f, id) ELSE 0

(***************************************************************************)
(* A voice reads how long its note has been pressed and released, whenever *)
(* in a chunk it began or was released and whoever had the voice before.   *)
(* After the chunk of the release the duration of the release is too long: *)
(* by the samples the buffer had before it (get_note_release_duration).    *)
(***************************************************************************)
Excess(v, s) ==
  LET chunkOf(sample) == sample \div Frames
      buffer == IF chunkOf(begun[v]) = chunkOf(letGo[v]) THEN begun[v] ELSE chunkOf(letGo[v]) * Frames
  IN  IF chunkOf(s) = chunkOf(letGo[v]) THEN 0 ELSE letGo[v] - buffer

DurationsCount ==
  phase = "voices" /\ current \in Voice /\ voices[current].active =>
    \A f \in 0 .. Frames - 1 - voices[current].offset :
      LET s == Sample(voices[current].offset + f)
          m == Activated(current)
      IN  /\ PressDuration(m, f) = s - begun[current]
          /\ ReleaseDuration(m, ReleaseSample(current), f) =
               IF letGo[current] = Never \/ s < letGo[current] THEN 0
               ELSE s - letGo[current] + Excess(current, s)
=============================================================================
