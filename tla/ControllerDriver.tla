-------------------------- MODULE ControllerDriver --------------------------
(***************************************************************************)
(* c_controller_driver_interface while its stream runs: the MIDI thread    *)
(* puts events with the time of their arrival into a lock-free queue, and  *)
(* at the begin of each chunk the audio thread takes those out whose time  *)
(* has come.  m_stream_lock lets one thread submit at a time, so the queue *)
(* has one producer and one consumer and is what FifoQueue promises.       *)
(*                                                                         *)
(* Times are in frames of the audio stream's clock.                        *)
(***************************************************************************)
EXTENDS Integers, Sequences

CONSTANTS
  QueueSize,       \* controller_event_queue_size, of the queue and of a chunk's events
  Padding,         \* k_controller_event_buffer_padding_sec
  UnknownLatency   \* settings.unknown_latency

ASSUME DriverAssumption == QueueSize \in Nat \ {0} /\ Padding \in Nat /\ UnknownLatency \in Nat

VARIABLES
  now,      \* the clock
  stamped,  \* what a thread with m_stream_lock is submitting, with its time: none or one
  waiting,  \* m_controller_event_queue
  popping,  \* the audio thread is taking events out
  start,    \* smallest_allowed_timestamp_sec
  taken     \* the events of the chunk, in the order they were taken

driverVars == <<now, stamped, waiting, popping, start, taken>>

DriverInit ==
  now = 0 /\ stamped = <<>> /\ waiting = <<>> /\ popping = FALSE /\ start = 0 /\ taken = <<>>

\* A pop under way may not have given its node back yet.
Room == {QueueSize - Len(waiting)} \cup (IF popping THEN {QueueSize - Len(waiting) - 1} ELSE {})

\* submit_controller_event() reads the clock...
Stamp(event) ==
  /\ stamped = <<>>
  /\ stamped' = <<[at |-> now, event |-> event]>>
  /\ UNCHANGED <<now, waiting, popping, start, taken>>

\* ...and pushes the event; what finds no room is dropped.
Push ==
  /\ stamped # <<>>
  /\ stamped' = <<>>
  /\ \/ (\E room \in Room : room > 0) /\ waiting' = waiting \o stamped
     \/ (\E room \in Room : room <= 0) /\ UNCHANGED waiting
  /\ UNCHANGED <<now, popping, start, taken>>

\* process_controller_events() asks for the events from before the buffer's time.
BeginTaking(bufferTime, duration) ==
  /\ ~popping
  /\ popping' = TRUE
  /\ start' = bufferTime - duration - UnknownLatency
  /\ taken' = <<>>
  /\ UNCHANGED <<now, stamped, waiting>>

\* peek(), and its answer that nothing has come before the chunk's end.
NothingDue(duration) == waiting # <<>> => Head(waiting).at >= start + duration

Relative(at) == IF at < start THEN 0 ELSE at - start

\* pop(): an event too old is dropped, and so is one too many.
Take(duration) ==
  /\ popping /\ ~NothingDue(duration)
  /\ waiting' = Tail(waiting)
  /\ LET element == Head(waiting) IN
     taken' = IF element.at - start >= -Padding /\ Len(taken) < QueueSize
              THEN Append(taken, [at |-> Relative(element.at), event |-> element.event])
              ELSE taken
  /\ UNCHANGED <<now, stamped, popping, start>>

EndTaking(duration) ==
  /\ popping /\ NothingDue(duration)
  /\ popping' = FALSE
  /\ UNCHANGED <<now, stamped, waiting, start, taken>>

TimePasses(end) ==
  /\ now < end
  /\ now' = now + 1
  /\ UNCHANGED <<stamped, waiting, popping, start, taken>>
=============================================================================
