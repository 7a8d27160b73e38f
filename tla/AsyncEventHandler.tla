------------------------- MODULE AsyncEventHandler -------------------------
(***************************************************************************)
(* c_async_event_handler (engine/events/async_event_handler.cpp): threads  *)
(* write events of different sizes into a ring buffer without locks, and   *)
(* one event thread, woken by a request or a timeout, handles and clears   *)
(* them.  Lengths and positions count units of k_buffer_alignment; an      *)
(* event takes one unit for its size and "size" units for its data.        *)
(*                                                                         *)
(* m_lock is held across no step: each critical section is one action, and *)
(* the last flush, made with the lock, runs when nobody else wants it.     *)
(***************************************************************************)
EXTENDS Integers, Sequences

CONSTANTS
  Threads,       \* threads that submit events
  BufferSize,    \* m_settings.buffer_size
  MaxEventSize,  \* m_settings.max_event_size
  MaxEvents,     \* bound: events submitted
  MaxRuns        \* bound: calls of begin_event_handling

ASSUME HandlerAssumption ==
  /\ BufferSize \in Nat /\ MaxEventSize \in Nat \ {0} /\ BufferSize > 1 + MaxEventSize
  /\ MaxEvents \in Nat /\ MaxRuns \in Nat

\* The tail spares events from wrapping around.
Unit == 0 .. BufferSize + MaxEventSize - 1
Position == 0 .. BufferSize - 1
Event == 1 .. MaxEvents   \* the k-th call of submit_event

Zero == <<"zero">>
SizeHeader(n) == <<"size", n>>
Data(e) == <<"data", e>>

VARIABLES
  buffer,         \* m_buffer: what each unit holds
  position,       \* m_read_write_position
  flushRequired,  \* m_flush_required
  terminate,      \* m_event_handling_thread_terminate_flag
  pc,             \* where each submitting thread is
  event, size,    \* event_data and event_size of its call
  old,            \* its old_position
  control,        \* the controlling thread, in begin and end_event_handling
  handler,        \* where the event thread is
  flushing,       \* its flush_required
  lastFlush,      \* it has seen the terminate flag
  cursor,         \* its current_position.read
  eventSize,      \* the size header it has read
  late,           \* the flush period has passed since the start
  runs, calls,
  reserved,       \* history: events in the order they got space, where, how long
  handled         \* history: what event_handler was called with, in order

vars == <<buffer, position, flushRequired, terminate, pc, event, size, old, control, handler,
          flushing, lastFlush, cursor, eventSize, late, runs, calls, reserved, handled>>
submitVars == <<pc, event, size, old, calls>>
handlerVars == <<handler, flushing, lastFlush, cursor, eventSize, late>>

Init ==
  /\ buffer = [u \in Unit |-> Zero]
  /\ position = [read |-> 0, write |-> 0]
  /\ flushRequired = FALSE /\ terminate = FALSE
  /\ pc = [t \in Threads |-> "idle"] /\ calls = 0
  /\ event = [t \in Threads |-> 0] /\ size = [t \in Threads |-> 0]
  /\ old = [t \in Threads |-> [read |-> 0, write |-> 0]]
  /\ control = "off" /\ runs = 0
  /\ handler = "ended" /\ flushing = FALSE /\ lastFlush = FALSE /\ cursor = 0 /\ eventSize = 0 /\ late = FALSE
  /\ reserved = <<>> /\ handled = <<>>

\* A mutated Advance: the position does not wrap around.
AdvanceOn(p, n) == p + n

Advance(p, n) == (p + n) % BufferSize

\* A mutated PassesC: stepping onto c does not count.
PassesStrictly(a, b, c) ==
  \/ a < c /\ c < b
  \/ b < a /\ a < c
  \/ c < b /\ b < a

\* does_a_to_b_pass_c: exactly two of the three comparisons hold.
PassesC(a, b, c) ==
  LET c1 == a < c
      c2 == c =< b
      c3 == b < a
  IN  (c1 /\ c2 /\ ~c3) \/ (c1 /\ c3 /\ ~c2) \/ (c2 /\ c3 /\ ~c1)

-----------------------------------------------------------------------------
(* The controlling thread                                                  *)

BeginEventHandling ==
  /\ control = "off" /\ runs < MaxRuns
  /\ runs' = runs + 1
  /\ flushRequired' = FALSE /\ terminate' = FALSE /\ late' = FALSE
  /\ position' = [read |-> 0, write |-> 0]
  /\ control' = "on" /\ handler' = "start" /\ lastFlush' = FALSE
  /\ UNCHANGED <<buffer, submitVars, flushing, cursor, eventSize, reserved, handled>>

\* notify_one to the event thread: lost unless it is waiting.
NotifyHandler == handler' = IF handler = "waiting" THEN "woken" ELSE handler

\* "event submission on all threads is first synchronously stopped"
EndEventHandling ==
  /\ control = "on" /\ \A t \in Threads : pc[t] = "idle"
  /\ terminate' = TRUE
  /\ NotifyHandler
  /\ control' = "join"
  /\ UNCHANGED <<buffer, position, flushRequired, submitVars, flushing, lastFlush, cursor, eventSize, late,
                 runs, reserved, handled>>

Joined ==
  /\ control = "join" /\ handler = "ended"
  /\ control' = "off"
  /\ UNCHANGED <<buffer, position, flushRequired, terminate, submitVars, handlerVars, runs,
                 reserved, handled>>

-----------------------------------------------------------------------------
(* submit_event                                                            *)

Goto(t, step) == pc' = [pc EXCEPT ![t] = step]

SubmitEvent(t) ==
  /\ control = "on" /\ pc[t] = "idle" /\ calls < MaxEvents
  /\ \E s \in 1 .. MaxEventSize : size' = [size EXCEPT ![t] = s]
  /\ calls' = calls + 1
  /\ event' = [event EXCEPT ![t] = calls']
  /\ Goto(t, "load")
  /\ UNCHANGED <<buffer, position, flushRequired, terminate, old, control, handlerVars, runs,
                 reserved, handled>>

NewWrite(t) == Advance(old[t].write, 1 + size[t])

Load(t) ==
  /\ pc[t] = "load"
  /\ old' = [old EXCEPT ![t] = position]
  /\ Goto(t, IF PassesC(position.write, Advance(position.write, 1 + size[t]), position.read)
             THEN "request" ELSE "cas")
  /\ UNCHANGED <<buffer, position, flushRequired, terminate, event, size, calls, control, handlerVars,
                 runs, reserved, handled>>

Reserve(t) ==
  /\ position' = [position EXCEPT !.write = NewWrite(t)]
  /\ reserved' = Append(reserved, [event |-> event[t], at |-> old[t].write, size |-> size[t]])
  /\ Goto(t, "copy")

\* A mutated Cas: the position is stored without looking at it again.
CasBlind(t) ==
  /\ pc[t] = "cas" /\ Reserve(t)
  /\ UNCHANGED <<buffer, flushRequired, terminate, event, size, old, calls, control, handlerVars, runs, handled>>

Cas(t) ==
  /\ pc[t] = "cas"
  /\ \/ position = old[t] /\ Reserve(t)
     \/ position # old[t] /\ Goto(t, "load") /\ UNCHANGED <<position, reserved>>
  /\ UNCHANGED <<buffer, flushRequired, terminate, event, size, old, calls, control, handlerVars, runs, handled>>

DataOf(at, n) == at + 1 .. at + n

Copy(t) ==
  /\ pc[t] = "copy"
  /\ buffer' = [u \in Unit |-> IF u \in DataOf(old[t].write, size[t]) THEN Data(event[t]) ELSE buffer[u]]
  /\ Goto(t, "publish")
  /\ UNCHANGED <<position, flushRequired, terminate, event, size, old, calls, control, handlerVars, runs,
                 reserved, handled>>

\* submit_event returns and its locals are gone.
Return(t) ==
  /\ Goto(t, "idle")
  /\ event' = [event EXCEPT ![t] = 0]
  /\ size' = [size EXCEPT ![t] = 0]
  /\ old' = [old EXCEPT ![t] = [read |-> 0, write |-> 0]]

\* The size makes the event visible; past the middle of the buffer it asks for a flush.
Publish(t) ==
  /\ pc[t] = "publish"
  /\ buffer' = [buffer EXCEPT ![old[t].write] = SizeHeader(size[t])]
  /\ IF PassesC(2 * old[t].write, 2 * NewWrite(t), (2 * old[t].read + BufferSize) % (2 * BufferSize))
     THEN Goto(t, "signal") /\ UNCHANGED <<event, size, old>>
     ELSE Return(t)
  /\ UNCHANGED <<position, flushRequired, terminate, calls, control, handlerVars, runs,
                 reserved, handled>>

SignalFlush(t) ==
  /\ pc[t] = "signal"
  /\ flushRequired' = TRUE
  /\ NotifyHandler
  /\ Return(t)
  /\ UNCHANGED <<buffer, position, terminate, calls, control, flushing, lastFlush, cursor, eventSize,
                 late, runs, reserved, handled>>

\* signal_flush_and_wait, up to the wait.
RequestFlush(t) ==
  /\ pc[t] = "request"
  /\ flushRequired' = TRUE
  /\ NotifyHandler
  /\ Goto(t, "waiting")
  /\ UNCHANGED <<buffer, position, terminate, event, size, old, calls, control, flushing, lastFlush, cursor, eventSize,
                 late, runs, reserved, handled>>

Retry(t) ==
  /\ pc[t] = "woken"
  /\ Goto(t, "load")
  /\ UNCHANGED <<buffer, position, flushRequired, terminate, event, size, old, calls, control, handlerVars,
                 runs, reserved, handled>>

SpuriousWake(t) ==
  /\ pc[t] = "waiting"
  /\ Goto(t, "woken")
  /\ UNCHANGED <<buffer, position, flushRequired, terminate, event, size, old, calls, control, handlerVars,
                 runs, reserved, handled>>

Submitting(t) ==
  Load(t) \/ Cas(t) \/ Copy(t) \/ Publish(t) \/ SignalFlush(t) \/ RequestFlush(t) \/ Retry(t)

-----------------------------------------------------------------------------
(* The event thread                                                        *)

\* A mutated Round: it flushes on request only.
RoundOnRequest ==
  /\ handler \in {"start", "woken"} /\ ~(handler = "woken" /\ terminate)
  /\ flushing' = flushRequired
  /\ handler' = IF flushRequired THEN "flush" ELSE "complete"
  /\ UNCHANGED <<buffer, position, flushRequired, terminate, submitVars, control, lastFlush, cursor,
                 eventSize, late, runs, reserved, handled>>

\* The head of the loop.  m_last_flush_time_ms keeps its first value: once the
\* period has passed, every round flushes.
Round ==
  /\ handler \in {"start", "woken"} /\ ~(handler = "woken" /\ terminate)
  /\ flushRequired' = (flushRequired \/ late)
  /\ flushing' = flushRequired'
  /\ handler' = IF flushRequired' THEN "flush" ELSE "complete"
  /\ UNCHANGED <<buffer, position, terminate, submitVars, control, lastFlush, cursor, eventSize,
                 late, runs, reserved, handled>>

Flush ==
  /\ handler = "flush"
  /\ cursor' = position.read
  /\ handler' = "read"
  /\ UNCHANGED <<buffer, position, flushRequired, terminate, submitVars, control, flushing, lastFlush,
                 eventSize, late, runs, reserved, handled>>

LastFlush ==
  /\ handler = "woken" /\ terminate
  /\ lastFlush' = TRUE
  /\ cursor' = position.read
  /\ handler' = "read"
  /\ UNCHANGED <<buffer, position, flushRequired, terminate, submitVars, control, flushing,
                 eventSize, late, runs, reserved, handled>>

\* The size at the cursor; zero at the end, or before an event still being written.
ReadSize ==
  /\ handler = "read"
  /\ \/ /\ buffer[cursor] = Zero
        /\ handler' = IF lastFlush THEN "ended" ELSE "complete"
        /\ cursor' = 0 /\ eventSize' = 0
     \/ /\ buffer[cursor] # Zero
        /\ \E s \in 1 .. MaxEventSize :
             /\ buffer[cursor] \in {SizeHeader(i) : i \in 1 .. MaxEventSize} => buffer[cursor] = SizeHeader(s)
             /\ eventSize' = s
        /\ handler' = "handle"
        /\ UNCHANGED cursor
  /\ UNCHANGED <<buffer, position, flushRequired, terminate, submitVars, control, flushing, lastFlush,
                 late, runs, reserved, handled>>

HandleEvent ==
  /\ handler = "handle"
  /\ handled' = Append(handled, [i \in 1 .. eventSize |-> buffer[cursor + i]])
  /\ handler' = "clear"
  /\ UNCHANGED <<buffer, position, flushRequired, terminate, submitVars, control, flushing, lastFlush,
                 cursor, eventSize, late, runs, reserved>>

Clear ==
  /\ handler = "clear"
  /\ buffer' = [u \in Unit |-> IF u \in cursor .. cursor + eventSize THEN Zero ELSE buffer[u]]
  /\ handler' = "advance"
  /\ UNCHANGED <<position, flushRequired, terminate, submitVars, control, flushing, lastFlush,
                 cursor, eventSize, late, runs, reserved, handled>>

\* execute_atomic keeps the write position it finds.
AdvanceRead ==
  /\ handler = "advance"
  /\ cursor' = Advance(cursor, 1 + eventSize)
  /\ position' = [position EXCEPT !.read = cursor']
  /\ handler' = "read"
  /\ UNCHANGED <<buffer, flushRequired, terminate, submitVars, control, flushing, lastFlush,
                 eventSize, late, runs, reserved, handled>>

\* With m_lock again: forget the request, tell who waits for the flush, and wait.
Complete ==
  /\ handler = "complete"
  /\ flushRequired' = (flushRequired /\ ~flushing)
  /\ pc' = [t \in Threads |-> IF pc[t] = "waiting" THEN "woken" ELSE pc[t]]
  /\ handler' = "waiting"
  /\ UNCHANGED <<buffer, position, terminate, event, size, old, calls, control, flushing, lastFlush, cursor,
                 eventSize, late, runs, reserved, handled>>

\* The wait lasts until the flush period has passed, or longer.
Timeout ==
  /\ handler = "waiting"
  /\ late' = TRUE
  /\ handler' = "woken"
  /\ UNCHANGED <<buffer, position, flushRequired, terminate, submitVars, control, flushing, lastFlush,
                 cursor, eventSize, runs, reserved, handled>>

\* The flush period passes while the event thread is busy or woken again and again.
PeriodPasses ==
  /\ handler # "ended" /\ ~late
  /\ late' = TRUE
  /\ UNCHANGED <<buffer, position, flushRequired, terminate, submitVars, control, handler, flushing,
                 lastFlush, cursor, eventSize, runs, reserved, handled>>

WakeEarly ==
  /\ handler = "waiting"
  /\ handler' = "woken"
  /\ UNCHANGED <<buffer, position, flushRequired, terminate, submitVars, control, flushing, lastFlush,
                 cursor, eventSize, late, runs, reserved, handled>>

Handling ==
  \/ Round \/ Flush \/ LastFlush \/ ReadSize \/ HandleEvent \/ Clear \/ AdvanceRead
  \/ Complete \/ Timeout

-----------------------------------------------------------------------------
Next ==
  \/ BeginEventHandling \/ EndEventHandling \/ Joined
  \/ \E t \in Threads : SubmitEvent(t) \/ Submitting(t) \/ SpuriousWake(t)
  \/ Handling \/ WakeEarly \/ PeriodPasses

\* Every thread keeps running, time passes, and a wait with a timeout ends.
Fairness ==
  /\ \A t \in Threads : WF_vars(Submitting(t))
  /\ WF_vars(Handling) /\ WF_vars(PeriodPasses) /\ WF_vars(Joined)

Spec == Init /\ [][Next]_vars /\ Fairness

-----------------------------------------------------------------------------
\* Every variable holds a value of its type.
TypeOK ==
  /\ buffer \in [Unit -> {Zero} \cup {SizeHeader(s) : s \in 1 .. MaxEventSize} \cup {Data(e) : e \in Event}]
  /\ position \in [read : Position, write : Position]
  /\ {flushRequired, terminate, flushing, lastFlush, late} \subseteq BOOLEAN
  /\ pc \in [Threads -> {"idle", "load", "cas", "copy", "publish", "signal", "request", "waiting", "woken"}]
  /\ event \in [Threads -> {0} \cup Event] /\ size \in [Threads -> 0 .. MaxEventSize]
  /\ old \in [Threads -> [read : Position, write : Position]]
  /\ control \in {"off", "on", "join"}
  /\ handler \in {"start", "flush", "read", "handle", "clear", "advance", "complete", "waiting",
                  "woken", "ended"}
  /\ cursor \in Position /\ eventSize \in 0 .. MaxEventSize
  /\ reserved \in Seq([event : Event, at : Position, size : 1 .. MaxEventSize])

Units(r) == r.at .. r.at + r.size
Content(r) == [i \in 1 .. r.size |-> Data(r.event)]

\* The events whose units are taken: those not handled, and the one being released.
InBuffer ==
  SubSeq(reserved, Len(handled) + (IF handler \in {"clear", "advance"} THEN 0 ELSE 1), Len(reserved))

\* Two events never share a unit of the buffer, and everything outside the events
\* is zero, as the event thread needs to find the end and begin_event_handling
\* needs to start over without clearing the buffer.
EventsApart ==
  /\ \A i, j \in DOMAIN InBuffer : i # j => Units(InBuffer[i]) \cap Units(InBuffer[j]) = {}
  /\ \A u \in Unit : buffer[u] # Zero => \E i \in DOMAIN InBuffer : u \in Units(InBuffer[i])

\* Events are handled whole, once, and in the order in which they were given
\* space, and when end_event_handling returns every event has been handled.
HandledInOrder ==
  /\ Len(handled) =< Len(reserved)
  /\ \A i \in DOMAIN handled : handled[i] = Content(reserved[i])
  /\ control = "off" => Len(handled) = Len(reserved)

\* Nobody waits for ever.  A submit_event returns: a full buffer is flushed, and
\* who waits for it is told.  When no more events come, those in the buffer are all
\* handled even if nobody asks for a flush or stops the thread.  And
\* end_event_handling returns, even if the event thread misses its notification.
NobodyWaitsForEver ==
  /\ \A t \in Threads : pc[t] # "idle" ~> pc[t] = "idle"
  /\ Len(handled) < Len(reserved) ~> Len(handled) = Len(reserved)
  /\ control = "join" ~> control = "off"
=============================================================================
