---------------------- MODULE AsyncEventHandler_proofs ----------------------
(***************************************************************************)
(* Proofs about AsyncEventHandler for any finite or infinite set of        *)
(* threads, any buffer that is larger than the largest event, and any      *)
(* number of events and runs: events never overlap in the ring, although   *)
(* nobody locks it, and are handled whole, once and in order.              *)
(***************************************************************************)
EXTENDS AsyncEventHandler, SequenceTheorems, TLAPS

Entry == [event : Event, at : Position, size : 1 .. MaxEventSize]

\* What event_handler is called with.
Contents == {Content(r) : r \in Entry}

\* The units from a to b, going around the ring.
Distance(a, b) == IF a <= b THEN b - a ELSE b - a + BufferSize

\* The events in the buffer are those from this one on.
First == IF handler \in {"clear", "advance"} THEN Len(handled) ELSE Len(handled) + 1
Pending == First .. Len(reserved)

Typed ==
  /\ TypeOK /\ calls \in 0 .. MaxEvents /\ handled \in Seq(Contents)
  /\ First \in 1 .. Len(reserved) + 1

\* Where the events lie: one after the other from the read to the write position.
Ring ==
  /\ \A i \in Pending :
       Distance(position.read, reserved[i].at) + 1 + reserved[i].size
         <= Distance(position.read, position.write)
  /\ \A i, j \in Pending :
       i < j => Distance(position.read, reserved[i].at) + 1 + reserved[i].size
                  <= Distance(position.read, reserved[j].at)
  /\ \A i \in Pending :
       Advance(reserved[i].at, 1 + reserved[i].size)
         = IF i = Len(reserved) THEN position.write ELSE reserved[i + 1].at
  /\ position.read = IF Pending = {} THEN position.write ELSE reserved[First].at

\* What the calls of submit_event have to themselves.
Calls ==
  /\ \A t \in Threads : pc[t] # "idle" => /\ event[t] \in 1 .. calls /\ size[t] \in 1 .. MaxEventSize
                                          /\ control = "on"
  /\ \A t, v \in Threads : pc[t] # "idle" /\ pc[v] # "idle" /\ event[t] = event[v] => t = v
  /\ \A i \in DOMAIN reserved : reserved[i].event \in 1 .. calls
  /\ \A i, j \in DOMAIN reserved : reserved[i].event = reserved[j].event => i = j
  /\ \A t \in Threads :
       pc[t] \in {"load", "cas", "request", "waiting", "woken"} =>
         \A i \in DOMAIN reserved : reserved[i].event # event[t]
  /\ \A t \in Threads :
       pc[t] = "cas" => ~PassesC(old[t].write, NewWrite(t), old[t].read)
  /\ \A t \in Threads :
       pc[t] \in {"copy", "publish"} =>
         \E i \in Pending : reserved[i] = [event |-> event[t], at |-> old[t].write, size |-> size[t]]

\* The events that are being copied, and those copied without their size.
Copying == {event[t] : t \in {v \in Threads : pc[v] = "copy"}}
Unpublished == {event[t] : t \in {v \in Threads : pc[v] = "publish"}}

\* What the units of the events hold.
Filled ==
  \A i \in Pending : \A k \in 0 .. reserved[i].size :
    buffer[reserved[i].at + k] =
      IF \/ handler = "advance" /\ i = First
         \/ reserved[i].event \in Copying
         \/ k = 0 /\ reserved[i].event \in Unpublished
      THEN Zero
      ELSE IF k = 0 THEN SizeHeader(reserved[i].size) ELSE Data(reserved[i].event)

\* And all others.
Empty ==
  \A u \in Unit : (\A i \in Pending : u \notin Units(reserved[i])) => buffer[u] = Zero

\* The event thread handles the first event, which is complete.
Reading ==
  /\ handler \in {"read", "handle", "clear", "advance"} => cursor = position.read
  /\ handler \in {"handle", "clear", "advance"} =>
       /\ Pending # {} /\ eventSize = reserved[First].size
       /\ reserved[First].event \notin Copying \cup Unpublished

\* It ends when it is told to, and there is nothing left.
Ending ==
  /\ lastFlush => terminate
  /\ terminate => control # "on"
  /\ control = "off" => handler = "ended"
  /\ handler = "ended" => control # "on" /\ Len(handled) = Len(reserved)

InOrder == \A i \in DOMAIN handled : handled[i] = Content(reserved[i])

-----------------------------------------------------------------------------
(* Around the ring                                                         *)

LEMMA Remainder ==
  ASSUME NEW m \in Nat \ {0}, NEW a \in 0 .. 2 * m - 1
  PROVE  a % m = IF a < m THEN a ELSE a - m
<1>1. CASE a < m
  BY <1>1, SMT
<1>2. CASE a >= m
  <2>1. a - m \in 0 .. m - 1
    BY <1>2
  <2> QED
    BY <1>2, <2>1, SMT
<1> QED
  BY <1>1, <1>2

LEMMA AdvanceIs ==
  ASSUME NEW p \in Position, NEW n \in 0 .. BufferSize
  PROVE  /\ Advance(p, n) = IF p + n < BufferSize THEN p + n ELSE p + n - BufferSize
         /\ Advance(p, n) \in Position
<1>1. BufferSize \in Nat \ {0} /\ p + n \in 0 .. 2 * BufferSize - 1
  BY HandlerAssumption DEF Position
<1>2. \A a \in 0 .. 2 * BufferSize - 1 : a % BufferSize = IF a < BufferSize THEN a ELSE a - BufferSize
  BY <1>1, Remainder
<1> QED
  BY <1>1, <1>2 DEF Advance, Position

LEMMA DistanceType ==
  ASSUME NEW a \in Position, NEW b \in Position
  PROVE  Distance(a, b) \in 0 .. BufferSize - 1 /\ (Distance(a, b) = 0 <=> a = b)
BY HandlerAssumption DEF Distance, Position

\* does_a_to_b_pass_c tells whether there is room from c around to a for n more units
\* and one: a write position on the read position would mean an empty buffer.
LEMMA PassesIs ==
  ASSUME NEW a \in Position, NEW c \in Position, NEW n \in 1 .. 1 + MaxEventSize,
         ~PassesC(a, Advance(a, n), c)
  PROVE  /\ Distance(c, a) + n < BufferSize
         /\ Distance(c, Advance(a, n)) = Distance(c, a) + n
<1>1. n \in 0 .. BufferSize
  BY HandlerAssumption
<1>2. Advance(a, n) = IF a + n < BufferSize THEN a + n ELSE a + n - BufferSize
  BY <1>1, AdvanceIs
<1> QED
  BY <1>2, HandlerAssumption DEF PassesC, Distance, Position

\* Going on from a by no more than the distance to b makes the distance shorter by that.
LEMMA DistanceFrom ==
  ASSUME NEW a \in Position, NEW b \in Position, NEW n \in 0 .. BufferSize - 1,
         n <= Distance(a, b)
  PROVE  Distance(Advance(a, n), b) = Distance(a, b) - n
<1>1. n \in 0 .. BufferSize
  BY HandlerAssumption
<1>2. Advance(a, n) = IF a + n < BufferSize THEN a + n ELSE a + n - BufferSize
  BY <1>1, AdvanceIs
<1> QED
  BY <1>2, HandlerAssumption DEF Distance, Position

\* Events one after the other around the ring have no unit in common, although those at
\* the end of the buffer go on into its tail and not around it.
LEMMA Apart ==
  ASSUME NEW r \in Position, NEW a \in Position, NEW b \in Position,
         NEW m \in Nat, NEW n \in Nat,
         Distance(r, a) + 1 + m <= Distance(r, b), Distance(r, b) + 1 + n <= BufferSize,
         NEW j \in 0 .. m, NEW k \in 0 .. n
  PROVE  a + j # b + k
BY HandlerAssumption DEF Distance, Position

LEMMA UnitsOf ==
  ASSUME NEW r \in Entry
  PROVE  /\ \A u : u \in Units(r) <=> \E k \in 0 .. r.size : u = r.at + k
         /\ \A k \in 0 .. r.size : r.at + k \in Unit
<1>1. r.at \in 0 .. BufferSize - 1 /\ r.size \in 1 .. MaxEventSize
  BY DEF Entry, Position
<1>2. \A u \in r.at .. r.at + r.size : u - r.at \in 0 .. r.size /\ u = r.at + (u - r.at)
  BY <1>1, HandlerAssumption
<1> QED
  BY <1>1, <1>2, HandlerAssumption DEF Units, Unit

-----------------------------------------------------------------------------
(* The inductive invariant                                                 *)

Inv == Typed /\ Calls /\ Ring /\ Filled /\ Empty /\ Reading /\ Ending /\ InOrder

LEMMA Origin == [read |-> 0, write |-> 0] \in [read : Position, write : Position]
<1>1. 0 \in Position
  BY HandlerAssumption DEF Position
<1> QED
  BY <1>1

LEMMA InvInit == Init => Inv
<1> SUFFICES ASSUME Init PROVE Inv
  OBVIOUS
<1>1. 0 \in Position /\ 0 \in Nat
  BY HandlerAssumption DEF Position
<1>2. Len(reserved) = 0 /\ Len(handled) = 0 /\ reserved = <<>> /\ handled = <<>>
  BY DEF Init
<1>3. First = 1 /\ Pending = {}
  BY <1>2 DEF Init, First, Pending
<1>4. Typed
  <2>1. reserved \in Seq([event : Event, at : Position, size : 1 .. MaxEventSize]) /\ handled \in Seq(Contents)
    BY <1>2
  <2>2. position \in [read : Position, write : Position] /\ old \in [Threads -> [read : Position, write : Position]]
    BY Origin DEF Init
  <2>3. buffer \in [Unit -> {Zero} \cup {SizeHeader(s) : s \in 1 .. MaxEventSize} \cup {Data(e) : e \in Event}]
    BY DEF Init
  <2>4. /\ pc \in [Threads -> {"idle", "load", "cas", "copy", "publish", "signal", "request", "waiting", "woken"}]
        /\ event \in [Threads -> {0} \cup Event] /\ size \in [Threads -> 0 .. MaxEventSize]
        /\ cursor \in Position /\ eventSize \in 0 .. MaxEventSize
    BY <1>1, HandlerAssumption DEF Init
  <2>5. TypeOK
    BY <2>1, <2>2, <2>3, <2>4 DEF Init, TypeOK
  <2> QED
    BY <1>2, <1>3, <2>1, <2>5, HandlerAssumption DEF Init, Typed
<1>5. Calls
  BY <1>2 DEF Init, Calls
<1>6. Ring
  BY <1>3 DEF Init, Ring
<1>7. Filled /\ Empty
  BY <1>3 DEF Init, Filled, Empty
<1>8. Reading /\ Ending /\ InOrder
  BY <1>2 DEF Init, Reading, Ending, InOrder
<1> QED
  BY <1>4, <1>5, <1>6, <1>7, <1>8 DEF Inv

LEMMA EntryType ==
  ASSUME Typed
  PROVE  /\ reserved \in Seq(Entry) /\ Len(reserved) \in Nat /\ Len(handled) \in Nat
         /\ First \in Nat \ {0} /\ Pending \subseteq DOMAIN reserved /\ Pending \subseteq 1 .. Len(reserved)
         /\ \A i \in DOMAIN reserved : /\ reserved[i] \in Entry /\ reserved[i].at \in Position
                                       /\ reserved[i].size \in 1 .. MaxEventSize /\ reserved[i].event \in Event
         /\ position.read \in Position /\ position.write \in Position
<1>1. reserved \in Seq(Entry) /\ handled \in Seq(Contents) /\ First \in 1 .. Len(reserved) + 1
  BY DEF Typed, TypeOK, Entry
<1>2. Len(reserved) \in Nat /\ Len(handled) \in Nat /\ DOMAIN reserved = 1 .. Len(reserved)
      /\ \A i \in DOMAIN reserved : reserved[i] \in Entry
  BY <1>1
<1>3. \A r \in Entry : r.at \in Position /\ r.size \in 1 .. MaxEventSize /\ r.event \in Event
  BY DEF Entry
<1>4. position.read \in Position /\ position.write \in Position
  BY DEF Typed, TypeOK
<1>5. First \in Nat \ {0} /\ Pending \subseteq 1 .. Len(reserved)
  BY <1>1, <1>2 DEF Pending
<1> QED
  BY <1>1, <1>2, <1>3, <1>4, <1>5

\* What the event thread is about to handle is a whole event.
LEMMA Handles ==
  ASSUME Inv, handler = "handle"
  PROVE  /\ First \in Pending /\ First = Len(handled) + 1
         /\ [i \in 1 .. eventSize |-> buffer[cursor + i]] = Content(reserved[First])
<1>1. First \in Pending /\ First = Len(handled) + 1 /\ eventSize = reserved[First].size
      /\ reserved[First].event \notin Copying /\ position.read = reserved[First].at /\ cursor = position.read
  BY EntryType DEF Inv, Reading, Ring, First, Pending
<1>2. reserved[First] \in Entry /\ reserved[First].size \in 1 .. MaxEventSize
  BY <1>1, EntryType DEF Inv
<1>3. \A k \in 1 .. eventSize : buffer[cursor + k] = Data(reserved[First].event)
  BY <1>1, <1>2 DEF Inv, Filled
<1> QED
  BY <1>1, <1>3 DEF Content

-----------------------------------------------------------------------------
(* The types                                                               *)

LEMMA TypedStep == Inv /\ [Next]_vars => Typed'
<1> SUFFICES ASSUME Inv, [Next]_vars PROVE Typed'
  OBVIOUS
<1> USE HandlerAssumption
<1>0. /\ Typed /\ TypeOK /\ Calls /\ First \in 1 .. Len(reserved) + 1 /\ handled \in Seq(Contents)
      /\ calls \in 0 .. MaxEvents /\ reserved \in Seq(Entry) /\ Len(reserved) \in Nat /\ Len(handled) \in Nat
  BY EntryType DEF Inv, Typed
<1>1. ASSUME BeginEventHandling PROVE Typed'
  <2>1. First' = First /\ handler = "ended"
    BY <1>0, <1>1 DEF Inv, Ending, BeginEventHandling, First
  <2>2. position' \in [read : Position, write : Position]
    BY <1>1, Origin DEF BeginEventHandling
  <2> QED
    BY <1>0, <1>1, <2>1, <2>2 DEF BeginEventHandling, Typed, TypeOK, submitVars
<1>2. ASSUME EndEventHandling PROVE Typed'
  <2>1. First' = First
    BY <1>2 DEF EndEventHandling, NotifyHandler, First
  <2> QED
    BY <1>0, <1>2, <2>1 DEF EndEventHandling, NotifyHandler, Typed, TypeOK, submitVars
<1>3. ASSUME Joined PROVE Typed'
  <2>1. First' = First
    BY <1>3 DEF Joined, handlerVars, First
  <2> QED
    BY <1>0, <1>3, <2>1 DEF Joined, Typed, TypeOK, submitVars, handlerVars
<1>4. ASSUME NEW t \in Threads, SubmitEvent(t) PROVE Typed'
  <2>1. First' = First
    BY <1>4 DEF SubmitEvent, handlerVars, First
  <2> QED
    BY <1>0, <1>4, <2>1 DEF SubmitEvent, Goto, Typed, TypeOK, handlerVars, Event
<1>5. ASSUME NEW t \in Threads, Load(t) PROVE Typed'
  <2>1. First' = First
    BY <1>5 DEF Load, handlerVars, First
  <2> QED
    BY <1>0, <1>5, <2>1 DEF Load, Goto, Typed, TypeOK, handlerVars
<1>6. ASSUME NEW t \in Threads, Cas(t) PROVE Typed'
  <2>0. First' = First
    BY <1>6 DEF Cas, handlerVars, First
  <2>1. CASE position # old[t]
    BY <1>0, <1>6, <2>0, <2>1 DEF Cas, Goto, Typed, TypeOK, handlerVars
  <2>2. CASE Reserve(t)
    <3> DEFINE r == [event |-> event[t], at |-> old[t].write, size |-> size[t]]
    <3>1. event[t] \in 1 .. calls /\ size[t] \in 1 .. MaxEventSize /\ old[t].write \in Position
      BY <1>0, <1>6 DEF Cas, Calls, TypeOK
    <3>2. NewWrite(t) \in Position
      BY <3>1, AdvanceIs DEF NewWrite
    <3>3. r \in Entry /\ reserved' = Append(reserved, r)
      BY <1>0, <2>2, <3>1 DEF Reserve, Entry, Event
    <3>4. reserved' \in Seq(Entry) /\ Len(reserved') = Len(reserved) + 1
      BY <1>0, <3>3
    <3>5. position' \in [read : Position, write : Position]
      BY <1>0, <2>2, <3>2 DEF Reserve, TypeOK
    <3>6. reserved' \in Seq([event : Event, at : Position, size : 1 .. MaxEventSize])
      BY <3>4 DEF Entry
    <3>7. pc' = [pc EXCEPT ![t] = "copy"]
      BY <2>2 DEF Reserve, Goto
    <3>8. First' \in 1 .. Len(reserved') + 1
      BY <1>0, <2>0, <3>4
    <3> QED
      BY <1>0, <1>6, <3>5, <3>6, <3>7, <3>8 DEF Cas, Typed, TypeOK, handlerVars
  <2> QED
    BY <1>6, <2>1, <2>2 DEF Cas
<1>7. ASSUME NEW t \in Threads, Copy(t) PROVE Typed'
  <2>0. First' = First /\ event[t] \in Event
    BY <1>0, <1>7 DEF Copy, handlerVars, First, Calls, Event
  <2> QED
    BY <1>0, <1>7, <2>0 DEF Copy, Goto, Typed, TypeOK, handlerVars
<1>8. ASSUME NEW t \in Threads, Publish(t) PROVE Typed'
  <2>0. First' = First /\ size[t] \in 1 .. MaxEventSize
    BY <1>0, <1>8 DEF Publish, handlerVars, First, Calls
  <2>2. CASE Goto(t, "signal") /\ UNCHANGED <<event, size, old>>
    <3>1. buffer' \in [Unit -> {Zero} \cup {SizeHeader(s) : s \in 1 .. MaxEventSize} \cup {Data(e) : e \in Event}]
      BY <1>0, <1>8, <2>0 DEF Publish, TypeOK
    <3>2. pc' \in [Threads -> {"idle", "load", "cas", "copy", "publish", "signal", "request", "waiting", "woken"}]
      BY <1>0, <2>2 DEF Goto, TypeOK
    <3>3. UNCHANGED <<position, flushRequired, terminate, calls, control, handlerVars, runs, reserved, handled>>
      BY <1>8 DEF Publish
    <3> QED
      BY <1>0, <2>0, <2>2, <3>1, <3>2, <3>3 DEF Typed, TypeOK, handlerVars
  <2>3. CASE Return(t)
    <3>1. old' \in [Threads -> [read : Position, write : Position]] /\ event' \in [Threads -> {0} \cup Event]
          /\ size' \in [Threads -> 0 .. MaxEventSize]
      BY <1>0, <2>3, Origin DEF Return, TypeOK
    <3>2. buffer' \in [Unit -> {Zero} \cup {SizeHeader(s) : s \in 1 .. MaxEventSize} \cup {Data(e) : e \in Event}]
      BY <1>0, <1>8, <2>0 DEF Publish, TypeOK
    <3>3. pc' \in [Threads -> {"idle", "load", "cas", "copy", "publish", "signal", "request", "waiting", "woken"}]
      BY <1>0, <2>3 DEF Return, Goto, TypeOK
    <3>4. UNCHANGED <<position, flushRequired, terminate, calls, control, handlerVars, runs, reserved, handled>>
      BY <1>8 DEF Publish
    <3> QED
      BY <1>0, <2>0, <3>1, <3>2, <3>3, <3>4 DEF Typed, TypeOK, handlerVars
  <2> QED
    BY <1>8, <2>2, <2>3 DEF Publish
<1>9. ASSUME NEW t \in Threads, SignalFlush(t) PROVE Typed'
  <2>0. First' = First
    BY <1>9 DEF SignalFlush, NotifyHandler, First
  <2>1. old' \in [Threads -> [read : Position, write : Position]] /\ event' \in [Threads -> {0} \cup Event]
        /\ size' \in [Threads -> 0 .. MaxEventSize]
    BY <1>0, <1>9, Origin DEF SignalFlush, Return, TypeOK
  <2> QED
    BY <1>0, <1>9, <2>0, <2>1 DEF SignalFlush, NotifyHandler, Return, Goto, Typed, TypeOK
<1>10. ASSUME NEW t \in Threads, RequestFlush(t) PROVE Typed'
  <2>0. First' = First
    BY <1>10 DEF RequestFlush, NotifyHandler, First
  <2> QED
    BY <1>0, <1>10, <2>0 DEF RequestFlush, NotifyHandler, Goto, Typed, TypeOK
<1>11. ASSUME NEW t \in Threads, Retry(t) \/ SpuriousWake(t) PROVE Typed'
  <2>0. First' = First
    BY <1>11 DEF Retry, SpuriousWake, handlerVars, First
  <2> QED
    BY <1>0, <1>11, <2>0 DEF Retry, SpuriousWake, Goto, Typed, TypeOK, handlerVars
<1>12. ASSUME Round \/ Flush \/ LastFlush PROVE Typed'
  <2>0. First' = First
    BY <1>12 DEF Round, Flush, LastFlush, First
  <2> QED
    BY <1>0, <1>12, <2>0 DEF Round, Flush, LastFlush, Typed, TypeOK, submitVars
<1>13. ASSUME ReadSize PROVE Typed'
  <2>0. First' = First /\ 0 \in Position
    BY <1>13 DEF ReadSize, First, Position
  <2>1. cursor' \in Position /\ eventSize' \in 0 .. MaxEventSize /\ handler' \in {"ended", "complete", "handle"}
    BY <1>0, <1>13, <2>0 DEF ReadSize, TypeOK
  <2>2. UNCHANGED <<buffer, position, flushRequired, terminate, submitVars, control, flushing, lastFlush,
                 late, runs, reserved, handled>>
    BY <1>13 DEF ReadSize
  <2> QED
    BY <1>0, <2>0, <2>1, <2>2 DEF Typed, TypeOK, submitVars
<1>14. ASSUME HandleEvent PROVE Typed'
  <2>1. First \in Pending /\ First = Len(handled) + 1 /\ handled' = Append(handled, Content(reserved[First]))
    BY <1>14, Handles DEF HandleEvent
  <2>2. Content(reserved[First]) \in Contents
    BY <1>0, <2>1, EntryType DEF Contents
  <2>3. handled' \in Seq(Contents) /\ Len(handled') = Len(handled) + 1
    BY <1>0, <2>1, <2>2
  <2>4. First' = First
    BY <1>14, <2>1, <2>3 DEF HandleEvent, First
  <2> QED
    BY <1>0, <1>14, <2>3, <2>4 DEF HandleEvent, Typed, TypeOK, submitVars
<1>15. ASSUME Clear PROVE Typed'
  <2>0. First' = First
    BY <1>15 DEF Clear, First
  <2> QED
    BY <1>0, <1>15, <2>0 DEF Clear, Typed, TypeOK, submitVars
<1>16. ASSUME AdvanceRead PROVE Typed'
  <2>0. First' = First + 1 /\ First =< Len(reserved)
    BY <1>0, <1>16 DEF AdvanceRead, First, Inv, Reading, Pending
  <2>1. cursor \in Position /\ 1 + eventSize \in 0 .. BufferSize
    BY <1>0 DEF TypeOK
  <2>2. cursor' \in Position
    BY <1>16, <2>1, AdvanceIs DEF AdvanceRead
  <2>3. position' \in [read : Position, write : Position]
    BY <1>0, <1>16, <2>2 DEF AdvanceRead, TypeOK
  <2>4. First' \in 1 .. Len(reserved') + 1
    BY <1>0, <1>16, <2>0 DEF AdvanceRead
  <2> QED
    BY <1>0, <1>16, <2>2, <2>3, <2>4 DEF AdvanceRead, Typed, TypeOK, submitVars
<1>17. ASSUME Complete PROVE Typed'
  <2>0. First' = First
    BY <1>17 DEF Complete, First
  <2> QED
    BY <1>0, <1>17, <2>0 DEF Complete, Typed, TypeOK
<1>18. ASSUME Timeout \/ PeriodPasses \/ WakeEarly PROVE Typed'
  <2>0. First' = First
    BY <1>18 DEF Timeout, PeriodPasses, WakeEarly, First
  <2> QED
    BY <1>0, <1>18, <2>0 DEF Timeout, PeriodPasses, WakeEarly, Typed, TypeOK, submitVars
<1>19. ASSUME UNCHANGED vars PROVE Typed'
  <2>0. First' = First
    BY <1>19 DEF vars, submitVars, handlerVars, First
  <2> QED
    BY <1>0, <1>19, <2>0 DEF vars, Typed, TypeOK, submitVars, handlerVars
<1> QED
  BY <1>1, <1>2, <1>3, <1>4, <1>5, <1>6, <1>7, <1>8, <1>9, <1>10, <1>11, <1>12, <1>13, <1>14, <1>15,
     <1>16, <1>17, <1>18, <1>19 DEF Next, Submitting, Handling

-----------------------------------------------------------------------------
(* The calls                                                               *)

\* A step that nothing of this is about.
LEMMA CallsSame ==
  ASSUME Calls, UNCHANGED <<submitVars, control, reserved>>, First' = First
  PROVE  Calls'
BY DEF Calls, submitVars, Pending, NewWrite

LEMMA CallsStep == Inv /\ [Next]_vars => Calls'
<1> SUFFICES ASSUME Inv, [Next]_vars PROVE Calls'
  OBVIOUS
<1>0. /\ Calls /\ TypeOK /\ First \in 1 .. Len(reserved) + 1 /\ calls \in 0 .. MaxEvents
      /\ reserved \in Seq(Entry) /\ Len(reserved) \in Nat /\ Len(handled) \in Nat
  BY EntryType DEF Inv, Typed
<1> DEFINE Has(t) == \E i \in Pending : reserved[i] = [event |-> event[t], at |-> old[t].write, size |-> size[t]]
<1>1. ASSUME BeginEventHandling \/ EndEventHandling \/ Joined PROVE Calls'
  <2>1. \A t \in Threads : pc[t] = "idle"
    BY <1>0, <1>1 DEF BeginEventHandling, EndEventHandling, Joined, Calls
  <2>2. UNCHANGED <<pc, calls, reserved>>
    BY <1>1 DEF BeginEventHandling, EndEventHandling, Joined, submitVars
  <2> QED
    BY <1>0, <2>1, <2>2 DEF Calls
<1>2. ASSUME NEW t \in Threads, SubmitEvent(t) PROVE Calls'
  <2>1. /\ pc' = [pc EXCEPT ![t] = "load"] /\ calls' = calls + 1 /\ event' = [event EXCEPT ![t] = calls']
        /\ control = "on" /\ pc[t] = "idle"
        /\ UNCHANGED <<old, control, reserved>> /\ size'[t] \in 1 .. MaxEventSize
        /\ \A v \in Threads : v # t => size'[v] = size[v]
    BY <1>0, <1>2 DEF SubmitEvent, Goto, TypeOK
  <2>2. First' = First
    BY <1>2 DEF SubmitEvent, handlerVars, First
  <2>3. /\ pc'[t] = "load" /\ event'[t] = calls + 1
        /\ \A v \in Threads : v # t => pc'[v] = pc[v] /\ event'[v] = event[v] /\ size'[v] = size[v]
    BY <1>0, <2>1 DEF TypeOK
  <2>4. \A v \in Threads : pc'[v] # "idle" => event'[v] \in 1 .. calls' /\ size'[v] \in 1 .. MaxEventSize
                                              /\ control' = "on"
    BY <1>0, <2>1, <2>3 DEF Calls
  <2>5. \A v, w \in Threads : pc'[v] # "idle" /\ pc'[w] # "idle" /\ event'[v] = event'[w] => v = w
    BY <1>0, <2>1, <2>3 DEF Calls
  <2>6. /\ \A i \in DOMAIN reserved' : reserved'[i].event \in 1 .. calls'
        /\ \A i, j \in DOMAIN reserved' : reserved'[i].event = reserved'[j].event => i = j
    BY <1>0, <2>1 DEF Calls
  <2>7. \A v \in Threads :
          pc'[v] \in {"load", "cas", "request", "waiting", "woken"} =>
            \A i \in DOMAIN reserved' : reserved'[i].event # event'[v]
    BY <1>0, <2>1, <2>3 DEF Calls
  <2>8. \A v \in Threads : pc'[v] \in {"cas", "copy", "publish"} => v # t /\ pc[v] = pc'[v]
    BY <2>3
  <2>9. \A v \in Threads : pc'[v] = "cas" => ~PassesC(old'[v].write, NewWrite(v)', old'[v].read)
    BY <1>0, <2>1, <2>3, <2>8 DEF Calls, NewWrite
  <2>10. Pending' = Pending
    BY <2>1, <2>2 DEF Pending
  <2>11. \A v \in Threads :
       pc'[v] \in {"copy", "publish"} =>
         \E i \in Pending' : reserved'[i] = [event |-> event'[v], at |-> old'[v].write, size |-> size'[v]]
    BY <1>0, <2>1, <2>3, <2>8, <2>10 DEF Calls
  <2> QED
    BY <2>4, <2>5, <2>6, <2>7, <2>9, <2>11 DEF Calls
<1>3. ASSUME NEW t \in Threads, Load(t) PROVE Calls'
  <2>1. /\ pc[t] = "load" /\ pc'[t] \in {"request", "cas"} /\ old'[t] = position
        /\ (pc'[t] = "cas" => ~PassesC(position.write, Advance(position.write, 1 + size[t]), position.read))
        /\ \A v \in Threads : v # t => pc'[v] = pc[v] /\ old'[v] = old[v]
        /\ UNCHANGED <<event, size, calls, control, reserved>>
    BY <1>0, <1>3 DEF Load, Goto, TypeOK
  <2>2. First' = First /\ Pending' = Pending
    BY <1>3 DEF Load, handlerVars, First, Pending
  <2>3. \A v \in Threads : (v # t => NewWrite(v)' = NewWrite(v)) /\ NewWrite(t)' = Advance(position.write, 1 + size[t])
    BY <2>1 DEF NewWrite
  <2>4. \A v \in Threads : pc'[v] # "idle" => /\ event'[v] \in 1 .. calls' /\ size'[v] \in 1 .. MaxEventSize
                                                  /\ control' = "on"
    BY <1>0, <2>1, <2>2, <2>3 DEF Calls
  <2>5. \A v, w \in Threads : pc'[v] # "idle" /\ pc'[w] # "idle" /\ event'[v] = event'[w] => v = w
    BY <1>0, <2>1, <2>2, <2>3 DEF Calls
  <2>6. /\ \A i \in DOMAIN reserved' : reserved'[i].event \in 1 .. calls'
        /\ \A i, j \in DOMAIN reserved' : reserved'[i].event = reserved'[j].event => i = j
    BY <1>0, <2>1, <2>2, <2>3 DEF Calls
  <2>7. \A v \in Threads :
          pc'[v] \in {"load", "cas", "request", "waiting", "woken"} =>
            \A i \in DOMAIN reserved' : reserved'[i].event # event'[v]
    BY <1>0, <2>1, <2>2, <2>3 DEF Calls
  <2>8. \A v \in Threads : pc'[v] = "cas" => ~PassesC(old'[v].write, NewWrite(v)', old'[v].read)
    BY <1>0, <2>1, <2>2, <2>3 DEF Calls
  <2>9. \A v \in Threads :
        pc'[v] \in {"copy", "publish"} =>
          \E i \in Pending' : reserved'[i] = [event |-> event'[v], at |-> old'[v].write, size |-> size'[v]]
    <3> SUFFICES ASSUME NEW v \in Threads, pc'[v] \in {"copy", "publish"} PROVE Has(v)'
      OBVIOUS
    <3>1. v # t /\ pc[v] = pc'[v] /\ old'[v] = old[v]
      BY <2>1
    <3>2. PICK i \in Pending : reserved[i] = [event |-> event[v], at |-> old[v].write, size |-> size[v]]
      BY <1>0, <3>1 DEF Calls
    <3> QED
      BY <2>1, <2>2, <3>1, <3>2
  <2> QED
    BY <2>4, <2>5, <2>6, <2>7, <2>8, <2>9 DEF Calls
<1>4. ASSUME NEW t \in Threads, Cas(t), position # old[t] PROVE Calls'
  <2>1. /\ pc[t] = "cas" /\ pc'[t] = "load" /\ \A v \in Threads : v # t => pc'[v] = pc[v]
        /\ UNCHANGED <<old, event, size, calls, control, reserved>>
    BY <1>0, <1>4 DEF Cas, Goto, TypeOK
  <2>2. First' = First /\ Pending' = Pending
    BY <1>4 DEF Cas, handlerVars, First, Pending
  <2>3. \A v \in Threads : NewWrite(v)' = NewWrite(v)
    BY <2>1 DEF NewWrite
  <2>4. \A v \in Threads : pc'[v] # "idle" => /\ event'[v] \in 1 .. calls' /\ size'[v] \in 1 .. MaxEventSize
                                              /\ control' = "on"
    BY <1>0, <2>1, <2>2, <2>3 DEF Calls
  <2>5. \A v, w \in Threads : pc'[v] # "idle" /\ pc'[w] # "idle" /\ event'[v] = event'[w] => v = w
    BY <1>0, <2>1, <2>2, <2>3 DEF Calls
  <2>6. /\ \A i \in DOMAIN reserved' : reserved'[i].event \in 1 .. calls'
        /\ \A i, j \in DOMAIN reserved' : reserved'[i].event = reserved'[j].event => i = j
    BY <1>0, <2>1, <2>2, <2>3 DEF Calls
  <2>7. \A v \in Threads :
          pc'[v] \in {"load", "cas", "request", "waiting", "woken"} =>
            \A i \in DOMAIN reserved' : reserved'[i].event # event'[v]
    BY <1>0, <2>1, <2>2, <2>3 DEF Calls
  <2>8. \A v \in Threads : pc'[v] = "cas" => ~PassesC(old'[v].write, NewWrite(v)', old'[v].read)
    BY <1>0, <2>1, <2>2, <2>3 DEF Calls
  <2>9. \A v \in Threads :
          pc'[v] \in {"copy", "publish"} =>
            \E i \in Pending' : reserved'[i] = [event |-> event'[v], at |-> old'[v].write, size |-> size'[v]]
    BY <1>0, <2>1, <2>2, <2>3 DEF Calls
  <2> QED
    BY <2>4, <2>5, <2>6, <2>7, <2>8, <2>9 DEF Calls
<1>5. ASSUME NEW t \in Threads, Cas(t), Reserve(t) PROVE Calls'
  <2> DEFINE r == [event |-> event[t], at |-> old[t].write, size |-> size[t]]
  <2>1. /\ pc[t] = "cas" /\ pc'[t] = "copy" /\ \A v \in Threads : v # t => pc'[v] = pc[v]
        /\ UNCHANGED <<old, event, size, calls, control>> /\ reserved' = Append(reserved, r)
    BY <1>0, <1>5 DEF Cas, Reserve, Goto, TypeOK
  <2>2. First' = First
    BY <1>5 DEF Cas, handlerVars, First
  <2>3. /\ Len(reserved') = Len(reserved) + 1 /\ DOMAIN reserved' = 1 .. Len(reserved) + 1
        /\ DOMAIN reserved = 1 .. Len(reserved)
        /\ \A i \in DOMAIN reserved : reserved'[i] = reserved[i]
        /\ reserved'[Len(reserved) + 1] = r
    BY <1>0, <2>1
  <2>4. Pending \subseteq Pending' /\ Len(reserved) + 1 \in Pending' /\ Pending \subseteq DOMAIN reserved
    BY <1>0, <2>2, <2>3 DEF Pending
  <2>5. event[t] \in 1 .. calls /\ \A i \in DOMAIN reserved : reserved[i].event # event[t]
    BY <1>0, <2>1 DEF Calls
  <2>6. \A v \in Threads : pc'[v] # "idle" => event'[v] \in 1 .. calls' /\ size'[v] \in 1 .. MaxEventSize
                                              /\ control' = "on"
    BY <1>0, <2>1 DEF Calls
  <2>7. \A v, w \in Threads : pc'[v] # "idle" /\ pc'[w] # "idle" /\ event'[v] = event'[w] => v = w
    BY <1>0, <2>1 DEF Calls
  <2>8. \A i \in DOMAIN reserved' : reserved'[i].event \in 1 .. calls'
    BY <1>0, <2>1, <2>3, <2>5 DEF Calls
  <2>9. \A i, j \in DOMAIN reserved' : reserved'[i].event = reserved'[j].event => i = j
    BY <1>0, <2>3, <2>5 DEF Calls
  <2>10. \A v \in Threads :
          pc'[v] \in {"load", "cas", "request", "waiting", "woken"} =>
            \A i \in DOMAIN reserved' : reserved'[i].event # event'[v]
    <3> SUFFICES ASSUME NEW v \in Threads, pc'[v] \in {"load", "cas", "request", "waiting", "woken"}
                 PROVE  \A i \in DOMAIN reserved' : reserved'[i].event # event'[v]
      OBVIOUS
    <3>1. v # t /\ pc[v] = pc'[v] /\ event'[v] = event[v] /\ event[v] # event[t]
      BY <1>0, <2>1 DEF Calls
    <3> QED
      BY <1>0, <2>3, <3>1 DEF Calls
  <2>11. \A v \in Threads : pc'[v] = "cas" => ~PassesC(old'[v].write, NewWrite(v)', old'[v].read)
    BY <1>0, <2>1 DEF Calls, NewWrite
  <2>12. \A v \in Threads :
       pc'[v] \in {"copy", "publish"} =>
         \E i \in Pending' : reserved'[i] = [event |-> event'[v], at |-> old'[v].write, size |-> size'[v]]
    <3> SUFFICES ASSUME NEW v \in Threads, pc'[v] \in {"copy", "publish"}
                 PROVE \E i \in Pending' : reserved'[i] = [event |-> event'[v], at |-> old'[v].write, size |-> size'[v]]
      OBVIOUS
    <3>1. CASE v = t
      BY <2>1, <2>3, <2>4, <3>1
    <3>2. CASE v # t
      <4>1. PICK i \in Pending : reserved[i] = [event |-> event[v], at |-> old[v].write, size |-> size[v]]
        BY <1>0, <2>1, <3>2 DEF Calls
      <4> QED
        BY <2>1, <2>3, <2>4, <4>1
    <3> QED
      BY <3>1, <3>2
  <2> QED
    BY <2>6, <2>7, <2>8, <2>9, <2>10, <2>11, <2>12 DEF Calls
<1>6. ASSUME NEW t \in Threads, Copy(t) PROVE Calls'
  <2>1. /\ pc[t] = "copy" /\ pc'[t] = "publish" /\ \A v \in Threads : v # t => pc'[v] = pc[v]
        /\ UNCHANGED <<old, event, size, calls, control, reserved>>
    BY <1>0, <1>6 DEF Copy, Goto, TypeOK
  <2>2. First' = First /\ Pending' = Pending
    BY <1>6 DEF Copy, handlerVars, First, Pending
  <2>3. \A v \in Threads : NewWrite(v)' = NewWrite(v)
    BY <2>1 DEF NewWrite
  <2>4. \A v \in Threads : pc'[v] # "idle" => /\ event'[v] \in 1 .. calls' /\ size'[v] \in 1 .. MaxEventSize
                                              /\ control' = "on"
    BY <1>0, <2>1, <2>2, <2>3 DEF Calls
  <2>5. \A v, w \in Threads : pc'[v] # "idle" /\ pc'[w] # "idle" /\ event'[v] = event'[w] => v = w
    BY <1>0, <2>1, <2>2, <2>3 DEF Calls
  <2>6. /\ \A i \in DOMAIN reserved' : reserved'[i].event \in 1 .. calls'
        /\ \A i, j \in DOMAIN reserved' : reserved'[i].event = reserved'[j].event => i = j
    BY <1>0, <2>1, <2>2, <2>3 DEF Calls
  <2>7. \A v \in Threads :
          pc'[v] \in {"load", "cas", "request", "waiting", "woken"} =>
            \A i \in DOMAIN reserved' : reserved'[i].event # event'[v]
    BY <1>0, <2>1, <2>2, <2>3 DEF Calls
  <2>8. \A v \in Threads : pc'[v] = "cas" => ~PassesC(old'[v].write, NewWrite(v)', old'[v].read)
    BY <1>0, <2>1, <2>2, <2>3 DEF Calls
  <2>9. \A v \in Threads :
          pc'[v] \in {"copy", "publish"} =>
            \E i \in Pending' : reserved'[i] = [event |-> event'[v], at |-> old'[v].write, size |-> size'[v]]
    BY <1>0, <2>1, <2>2, <2>3 DEF Calls
  <2> QED
    BY <2>4, <2>5, <2>6, <2>7, <2>8, <2>9 DEF Calls
<1>7. ASSUME NEW t \in Threads, Publish(t) \/ SignalFlush(t) PROVE Calls'
  <2>1. CASE Goto(t, "signal") /\ UNCHANGED <<event, size, old>>
    <3>1. /\ pc[t] # "idle" /\ pc'[t] = "signal" /\ \A v \in Threads : v # t => pc'[v] = pc[v]
          /\ UNCHANGED <<old, event, size, calls, control, reserved>>
      BY <1>0, <1>7, <2>1 DEF Publish, SignalFlush, Goto, TypeOK
    <3>2. First' = First /\ Pending' = Pending
      BY <1>7 DEF Publish, SignalFlush, NotifyHandler, handlerVars, First, Pending
    <3> QED
      BY <1>0, <3>1, <3>2 DEF Calls, NewWrite
  <2>2. CASE Return(t)
    <3>1. /\ pc'[t] = "idle"
          /\ \A v \in Threads : v # t => pc'[v] = pc[v] /\ event'[v] = event[v] /\ size'[v] = size[v] /\ old'[v] = old[v]
          /\ UNCHANGED <<calls, control, reserved>>
      BY <1>0, <1>7, <2>2 DEF Publish, SignalFlush, Return, Goto, TypeOK
    <3>2. First' = First /\ Pending' = Pending
      BY <1>7 DEF Publish, SignalFlush, NotifyHandler, handlerVars, First, Pending
    <3>3. \A v \in Threads : pc'[v] # "idle" => v # t
      BY <3>1
    <3>4. \A v \in Threads : v # t => NewWrite(v)' = NewWrite(v)
      BY <3>1 DEF NewWrite
    <3>5. \A v \in Threads : pc'[v] # "idle" => /\ event'[v] \in 1 .. calls' /\ size'[v] \in 1 .. MaxEventSize
                                                    /\ control' = "on"
      BY <1>0, <3>1, <3>2, <3>3, <3>4 DEF Calls
    <3>6. \A v, w \in Threads : pc'[v] # "idle" /\ pc'[w] # "idle" /\ event'[v] = event'[w] => v = w
      BY <1>0, <3>1, <3>2, <3>3, <3>4 DEF Calls
    <3>7. /\ \A i \in DOMAIN reserved' : reserved'[i].event \in 1 .. calls'
          /\ \A i, j \in DOMAIN reserved' : reserved'[i].event = reserved'[j].event => i = j
      BY <1>0, <3>1, <3>2, <3>3, <3>4 DEF Calls
    <3>8. \A v \in Threads :
            pc'[v] \in {"load", "cas", "request", "waiting", "woken"} =>
              \A i \in DOMAIN reserved' : reserved'[i].event # event'[v]
      BY <1>0, <3>1, <3>2, <3>3, <3>4 DEF Calls
    <3>9. \A v \in Threads : pc'[v] = "cas" => ~PassesC(old'[v].write, NewWrite(v)', old'[v].read)
      BY <1>0, <3>1, <3>2, <3>3, <3>4 DEF Calls
    <3>10. \A v \in Threads :
            pc'[v] \in {"copy", "publish"} =>
              \E i \in Pending' : reserved'[i] = [event |-> event'[v], at |-> old'[v].write, size |-> size'[v]]
      BY <1>0, <3>1, <3>2, <3>3, <3>4 DEF Calls
    <3> QED
      BY <3>5, <3>6, <3>7, <3>8, <3>9, <3>10 DEF Calls
  <2> QED
    BY <1>7, <2>1, <2>2 DEF Publish, SignalFlush
<1>8. ASSUME NEW t \in Threads, RequestFlush(t) \/ Retry(t) \/ SpuriousWake(t) PROVE Calls'
  <2>1. /\ pc[t] \in {"request", "woken", "waiting"} /\ pc'[t] \in {"waiting", "load", "woken"}
        /\ \A v \in Threads : v # t => pc'[v] = pc[v]
        /\ UNCHANGED <<old, event, size, calls, control, reserved>>
    BY <1>0, <1>8 DEF RequestFlush, Retry, SpuriousWake, Goto, TypeOK
  <2>2. First' = First /\ Pending' = Pending
    BY <1>8 DEF RequestFlush, Retry, SpuriousWake, NotifyHandler, handlerVars, First, Pending
  <2> QED
    BY <1>0, <2>1, <2>2 DEF Calls, NewWrite
<1>9. ASSUME Round \/ Flush \/ LastFlush \/ ReadSize \/ Clear \/ Timeout \/ PeriodPasses \/ WakeEarly
      PROVE  Calls'
  <2>1. UNCHANGED <<submitVars, control, reserved>>
    BY <1>9 DEF Round, Flush, LastFlush, ReadSize, Clear, Timeout, PeriodPasses, WakeEarly
  <2>2. First' = First
    BY <1>9 DEF Round, Flush, LastFlush, ReadSize, Clear, Timeout, PeriodPasses, WakeEarly, First
  <2> QED
    BY <1>0, <2>1, <2>2, CallsSame
<1>10. ASSUME HandleEvent PROVE Calls'
  <2>1. handled' = Append(handled, [i \in 1 .. eventSize |-> buffer[cursor + i]]) /\ handler = "handle" /\ handler' = "clear"
        /\ UNCHANGED <<submitVars, control, reserved>>
    BY <1>10 DEF HandleEvent
  <2>2. handled \in Seq(Contents) /\ [i \in 1 .. eventSize |-> buffer[cursor + i]] \in Contents
    BY <2>1, Handles, EntryType DEF Inv, Typed, Contents
  <2>3. First' = First
    BY <2>1, <2>2 DEF First
  <2> QED
    BY <1>0, <2>1, <2>3, CallsSame
<1>11. ASSUME AdvanceRead PROVE Calls'
  <2>1. /\ First' = First + 1 /\ reserved[First].event \notin Copying \cup Unpublished
        /\ UNCHANGED <<pc, event, size, old, calls, control, reserved>>
    BY <1>0, <1>11 DEF AdvanceRead, First, Inv, Reading, submitVars
  <2>2. \A i \in Pending : i # First => i \in Pending'
    BY <1>0, <2>1 DEF Pending
  <2>3. \A v \in Threads :
       pc[v] \in {"copy", "publish"} =>
         \E i \in Pending' : reserved[i] = [event |-> event[v], at |-> old[v].write, size |-> size[v]]
    <3> SUFFICES ASSUME NEW v \in Threads, pc[v] \in {"copy", "publish"} PROVE Has(v)'
      BY <2>1
    <3>1. PICK i \in Pending : reserved[i] = [event |-> event[v], at |-> old[v].write, size |-> size[v]]
      BY <1>0 DEF Calls
    <3>2. i # First
      BY <2>1, <3>1 DEF Copying, Unpublished
    <3> QED
      BY <2>1, <2>2, <3>1, <3>2
  <2> QED
    BY <1>0, <2>1, <2>3 DEF Calls, NewWrite
<1>12. ASSUME Complete PROVE Calls'
  <2>1. /\ \A v \in Threads : pc'[v] = IF pc[v] = "waiting" THEN "woken" ELSE pc[v]
        /\ UNCHANGED <<event, size, old, calls, control, reserved>>
    BY <1>0, <1>12 DEF Complete
  <2>2. First' = First /\ Pending' = Pending
    BY <1>12 DEF Complete, First, Pending
  <2> QED
    BY <1>0, <2>1, <2>2 DEF Calls, NewWrite
<1>13. ASSUME UNCHANGED vars PROVE Calls'
  <2>1. First' = First
    BY <1>13 DEF vars, submitVars, handlerVars, First
  <2> QED
    BY <1>0, <1>13, <2>1, CallsSame DEF vars, submitVars
<1> QED
  BY <1>1, <1>2, <1>3, <1>4, <1>5, <1>6, <1>7, <1>8, <1>9, <1>10, <1>11, <1>12, <1>13
  DEF Next, Submitting, Handling, Cas

-----------------------------------------------------------------------------
(* Where the events lie                                                    *)

\* The steps that move the first event, the positions, or the list of events.
LEMMA Quiet ==
  ASSUME Inv, [Next]_vars
  PROVE  \/ /\ First' = First /\ UNCHANGED <<position, reserved>>
         \/ BeginEventHandling
         \/ \E t \in Threads : Cas(t) /\ position = old[t] /\ Reserve(t)
         \/ AdvanceRead
<1>1. CASE BeginEventHandling \/ AdvanceRead
  BY <1>1
<1>2. CASE EndEventHandling \/ Joined
  BY <1>2 DEF EndEventHandling, Joined, NotifyHandler, First, handlerVars
<1>3. ASSUME NEW t \in Threads, SubmitEvent(t) \/ Submitting(t) \/ SpuriousWake(t)
      PROVE  \/ /\ First' = First /\ UNCHANGED <<position, reserved>>
             \/ Cas(t) /\ position = old[t] /\ Reserve(t)
  BY <1>3 DEF SubmitEvent, Submitting, Load, Cas, Copy, Publish, SignalFlush, RequestFlush, Retry, SpuriousWake,
              NotifyHandler, handlerVars, First
<1>4. CASE Round \/ Flush \/ LastFlush \/ ReadSize \/ Clear \/ Complete \/ Timeout \/ PeriodPasses \/ WakeEarly
  BY <1>4 DEF Round, Flush, LastFlush, ReadSize, Clear, Complete, Timeout, PeriodPasses, WakeEarly, First
<1>5. CASE HandleEvent
  <2>1. handled' = Append(handled, [i \in 1 .. eventSize |-> buffer[cursor + i]]) /\ handler = "handle" /\ handler' = "clear"
    BY <1>5 DEF HandleEvent
  <2>2. handled \in Seq(Contents) /\ [i \in 1 .. eventSize |-> buffer[cursor + i]] \in Contents
    BY <2>1, Handles, EntryType DEF Inv, Typed, Contents
  <2> QED
    BY <1>5, <2>1, <2>2 DEF HandleEvent, First
<1>6. CASE UNCHANGED vars
  BY <1>6 DEF vars, First
<1> QED
  BY <1>1, <1>2, <1>3, <1>4, <1>5, <1>6 DEF Next, Handling

\* What Reserve appends lies behind all others, and before the first.
LEMMA Reserved ==
  ASSUME Inv, NEW t \in Threads, pc[t] = "cas", position = old[t], Reserve(t), UNCHANGED <<handler, handled>>
  PROVE  /\ Len(reserved') = Len(reserved) + 1
         /\ \A i \in DOMAIN reserved : reserved'[i] = reserved[i]
         /\ reserved'[Len(reserved) + 1].event = event[t] /\ reserved'[Len(reserved) + 1].at = position.write
         /\ reserved'[Len(reserved) + 1].size = size[t] /\ size[t] \in 1 .. MaxEventSize
         /\ reserved'[Len(reserved) + 1] \in Entry
         /\ First' = First /\ Pending' = Pending \cup {Len(reserved) + 1} /\ Len(reserved) + 1 \notin Pending
         /\ position'.read = position.read /\ position'.write = Advance(position.write, 1 + size[t])
         /\ Distance(position.read, position'.write) = Distance(position.read, position.write) + 1 + size[t]
         /\ Distance(position.read, position'.write) < BufferSize
<1> DEFINE r == [event |-> event[t], at |-> position.write, size |-> size[t]]
<1>0. /\ TypeOK /\ First \in 1 .. Len(reserved) + 1 /\ calls \in 0 .. MaxEvents /\ reserved \in Seq(Entry)
      /\ Len(reserved) \in Nat /\ position.read \in Position /\ position.write \in Position
  BY EntryType DEF Inv, Typed
<1>1. event[t] \in 1 .. calls /\ size[t] \in 1 .. MaxEventSize
      /\ ~PassesC(position.write, Advance(position.write, 1 + size[t]), position.read)
  BY DEF Inv, Calls, NewWrite
<1>2. r \in Entry
  BY <1>0, <1>1, HandlerAssumption DEF Entry, Event
<1>3. reserved' = Append(reserved, r)
  BY DEF Reserve
<1>4. /\ Len(reserved') = Len(reserved) + 1 /\ \A i \in DOMAIN reserved : reserved'[i] = reserved[i]
      /\ reserved'[Len(reserved) + 1] = r
  BY <1>0, <1>2, <1>3
<1>5. First' = First
  BY DEF First
<1>6. Pending' = Pending \cup {Len(reserved) + 1} /\ Len(reserved) + 1 \notin Pending
  BY <1>0, <1>4, <1>5 DEF Pending
<1>7. position'.read = position.read /\ position'.write = Advance(position.write, 1 + size[t])
  BY <1>0 DEF Reserve, NewWrite, TypeOK
<1>8. 1 + size[t] \in 1 .. 1 + MaxEventSize /\ 1 + size[t] \in Nat /\ size[t] \in Nat
  BY <1>1, HandlerAssumption
<1>9. /\ Distance(position.read, position.write) + (1 + size[t]) < BufferSize
      /\ Distance(position.read, position'.write) = Distance(position.read, position.write) + (1 + size[t])
  BY <1>0, <1>1, <1>7, <1>8, PassesIs
<1>10. Distance(position.read, position.write) \in Nat
  BY <1>0, DistanceType, HandlerAssumption
<1>11. Distance(position.read, position'.write) = Distance(position.read, position.write) + 1 + size[t]
       /\ Distance(position.read, position'.write) < BufferSize
  BY <1>8, <1>9, <1>10
<1> QED
  BY <1>1, <1>2, <1>4, <1>5, <1>6, <1>7, <1>11

\* With no events in the buffer the event thread can end.
LEMMA NothingPending ==
  ASSUME Inv, handler = "ended" \/ control = "off"
  PROVE  Pending = {} /\ Len(handled) = Len(reserved)
BY EntryType DEF Inv, Ending, Pending, First

LEMMA RingStep == Inv /\ [Next]_vars => Ring'
<1> SUFFICES ASSUME Inv, [Next]_vars PROVE Ring'
  OBVIOUS
<1>0. /\ TypeOK /\ reserved \in Seq(Entry) /\ Len(reserved) \in Nat /\ DOMAIN reserved = 1 .. Len(reserved)
      /\ First \in Nat /\ First \in 1 .. Len(reserved) + 1
      /\ position.read \in Position /\ position.write \in Position
  BY EntryType DEF Inv, Typed
<1>r. Ring
  BY DEF Inv
<1>n. Len(reserved) \in Nat
  BY <1>0
<1>a. \A i \in Pending :
        Advance(reserved[i].at, 1 + reserved[i].size) = IF i = Len(reserved) THEN position.write ELSE reserved[i + 1].at
  BY <1>r DEF Ring
<1>e. \A i \in Pending : /\ i \in Nat /\ i \in DOMAIN reserved /\ i <= Len(reserved)
                         /\ reserved[i].at \in Position /\ reserved[i].size \in Nat
  <2>1. \A i \in Pending : reserved[i].at \in Position /\ reserved[i].size \in 1 .. MaxEventSize
    BY EntryType DEF Inv
  <2>2. 1 .. MaxEventSize \subseteq Nat
    BY HandlerAssumption
  <2>3. \A i \in Pending : i \in Nat /\ i \in DOMAIN reserved /\ i <= Len(reserved)
    BY <1>0 DEF Pending
  <2> QED
    BY <2>1, <2>2, <2>3
<1>d. \A a, b \in Position : Distance(a, b) \in Nat /\ Distance(a, b) < BufferSize
  BY DistanceType, HandlerAssumption
<1>1. CASE First' = First /\ UNCHANGED <<position, reserved>>
  BY <1>r, <1>1 DEF Ring, Pending
<1>2. CASE BeginEventHandling
  <2>1. position'.read = 0 /\ position'.write = 0 /\ handler' = "start" /\ UNCHANGED <<reserved, handled>>
    BY <1>2 DEF BeginEventHandling
  <2>2. Pending' = {}
    BY <1>0, <1>2, <2>1, NothingPending DEF BeginEventHandling, Pending, First
  <2> QED
    BY <2>1, <2>2 DEF Ring
<1>3. ASSUME NEW t \in Threads, Cas(t) /\ position = old[t] /\ Reserve(t) PROVE Ring'
  <2> DEFINE n == Len(reserved) + 1
             D(i) == Distance(position.read, reserved'[i].at)
             W == Distance(position.read, position.write)
  <2>0. pc[t] = "cas" /\ Reserve(t) /\ position = old[t] /\ UNCHANGED <<handler, handled>>
    BY <1>3 DEF Cas, handlerVars
  <2>1. /\ \A i \in DOMAIN reserved : reserved'[i] = reserved[i]
        /\ reserved'[n].at = position.write /\ reserved'[n].size = size[t] /\ Len(reserved') = n
        /\ First' = First /\ Pending' = Pending \cup {n} /\ n \notin Pending
        /\ position'.read = position.read /\ position'.write = Advance(position.write, 1 + size[t])
        /\ Distance(position.read, position'.write) = W + 1 + size[t]
    BY <2>0, Reserved
  <2>2. \A i \in Pending : i \in DOMAIN reserved /\ i < n
    BY <1>0 DEF Pending
  <2>3. size[t] \in Nat /\ W \in Nat /\ \A i \in Pending : D(i) \in Nat
    <3>1. size[t] \in Nat
      BY <2>0, Reserved, HandlerAssumption
    <3>2. \A i \in Pending : reserved'[i].at \in Position
      BY <1>0, <1>e, <2>1, <2>2
    <3> QED
      BY <1>0, <1>e, <1>d, <3>1, <3>2
  <2>4. D(n) = W
    BY <2>1
  <2>5. \A i \in Pending : D(i) + 1 + reserved'[i].size <= W
    BY <1>r, <1>e, <2>1, <2>2 DEF Ring
  <2>6. \A i \in Pending' : D(i) + 1 + reserved'[i].size <= Distance(position.read, position'.write)
    <3> SUFFICES ASSUME NEW i \in Pending'
                 PROVE  D(i) + 1 + reserved'[i].size <= Distance(position.read, position'.write)
      OBVIOUS
    <3>1. CASE i = n
      BY <2>1, <2>3, <2>4, <3>1
    <3>2. CASE i \in Pending
      <4>1. reserved'[i].size \in Nat
        BY <1>0, <1>e, <2>1, <2>2, <3>2
      <4> HIDE DEF D, W
      <4> QED
        BY <2>1, <2>3, <2>5, <3>2, <4>1
    <3> QED
      BY <2>1, <3>1, <3>2
  <2>7. \A i, j \in Pending' : i < j => D(i) + 1 + reserved'[i].size <= D(j)
    <3> SUFFICES ASSUME NEW i \in Pending', NEW j \in Pending', i < j
                 PROVE  D(i) + 1 + reserved'[i].size <= D(j)
      OBVIOUS
    <3>1. i \in Pending
      BY <1>0, <1>e, <2>1, <2>2
    <3>2. CASE j = n
      <4>1. D(i) + 1 + reserved'[i].size <= W
        BY <2>5, <3>1
      <4>2. D(j) = W
        BY <2>4, <3>2
      <4> HIDE DEF D, W
      <4> QED
        BY <4>1, <4>2
    <3>3. CASE j \in Pending
      <4>1. Distance(position.read, reserved[i].at) + 1 + reserved[i].size <= Distance(position.read, reserved[j].at)
        BY <1>r, <1>e, <3>1, <3>3 DEF Ring
      <4>2. reserved'[i] = reserved[i] /\ reserved'[j] = reserved[j]
        BY <2>1, <2>2, <3>1, <3>3
      <4> QED
        BY <4>1, <4>2
    <3> QED
      BY <2>1, <3>2, <3>3
  <2>8. \A i \in Pending' :
          Advance(reserved'[i].at, 1 + reserved'[i].size)
            = IF i = Len(reserved') THEN position'.write ELSE reserved'[i + 1].at
    <3> SUFFICES ASSUME NEW i \in Pending'
                 PROVE  Advance(reserved'[i].at, 1 + reserved'[i].size)
                          = IF i = Len(reserved') THEN position'.write ELSE reserved'[i + 1].at
      OBVIOUS
    <3>1. CASE i = n
      BY <2>1, <3>1
    <3>2. CASE i \in Pending /\ i = Len(reserved)
      <4>1. Advance(reserved[i].at, 1 + reserved[i].size) = position.write
        BY <1>a, <3>2
      <4>2. reserved'[i] = reserved[i] /\ i # Len(reserved') /\ reserved'[i + 1].at = position.write
        <5>1. reserved'[i] = reserved[i]
          BY <2>1, <2>2, <3>2
        <5>2. i + 1 = n /\ i # n
          BY <1>n, <3>2
        <5> QED
          BY <2>1, <5>1, <5>2
      <4> QED
        BY <4>1, <4>2
    <3>3. CASE i \in Pending /\ i # Len(reserved)
      <4>1. i \in DOMAIN reserved /\ i + 1 \in DOMAIN reserved /\ i # n
        BY <1>0, <1>e, <2>2, <3>3
      <4> QED
        <5>1. Advance(reserved[i].at, 1 + reserved[i].size) = reserved[i + 1].at
          BY <1>a, <3>3
        <5> QED
          BY <2>1, <4>1, <5>1
    <3> QED
      BY <2>1, <3>1, <3>2, <3>3
  <2>9. position'.read = reserved'[First'].at /\ Pending' # {}
    <3>1. CASE Pending = {}
      <4>1. First = n
        <5>1. ~(First <= Len(reserved))
          BY <1>0, <3>1 DEF Pending
        <5> QED
          BY <1>0, <5>1
      <4> QED
        BY <1>r, <1>e, <2>1, <3>1, <4>1 DEF Ring
    <3>2. CASE Pending # {}
      <4>1. First \in DOMAIN reserved
        BY <1>0, <3>2 DEF Pending
      <4> QED
        BY <1>r, <1>e, <2>1, <3>2, <4>1 DEF Ring
    <3> QED
      BY <3>1, <3>2
  <2> QED
    BY <2>1, <2>6, <2>7, <2>8, <2>9 DEF Ring
<1>4. CASE AdvanceRead
  <2> DEFINE n == 1 + reserved[First].size
             D(b) == Distance(position.read, b)
  <2>1. First' = First + 1 /\ cursor = position.read /\ eventSize = reserved[First].size /\ Pending # {}
        /\ UNCHANGED reserved
    BY <1>0, <1>4 DEF AdvanceRead, First, Inv, Reading
  <2>2. /\ First \in Pending /\ Pending' = {i \in Pending : i # First}
        /\ \A i \in Pending : i \in DOMAIN reserved
        /\ \A i \in Pending' : First < i
    BY <1>0, <2>1 DEF Pending
  <2>3. position.read = reserved[First].at /\ D(reserved[First].at) = 0
    <3>1. position.read = reserved[First].at
      BY <1>r, <2>1 DEF Ring
    <3> QED
      BY <1>0, <3>1, DistanceType
  <2>4. position'.read = Advance(position.read, n) /\ position'.write = position.write
    BY <1>0, <1>4, <2>1 DEF AdvanceRead, TypeOK
  <2>5. n \in 0 .. BufferSize - 1 /\ n \in Nat
    <3>1. reserved[First].size \in 1 .. MaxEventSize
      BY <2>2, EntryType DEF Inv
    <3> QED
      BY <3>1, HandlerAssumption
  <2>6. n <= D(position.write) /\ \A i \in Pending' : n <= D(reserved[i].at)
    <3>1. /\ D(reserved[First].at) + 1 + reserved[First].size <= D(position.write)
          /\ \A i \in Pending' : D(reserved[First].at) + 1 + reserved[First].size <= D(reserved[i].at)
      BY <1>r, <1>e, <2>2 DEF Ring
    <3>2. reserved[First].size \in Nat
      BY <1>0, <1>e, <2>2
    <3> QED
      BY <2>3, <3>1, <3>2
  <2>7. Distance(position'.read, position.write) = D(position.write) - n
    BY <1>0, <1>e, <2>4, <2>5, <2>6, DistanceFrom
  <2>8. \A i \in Pending' : Distance(position'.read, reserved[i].at) = D(reserved[i].at) - n
    BY <1>0, <1>e, <2>2, <2>4, <2>5, <2>6, DistanceFrom
  <2>9. \A i \in Pending' : /\ D(reserved[i].at) \in Nat /\ reserved[i].size \in Nat /\ i \in Pending
                            /\ D(reserved[i].at) + 1 + reserved[i].size <= D(position.write)
    BY <1>r, <1>e, <1>d, <2>2 DEF Ring
  <2>10. \A i \in Pending' :
           Distance(position'.read, reserved[i].at) + 1 + reserved[i].size <= Distance(position'.read, position.write)
    <3> HIDE DEF n, D
    <3>1. D(position.write) \in Nat
      BY <1>0, <1>d DEF D
    <3> QED
      BY <2>5, <2>7, <2>8, <2>9, <3>1
  <2>11. \A i, j \in Pending' : i < j =>
           Distance(position'.read, reserved[i].at) + 1 + reserved[i].size <= Distance(position'.read, reserved[j].at)
    <3>1. \A i, j \in Pending' : i < j => D(reserved[i].at) + 1 + reserved[i].size <= D(reserved[j].at)
      BY <1>r, <1>e, <2>9 DEF Ring
    <3> HIDE DEF n, D
    <3> QED
      BY <2>5, <2>8, <2>9, <3>1
  <2>12. \A i \in Pending' :
          Advance(reserved[i].at, 1 + reserved[i].size)
            = IF i = Len(reserved) THEN position.write ELSE reserved[i + 1].at
    BY <1>r, <1>e, <2>9 DEF Ring
  <2>13. position'.read = IF Pending' = {} THEN position.write ELSE reserved[First + 1].at
    <3>1. position'.read = IF First = Len(reserved) THEN position.write ELSE reserved[First + 1].at
      BY <1>r, <1>e, <2>2, <2>3, <2>4 DEF Ring
    <3>2. Pending' = First + 1 .. Len(reserved) /\ First \in 1 .. Len(reserved)
      BY <1>0, <2>1, <2>2 DEF Pending
    <3>3. First < Len(reserved) => First + 1 \in Pending'
      BY <1>0, <1>e, <3>2
    <3>4. First = Len(reserved) => Pending' = {}
      BY <1>0, <1>e, <3>2
    <3>5. First \in Nat /\ Len(reserved) \in Nat
      BY <1>0, <1>e
    <3> QED
      <4>1. CASE First = Len(reserved)
        BY <3>1, <3>4, <4>1
      <4>2. CASE First < Len(reserved)
        <5>1. Pending' # {}
          BY <3>3, <4>2
        <5>2. First # Len(reserved)
          BY <3>5, <4>2
        <5>3. position'.read = reserved[First + 1].at
          BY <3>1, <5>2
        <5> QED
          BY <5>1, <5>3
      <4>3. First = Len(reserved) \/ First < Len(reserved)
        BY <3>2, <3>5
      <4> QED
        BY <4>1, <4>2, <4>3
  <2> QED
    BY <2>1, <2>4, <2>10, <2>11, <2>12, <2>13 DEF Ring
<1> QED
  BY <1>1, <1>2, <1>3, <1>4, Quiet

-----------------------------------------------------------------------------
(* Who writes and who reads                                                *)

LEMMA Kinds ==
  /\ \A n : SizeHeader(n) # Zero
  /\ \A e : Data(e) # Zero
  /\ \A m, n : SizeHeader(m) = SizeHeader(n) => m = n
<1>1. \A n : SizeHeader(n)[1] = "size" /\ SizeHeader(n)[2] = n
  BY DEF SizeHeader
<1>2. \A e : Data(e)[1] = "data"
  BY DEF Data
<1>3. Zero[1] = "zero"
  BY DEF Zero
<1>4. "zero" # "size" /\ "zero" # "data"
  OBVIOUS
<1> QED
  BY <1>1, <1>2, <1>3, <1>4

\* The steps that change the events, their units, or who writes them.
LEMMA Kept ==
  ASSUME Inv, [Next]_vars
  PROVE  \/ /\ First' = First /\ UNCHANGED <<buffer, position, reserved, Copying, Unpublished>>
            /\ handler' = "advance" <=> handler = "advance"
         \/ BeginEventHandling
         \/ \E t \in Threads : Cas(t) /\ position = old[t] /\ Reserve(t)
         \/ \E t \in Threads : Copy(t) \/ Publish(t)
         \/ Clear
         \/ AdvanceRead
<1>t. TypeOK
  BY DEF Inv, Typed
<1>1. CASE BeginEventHandling \/ AdvanceRead \/ Clear
  BY <1>1
<1>2. CASE EndEventHandling \/ Joined
  <2>1. UNCHANGED <<Copying, Unpublished>>
    BY <1>2 DEF EndEventHandling, Joined, submitVars, Copying, Unpublished
  <2> QED
    BY <1>2, <2>1 DEF EndEventHandling, Joined, NotifyHandler, First, handlerVars
<1>3. ASSUME NEW t \in Threads, SubmitEvent(t) \/ Submitting(t) \/ SpuriousWake(t)
      PROVE  \/ /\ First' = First /\ UNCHANGED <<buffer, position, reserved, Copying, Unpublished>>
                /\ handler' = "advance" <=> handler = "advance"
             \/ Cas(t) /\ position = old[t] /\ Reserve(t)
             \/ Copy(t) \/ Publish(t)
  <2>1. CASE (Cas(t) /\ position = old[t] /\ Reserve(t)) \/ Copy(t) \/ Publish(t)
    BY <2>1
  <2>2. CASE SubmitEvent(t) \/ Load(t) \/ (Cas(t) /\ position # old[t]) \/ SignalFlush(t) \/ RequestFlush(t)
             \/ Retry(t) \/ SpuriousWake(t)
    <3>1. /\ pc[t] \notin {"copy", "publish"} /\ pc'[t] \notin {"copy", "publish"}
          /\ \A v \in Threads : v # t => pc'[v] = pc[v] /\ event'[v] = event[v]
      BY <1>t, <2>2 DEF SubmitEvent, Load, Cas, SignalFlush, RequestFlush, Retry, SpuriousWake, Goto, Return, TypeOK
    <3>2. UNCHANGED <<Copying, Unpublished>>
      <4>1. Copying' = {event'[v] : v \in {w \in Threads : pc'[w] = "copy"}}
            /\ Unpublished' = {event'[v] : v \in {w \in Threads : pc'[w] = "publish"}}
        BY DEF Copying, Unpublished
      <4> QED
        BY <3>1, <4>1 DEF Copying, Unpublished
    <3>3. /\ First' = First /\ UNCHANGED <<buffer, position, reserved>>
          /\ handler' = "advance" <=> handler = "advance"
      BY <2>2 DEF SubmitEvent, Load, Cas, SignalFlush, RequestFlush, Retry, SpuriousWake, NotifyHandler, handlerVars, First
    <3> QED
      BY <3>2, <3>3
  <2> QED
    BY <1>3, <2>1, <2>2 DEF Submitting, Cas
<1>4. CASE Round \/ Flush \/ LastFlush \/ ReadSize \/ Timeout \/ PeriodPasses \/ WakeEarly
  <2>1. UNCHANGED <<Copying, Unpublished>>
    BY <1>4 DEF Round, Flush, LastFlush, ReadSize, Timeout, PeriodPasses, WakeEarly, submitVars, Copying, Unpublished
  <2> QED
    BY <1>4, <2>1 DEF Round, Flush, LastFlush, ReadSize, Timeout, PeriodPasses, WakeEarly, First
<1>5. CASE Complete
  <2>1. \A v \in Threads : /\ pc'[v] = "copy" <=> pc[v] = "copy"
                           /\ pc'[v] = "publish" <=> pc[v] = "publish"
    BY <1>t, <1>5 DEF Complete, TypeOK
  <2>2. UNCHANGED <<Copying, Unpublished>>
    BY <1>5, <2>1 DEF Complete, Copying, Unpublished
  <2> QED
    BY <1>5, <2>2 DEF Complete, First
<1>6. CASE HandleEvent
  <2>1. First' = First /\ handler = "handle" /\ handler' = "clear" /\ UNCHANGED <<buffer, position, reserved, submitVars>>
    BY <1>6, Quiet DEF HandleEvent, BeginEventHandling, AdvanceRead, Cas, handlerVars
  <2> QED
    BY <2>1 DEF submitVars, Copying, Unpublished
<1>7. CASE UNCHANGED vars
  <2>1. UNCHANGED <<Copying, Unpublished>>
    BY <1>7 DEF vars, Copying, Unpublished
  <2> QED
    BY <1>7, <2>1 DEF vars, First
<1> QED
  BY <1>1, <1>2, <1>3, <1>4, <1>5, <1>6, <1>7 DEF Next, Handling

LEMMA ReserveWrites ==
  ASSUME TypeOK, NEW t \in Threads, Cas(t), Reserve(t)
  PROVE  Copying' = Copying \cup {event[t]} /\ Unpublished' = Unpublished
<1>1. pc[t] = "cas" /\ pc'[t] = "copy" /\ UNCHANGED event /\ \A v \in Threads : v # t => pc'[v] = pc[v]
  BY DEF Cas, Reserve, Goto, TypeOK
<1>2. /\ Copying' = {event'[v] : v \in {w \in Threads : pc'[w] = "copy"}}
      /\ Unpublished' = {event'[v] : v \in {w \in Threads : pc'[w] = "publish"}}
  BY DEF Copying, Unpublished
<1> QED
  BY <1>1, <1>2 DEF Copying, Unpublished

LEMMA CopyWrites ==
  ASSUME Inv, NEW t \in Threads, Copy(t)
  PROVE  /\ event[t] \in Copying /\ Copying' = Copying \ {event[t]} /\ Unpublished' = Unpublished \cup {event[t]}
         /\ event[t] \notin Unpublished
<1>1. TypeOK /\ \A v, w \in Threads : pc[v] # "idle" /\ pc[w] # "idle" /\ event[v] = event[w] => v = w
  BY DEF Inv, Typed, Calls
<1>2. pc[t] = "copy" /\ pc'[t] = "publish" /\ UNCHANGED event /\ \A v \in Threads : v # t => pc'[v] = pc[v]
  BY <1>1 DEF Copy, Goto, TypeOK
<1>3. /\ Copying' = {event[v] : v \in {w \in Threads : pc'[w] = "copy"}}
      /\ Unpublished' = {event[v] : v \in {w \in Threads : pc'[w] = "publish"}}
  BY <1>2 DEF Copying, Unpublished
<1> QED
  BY <1>1, <1>2, <1>3 DEF Copying, Unpublished

LEMMA PublishWrites ==
  ASSUME Inv, NEW t \in Threads, Publish(t)
  PROVE  /\ event[t] \in Unpublished /\ event[t] \notin Copying
         /\ Copying' = Copying /\ Unpublished' = Unpublished \ {event[t]}
<1>1. TypeOK /\ \A v, w \in Threads : pc[v] # "idle" /\ pc[w] # "idle" /\ event[v] = event[w] => v = w
  BY DEF Inv, Typed, Calls
<1>2. pc[t] = "publish" /\ pc'[t] \in {"signal", "idle"}
      /\ \A v \in Threads : v # t => pc'[v] = pc[v] /\ event'[v] = event[v]
  BY <1>1 DEF Publish, Goto, Return, TypeOK
<1>3. /\ Copying' = {event'[v] : v \in {w \in Threads : pc'[w] = "copy"}}
      /\ Unpublished' = {event'[v] : v \in {w \in Threads : pc'[w] = "publish"}}
  BY DEF Copying, Unpublished
<1> QED
  BY <1>1, <1>2, <1>3 DEF Copying, Unpublished

\* What a call writes to are the units of its event, which is not being handled.
LEMMA Owner ==
  ASSUME Inv, NEW t \in Threads, pc[t] \in {"copy", "publish"}
  PROVE  \E i \in Pending :
           /\ reserved[i].event = event[t] /\ reserved[i].at = old[t].write /\ reserved[i].size = size[t]
           /\ \A j \in Pending : j # i => reserved[j].event # event[t]
           /\ handler = "advance" => i # First
<1>1. PICK i \in Pending : reserved[i] = [event |-> event[t], at |-> old[t].write, size |-> size[t]]
  BY DEF Inv, Calls
<1>2. reserved[i].event = event[t] /\ reserved[i].at = old[t].write /\ reserved[i].size = size[t]
  BY <1>1
<1>3. \A j \in Pending : j # i => reserved[j].event # event[t]
  BY <1>2, EntryType DEF Inv, Calls
<1>4. event[t] \in Copying \cup Unpublished
  BY DEF Copying, Unpublished
<1>5. handler = "advance" => i # First
  BY <1>2, <1>4 DEF Inv, Reading
<1> QED
  BY <1>2, <1>3, <1>5

\* Events in the buffer have no unit in common.
LEMMA PendingApart ==
  ASSUME Inv, NEW i \in Pending, NEW j \in Pending, i # j,
         NEW k \in 0 .. reserved[i].size, NEW m \in 0 .. reserved[j].size
  PROVE  reserved[i].at + k # reserved[j].at + m
<1> DEFINE D(b) == Distance(position.read, b)
<1>1. /\ position.read \in Position /\ position.write \in Position
      /\ \A n \in Pending : n \in Nat /\ reserved[n].at \in Position /\ reserved[n].size \in Nat
  BY EntryType, HandlerAssumption DEF Inv
<1>2. /\ D(position.write) \in Nat /\ D(position.write) <= BufferSize
      /\ \A n \in Pending : D(reserved[n].at) \in Nat
                            /\ D(reserved[n].at) + 1 + reserved[n].size <= D(position.write)
  <2>1. \A b \in Position : D(b) \in 0 .. BufferSize - 1
    BY <1>1, DistanceType
  <2>2. \A n \in Pending : D(reserved[n].at) + 1 + reserved[n].size <= D(position.write)
    BY DEF Inv, Ring
  <2> HIDE DEF D
  <2>3. \A b \in Position : D(b) \in Nat /\ D(b) <= BufferSize
    BY <2>1, HandlerAssumption
  <2> QED
    BY <1>1, <2>2, <2>3
<1>3. \A n \in Pending : D(reserved[n].at) + 1 + reserved[n].size <= BufferSize
  <2> HIDE DEF D
  <2> QED
    BY <1>1, <1>2, HandlerAssumption
<1>4. CASE i < j
  <2>1. D(reserved[i].at) + 1 + reserved[i].size <= D(reserved[j].at)
    BY <1>4 DEF Inv, Ring
  <2> QED
    BY <1>1, <1>3, <2>1, Apart
<1>5. CASE j < i
  <2>1. D(reserved[j].at) + 1 + reserved[j].size <= D(reserved[i].at)
    BY <1>5 DEF Inv, Ring
  <2> QED
    BY <1>1, <1>3, <2>1, Apart
<1> QED
  BY <1>1, <1>4, <1>5

-----------------------------------------------------------------------------
(* What the units hold                                                     *)

LEMMA FilledStep == Inv /\ [Next]_vars => Filled'
<1> SUFFICES ASSUME Inv, [Next]_vars PROVE Filled'
  OBVIOUS
<1> DEFINE Held(i, k) ==
             IF \/ handler = "advance" /\ i = First
                \/ reserved[i].event \in Copying
                \/ k = 0 /\ reserved[i].event \in Unpublished
             THEN Zero
             ELSE IF k = 0 THEN SizeHeader(reserved[i].size) ELSE Data(reserved[i].event)
<1>0. \A i \in Pending : \A k \in 0 .. reserved[i].size : buffer[reserved[i].at + k] = Held(i, k)
  BY DEF Inv, Filled
<1>t. TypeOK /\ reserved \in Seq(Entry) /\ Len(reserved) \in Nat /\ First \in Nat
      /\ \A i \in Pending : i \in DOMAIN reserved /\ reserved[i] \in Entry /\ i < Len(reserved) + 1
  BY EntryType DEF Inv, Typed, Pending
<1>u. \A i \in Pending : \A k \in 0 .. reserved[i].size : reserved[i].at + k \in Unit
  BY <1>t, UnitsOf
<1> SUFFICES ASSUME NEW i \in Pending', NEW k \in 0 .. reserved'[i].size
             PROVE  buffer'[reserved'[i].at + k] = Held(i, k)'
  BY DEF Filled
<1>1. CASE /\ First' = First /\ UNCHANGED <<buffer, position, reserved, Copying, Unpublished>>
           /\ handler' = "advance" <=> handler = "advance"
  <2>1. i \in Pending /\ k \in 0 .. reserved[i].size
    BY <1>1 DEF Pending
  <2> QED
    BY <1>0, <1>1, <2>1
<1>2. CASE BeginEventHandling
  <2>1. Pending = {} /\ UNCHANGED <<reserved, handled>> /\ First' = First
    BY <1>2, NothingPending DEF BeginEventHandling, Inv, Ending, First
  <2> QED
    BY <2>1 DEF Pending
<1>3. ASSUME NEW t \in Threads, Cas(t) /\ position = old[t] /\ Reserve(t) PROVE buffer'[reserved'[i].at + k] = Held(i, k)'
  <2> DEFINE n == Len(reserved) + 1
             D(b) == Distance(position.read, b)
  <2>0. pc[t] = "cas" /\ Reserve(t) /\ position = old[t] /\ UNCHANGED <<handler, handled, buffer>>
    BY <1>3 DEF Cas, handlerVars
  <2>1. /\ \A j \in DOMAIN reserved : reserved'[j] = reserved[j]
        /\ reserved'[n].event = event[t] /\ reserved'[n].at = position.write
        /\ reserved'[n].size = size[t] /\ reserved'[n] \in Entry
        /\ First' = First /\ Pending' = Pending \cup {n} /\ n \notin Pending
        /\ D(position'.write) = D(position.write) + 1 + size[t] /\ D(position'.write) < BufferSize
    BY <2>0, Reserved
  <2>2. Copying' = Copying \cup {event[t]} /\ Unpublished' = Unpublished
    BY <1>3, <1>t, ReserveWrites
  <2>3. CASE i = n
    <3>1. reserved'[i].at + k \in Unit
      BY <2>1, <2>3, UnitsOf
    <3>2. position.read \in Position /\ position.write \in Position /\ size[t] \in Nat /\ D(position.write) \in Nat
          /\ \A j \in Pending : reserved[j].at \in Position /\ reserved[j].size \in Nat
      <4>1. position.read \in Position /\ position.write \in Position
            /\ \A j \in Pending : reserved[j].at \in Position /\ reserved[j].size \in Nat
        BY EntryType, HandlerAssumption DEF Inv
      <4>2. size[t] \in Nat
        BY <2>0, Reserved, HandlerAssumption
      <4>3. D(position.write) \in Nat
        BY <4>1, DistanceType, HandlerAssumption
      <4> QED
        BY <4>1, <4>2, <4>3
    <3>3. D(position.write) + 1 + size[t] <= BufferSize
      <4> HIDE DEF D
      <4> QED
        BY <2>1, <3>2, HandlerAssumption
    <3>4. ASSUME NEW j \in Pending PROVE reserved'[i].at + k \notin Units(reserved[j])
      <4>1. D(reserved[j].at) + 1 + reserved[j].size <= D(position.write)
        BY DEF Inv, Ring
      <4>2. \A m \in 0 .. reserved[j].size : reserved[j].at + m # position.write + k
        BY <2>1, <2>3, <3>2, <3>3, <4>1, Apart
      <4> QED
        <5>1. reserved[j] \in Entry /\ \A m \in 0 .. reserved[j].size : reserved'[i].at + k # reserved[j].at + m
          BY <1>t, <2>1, <2>3, <4>2
        <5> QED
          BY <5>1, UnitsOf
    <3>5. buffer[reserved'[i].at + k] = Zero
      BY <3>1, <3>4 DEF Inv, Empty
    <3> QED
      BY <2>0, <2>1, <2>2, <2>3, <3>5
  <2>4. CASE i \in Pending
    <3>1. reserved'[i] = reserved[i] /\ i \in DOMAIN reserved
      BY <1>t, <2>1, <2>4
    <3>2. reserved[i].event # event[t]
      BY <2>0, <3>1 DEF Inv, Calls
    <3> QED
      BY <1>0, <2>0, <2>1, <2>2, <2>4, <3>1, <3>2
  <2> QED
    BY <2>1, <2>3, <2>4
<1>4. ASSUME NEW t \in Threads, Copy(t) \/ Publish(t) PROVE buffer'[reserved'[i].at + k] = Held(i, k)'
  <2>1. /\ First' = First /\ UNCHANGED <<reserved, handled, handler>> /\ pc[t] \in {"copy", "publish"}
    BY <1>4 DEF Copy, Publish, handlerVars, First
  <2>2. i \in Pending /\ k \in 0 .. reserved[i].size
    BY <2>1 DEF Pending
  <2>3. reserved[i].at + k \in Unit /\ reserved[i].at \in Nat /\ k \in Nat
    BY <1>t, <1>u, <2>2, EntryType, HandlerAssumption DEF Inv, Position
  <2>4. PICK o \in Pending :
           /\ reserved[o].event = event[t] /\ reserved[o].at = old[t].write /\ reserved[o].size = size[t]
           /\ \A j \in Pending : j # o => reserved[j].event # event[t]
           /\ handler = "advance" => o # First
    BY <2>1, Owner
  <2>5. old[t].write \in Nat /\ size[t] \in Nat
    BY <1>t, <2>4, EntryType, HandlerAssumption DEF Inv, Position
  <2>6. ASSUME i # o PROVE buffer'[reserved[i].at + k] = buffer[reserved[i].at + k]
    <3>1. \A m \in 0 .. size[t] : reserved[i].at + k # old[t].write + m
      BY <2>2, <2>4, <2>6, PendingApart
    <3>2. reserved[i].at + k \notin old[t].write .. old[t].write + size[t]
      <4>1. \A u \in old[t].write .. old[t].write + size[t] : u - old[t].write \in 0 .. size[t]
                                                             /\ u = old[t].write + (u - old[t].write)
        BY <2>5
      <4> QED
        BY <3>1, <4>1
    <3>3. reserved[i].at + k # old[t].write /\ reserved[i].at + k \notin DataOf(old[t].write, size[t])
      BY <2>3, <2>5, <3>2 DEF DataOf
    <3> QED
      BY <1>4, <1>t, <2>3, <3>3 DEF Copy, Publish, TypeOK
  <2>7. CASE Copy(t)
    <3>1. /\ event[t] \in Copying /\ Copying' = Copying \ {event[t]} /\ Unpublished' = Unpublished \cup {event[t]}
      BY <2>7, CopyWrites
    <3>2. CASE i # o
      BY <1>0, <2>1, <2>2, <2>4, <2>6, <3>1, <3>2
    <3>3. CASE i = o /\ k = 0
      <4>1. buffer'[reserved[i].at + k] = buffer[reserved[i].at + k]
        BY <2>3, <2>4, <2>5, <2>7, <3>3 DEF Copy, DataOf
      <4> QED
        BY <1>0, <2>1, <2>2, <2>4, <3>1, <3>3, <4>1
    <3>4. CASE i = o /\ k # 0
      <4>1. reserved[i].at + k \in DataOf(old[t].write, size[t])
        BY <2>2, <2>3, <2>4, <2>5, <3>4 DEF DataOf
      <4>2. buffer'[reserved[i].at + k] = Data(event[t])
        BY <2>3, <2>7, <4>1 DEF Copy
      <4> QED
        BY <2>1, <2>4, <3>1, <3>4, <4>2
    <3> QED
      BY <3>2, <3>3, <3>4
  <2>8. CASE Publish(t)
    <3>1. /\ event[t] \in Unpublished /\ event[t] \notin Copying
          /\ Copying' = Copying /\ Unpublished' = Unpublished \ {event[t]}
      BY <2>8, PublishWrites
    <3>2. CASE i # o
      BY <1>0, <2>1, <2>2, <2>4, <2>6, <3>1, <3>2
    <3>3. CASE i = o /\ k = 0
      <4>1. buffer'[reserved[i].at + k] = SizeHeader(size[t])
        BY <1>t, <2>3, <2>4, <2>5, <2>8, <3>3 DEF Publish, TypeOK
      <4> QED
        BY <2>1, <2>4, <3>1, <3>3, <4>1
    <3>4. CASE i = o /\ k # 0
      <4>1. buffer'[reserved[i].at + k] = buffer[reserved[i].at + k]
        BY <1>t, <2>3, <2>4, <2>5, <2>8, <3>4 DEF Publish, TypeOK
      <4> QED
        BY <1>0, <2>1, <2>2, <2>4, <3>1, <3>4, <4>1
    <3> QED
      BY <3>2, <3>3, <3>4
  <2> QED
    BY <1>4, <2>7, <2>8
<1>5. CASE Clear
  <2>1. /\ First' = First /\ UNCHANGED <<reserved, handled, submitVars>> /\ handler' = "advance" /\ handler = "clear"
        /\ buffer' = [u \in Unit |-> IF u \in cursor .. cursor + eventSize THEN Zero ELSE buffer[u]]
    BY <1>5 DEF Clear, First
  <2>2. UNCHANGED <<Copying, Unpublished>>
    BY <2>1 DEF submitVars, Copying, Unpublished
  <2>3. i \in Pending /\ k \in 0 .. reserved[i].size /\ reserved[i].at + k \in Unit
    BY <1>u, <2>1 DEF Pending
  <2>4. First \in Pending /\ cursor = reserved[First].at /\ eventSize = reserved[First].size
    BY <1>t, <2>1 DEF Inv, Reading, Ring, Pending
  <2>5. reserved[i].at \in Nat /\ k \in Nat /\ cursor \in Nat /\ eventSize \in Nat
    BY <1>t, <2>3, <2>4, EntryType, HandlerAssumption DEF Inv, Position
  <2>6. CASE i = First
    <3>1. reserved[i].at + k \in cursor .. cursor + eventSize
      BY <2>3, <2>4, <2>5, <2>6
    <3> QED
      BY <2>1, <2>3, <2>6, <3>1
  <2>7. CASE i # First
    <3>1. \A m \in 0 .. eventSize : reserved[i].at + k # cursor + m
      BY <2>3, <2>4, <2>7, PendingApart
    <3>2. \A u \in cursor .. cursor + eventSize : u - cursor \in 0 .. eventSize /\ u = cursor + (u - cursor)
      BY <2>5
    <3>3. reserved[i].at + k \notin cursor .. cursor + eventSize
      BY <3>1, <3>2
    <3> QED
      BY <1>0, <2>1, <2>2, <2>3, <2>7, <3>3
  <2> QED
    BY <2>6, <2>7
<1>6. CASE AdvanceRead
  <2>1. /\ First' = First + 1 /\ UNCHANGED <<buffer, reserved, handled, submitVars>> /\ handler' = "read"
    BY <1>6, EntryType DEF AdvanceRead, First, Inv
  <2>2. UNCHANGED <<Copying, Unpublished>>
    BY <2>1 DEF submitVars, Copying, Unpublished
  <2>3. i \in Pending /\ i # First /\ k \in 0 .. reserved[i].size
    BY <1>t, <2>1 DEF Pending
  <2> QED
    BY <1>0, <2>1, <2>2, <2>3
<1> QED
  BY <1>1, <1>2, <1>3, <1>4, <1>5, <1>6, Kept

LEMMA EmptyStep == Inv /\ [Next]_vars => Empty'
<1> SUFFICES ASSUME Inv, [Next]_vars PROVE Empty'
  OBVIOUS
<1>0. Empty /\ reserved \in Seq(Entry) /\ Len(reserved) \in Nat /\ First \in Nat /\ TypeOK
      /\ \A i \in Pending : i \in DOMAIN reserved /\ reserved[i] \in Entry
  BY EntryType DEF Inv, Typed
<1> SUFFICES ASSUME NEW u \in Unit, \A i \in Pending' : u \notin Units(reserved'[i]) PROVE buffer'[u] = Zero
  BY DEF Empty, Units
<1>1. CASE First' = First /\ UNCHANGED <<buffer, position, reserved, Copying, Unpublished>>
  BY <1>0, <1>1 DEF Empty, Pending
<1>2. CASE BeginEventHandling
  <2>1. Pending = {} /\ UNCHANGED buffer
    BY <1>2, NothingPending DEF BeginEventHandling
  <2> QED
    BY <1>0, <2>1 DEF Empty
<1>3. ASSUME NEW t \in Threads, Cas(t) /\ position = old[t] /\ Reserve(t) PROVE buffer'[u] = Zero
  <2>1. pc[t] = "cas" /\ Reserve(t) /\ position = old[t] /\ UNCHANGED <<handler, handled, buffer>>
    BY <1>3 DEF Cas, handlerVars
  <2>2. Pending \subseteq Pending' /\ \A j \in DOMAIN reserved : reserved'[j] = reserved[j]
    BY <2>1, Reserved
  <2> QED
    BY <1>0, <2>1, <2>2 DEF Empty
<1>4. ASSUME NEW t \in Threads, Copy(t) \/ Publish(t) PROVE buffer'[u] = Zero
  <2>1. Pending' = Pending /\ UNCHANGED reserved /\ pc[t] \in {"copy", "publish"}
    BY <1>4 DEF Copy, Publish, handlerVars, First, Pending
  <2>2. PICK o \in Pending : reserved[o].at = old[t].write /\ reserved[o].size = size[t]
    BY <2>1, Owner
  <2>3. u \notin old[t].write .. old[t].write + size[t]
    BY <2>1, <2>2 DEF Units
  <2>4. old[t].write \in Nat /\ size[t] \in Nat /\ u \in Nat
    BY <2>2, EntryType, HandlerAssumption DEF Inv, Position, Unit
  <2>5. u # old[t].write /\ u \notin DataOf(old[t].write, size[t])
    BY <2>3, <2>4 DEF DataOf
  <2>6. buffer'[u] = buffer[u]
    BY <1>0, <1>4, <2>5 DEF Copy, Publish, TypeOK
  <2> QED
    BY <1>0, <2>1, <2>6 DEF Empty
<1>5. CASE Clear
  <2>1. Pending' = Pending /\ UNCHANGED reserved
    BY <1>5 DEF Clear, First, Pending
  <2> QED
    BY <1>0, <1>5, <2>1 DEF Clear, Empty
<1>6. CASE AdvanceRead
  <2>1. First' = First + 1 /\ UNCHANGED <<buffer, reserved>> /\ handler = "advance"
    BY <1>6, EntryType DEF AdvanceRead, First, Inv
  <2>2. \A i \in Pending : i # First => i \in Pending'
    BY <1>0, <2>1 DEF Pending
  <2>3. CASE First \in Pending /\ u \in Units(reserved[First])
    <3>1. PICK k \in 0 .. reserved[First].size : u = reserved[First].at + k
      BY <1>0, <2>3, UnitsOf
    <3> QED
      BY <2>1, <2>3, <3>1 DEF Inv, Filled
  <2>4. CASE ~(First \in Pending /\ u \in Units(reserved[First]))
    BY <1>0, <2>1, <2>2, <2>4 DEF Empty
  <2> QED
    BY <2>3, <2>4
<1> QED
  BY <1>1, <1>2, <1>3, <1>4, <1>5, <1>6, Kept

-----------------------------------------------------------------------------
(* The event thread                                                        *)

\* What the event thread finds at its cursor tells whether a complete event is there.
LEMMA SizeAtCursor ==
  ASSUME Inv, handler = "read", buffer[cursor] # Zero
  PROVE  /\ Pending # {} /\ reserved[First].event \notin Copying \cup Unpublished
         /\ buffer[cursor] = SizeHeader(reserved[First].size) /\ reserved[First].size \in 1 .. MaxEventSize
<1>1. cursor = position.read /\ cursor \in Unit /\ First \in Nat /\ Len(reserved) \in Nat
  <2>1. position.read \in Unit
    BY EntryType, HandlerAssumption DEF Inv, Position, Unit
  <2> QED
    BY <2>1, EntryType DEF Inv, Reading
<1>2. Pending # {}
  BY <1>1 DEF Inv, Empty
<1>3. First \in Pending /\ position.read = reserved[First].at
  BY <1>1, <1>2 DEF Pending, Inv, Ring
<1>4. reserved[First].size \in 1 .. MaxEventSize /\ reserved[First].at \in Nat
  BY <1>3, EntryType DEF Inv, Position
<1>5. 0 \in 0 .. reserved[First].size /\ reserved[First].at + 0 = reserved[First].at
  BY <1>4, HandlerAssumption
<1>6. buffer[cursor] = IF reserved[First].event \in Copying \cup Unpublished THEN Zero
                       ELSE SizeHeader(reserved[First].size)
  BY <1>1, <1>3, <1>5 DEF Inv, Filled
<1> QED
  BY <1>2, <1>4, <1>6

\* When it is told to end nobody is submitting, so a zero there is the end.
LEMMA EndOfBuffer ==
  ASSUME Inv, handler = "read", buffer[cursor] = Zero, control # "on"
  PROVE  Pending = {} /\ Len(handled) = Len(reserved)
<1>1. Copying = {} /\ Unpublished = {}
  BY DEF Inv, Calls, Copying, Unpublished
<1>2. First \in 1 .. Len(reserved) + 1 /\ Len(reserved) \in Nat /\ Len(handled) \in Nat /\ First = Len(handled) + 1
  BY EntryType DEF Inv, Typed, First
<1>3. CASE Pending # {}
  <2>1. First \in Pending /\ position.read = reserved[First].at
    BY <1>2, <1>3 DEF Pending, Inv, Ring
  <2>2. reserved[First].size \in 1 .. MaxEventSize /\ reserved[First].at \in Nat
    BY <2>1, EntryType DEF Inv, Position
  <2>3. 0 \in 0 .. reserved[First].size /\ reserved[First].at + 0 = reserved[First].at
    BY <2>2, HandlerAssumption
  <2>4. buffer[reserved[First].at] = SizeHeader(reserved[First].size)
    BY <1>1, <2>1, <2>3 DEF Inv, Filled
  <2> QED
    BY <2>1, <2>4, Kinds DEF Inv, Reading
<1>4. CASE Pending = {}
  <2>1. ~(First <= Len(reserved))
    BY <1>2, <1>4 DEF Pending
  <2> QED
    BY <1>2, <1>4, <2>1
<1> QED
  BY <1>3, <1>4

LEMMA ReadingStep == Inv /\ [Next]_vars => Reading'
<1> SUFFICES ASSUME Inv, [Next]_vars PROVE Reading'
  OBVIOUS
<1>0. Reading /\ TypeOK /\ First \in Nat \ {0} /\ Len(reserved) \in Nat /\ reserved \in Seq(Entry)
      /\ DOMAIN reserved = 1 .. Len(reserved)
  BY EntryType DEF Inv, Typed
<1>1. ASSUME NEW t \in Threads, SubmitEvent(t) \/ Submitting(t) \/ SpuriousWake(t) PROVE Reading'
  <2>1. UNCHANGED <<cursor, eventSize>> /\ position'.read = position.read
        /\ (handler' = handler \/ handler' = "woken")
    BY <1>0, <1>1 DEF SubmitEvent, Submitting, Load, Cas, Reserve, Copy, Publish, SignalFlush, RequestFlush, Retry, SpuriousWake,
                NotifyHandler, handlerVars, TypeOK
  <2>2. CASE First' = First /\ UNCHANGED <<buffer, position, reserved, Copying, Unpublished>>
    BY <1>0, <2>1, <2>2 DEF Reading, Pending
  <2>3. ASSUME NEW v \in Threads, Cas(v), position = old[v], Reserve(v) PROVE Reading'
    <3>1. pc[v] = "cas" /\ UNCHANGED <<handler, handled>>
      BY <2>3 DEF Cas, handlerVars
    <3>2. First' = First /\ Pending \subseteq Pending' /\ \A j \in DOMAIN reserved : reserved'[j] = reserved[j]
      BY <2>3, <3>1, Reserved
    <3>3. Copying' = Copying \cup {event[v]} /\ Unpublished' = Unpublished
      BY <1>0, <2>3, ReserveWrites
    <3>4. \A j \in DOMAIN reserved : reserved[j].event # event[v]
      BY <3>1 DEF Inv, Calls
    <3>5. Pending # {} => First \in DOMAIN reserved
      BY <1>0 DEF Pending
    <3> QED
      BY <1>0, <2>1, <3>1, <3>2, <3>3, <3>4, <3>5 DEF Reading
  <2>4. ASSUME NEW v \in Threads, Copy(v) \/ Publish(v) PROVE Reading'
    <3>1. UNCHANGED <<handler, handled, reserved>>
      BY <2>4 DEF Copy, Publish, handlerVars
    <3>2. First' = First /\ Pending' = Pending
      BY <3>1 DEF First, Pending
    <3>3. Copying' \cup Unpublished' \subseteq Copying \cup Unpublished
      BY <2>4, CopyWrites, PublishWrites
    <3> QED
      BY <1>0, <2>1, <3>1, <3>2, <3>3 DEF Reading
  <2>5. CASE handler' \notin {"read", "handle", "clear", "advance"}
    BY <2>5 DEF Reading
  <2> QED
    BY <2>1, <2>2, <2>3, <2>4, <2>5, <1>1, Kept DEF BeginEventHandling, Clear, AdvanceRead
<1>2. CASE BeginEventHandling \/ Round \/ Complete \/ Timeout \/ WakeEarly
  BY <1>2 DEF BeginEventHandling, Round, Complete, Timeout, WakeEarly, Reading
<1>3. CASE EndEventHandling \/ Joined \/ PeriodPasses \/ UNCHANGED vars
  <2>1. /\ UNCHANGED <<cursor, eventSize, position, reserved, handled, pc, event>>
        /\ handler' = handler \/ handler' = "woken"
    BY <1>3 DEF EndEventHandling, Joined, PeriodPasses, vars, NotifyHandler, submitVars, handlerVars
  <2>2. CASE handler' = "woken"
    BY <2>2 DEF Reading
  <2>3. CASE handler' = handler
    BY <1>0, <2>1, <2>3 DEF Reading, First, Pending, Copying, Unpublished
  <2> QED
    BY <2>1, <2>2, <2>3
<1>4. CASE Flush \/ LastFlush
  BY <1>4 DEF Flush, LastFlush, Reading
<1>5. CASE ReadSize
  <2>1. UNCHANGED <<position, reserved, handled, pc, event>> /\ handler = "read"
    BY <1>5 DEF ReadSize, submitVars
  <2>2. CASE buffer[cursor] = Zero
    BY <1>5, <2>2 DEF ReadSize, Reading
  <2>3. CASE buffer[cursor] # Zero
    <3>1. handler' = "handle" /\ UNCHANGED cursor
      BY <1>5, <2>3 DEF ReadSize
    <3>2. /\ Pending # {} /\ reserved[First].event \notin Copying \cup Unpublished
          /\ buffer[cursor] = SizeHeader(reserved[First].size) /\ reserved[First].size \in 1 .. MaxEventSize
      BY <2>1, <2>3, SizeAtCursor
    <3>3. eventSize' = reserved[First].size
      <4>1. buffer[cursor] \in {SizeHeader(i) : i \in 1 .. MaxEventSize}
        BY <3>2
      <4>2. buffer[cursor] = SizeHeader(eventSize')
        BY <1>5, <2>3, <4>1 DEF ReadSize
      <4> QED
        BY <3>2, <4>2, Kinds
    <3>4. First' = First /\ Pending' = Pending /\ Copying' = Copying /\ Unpublished' = Unpublished
      BY <2>1, <3>1 DEF First, Pending, Copying, Unpublished
    <3> QED
      BY <1>0, <2>1, <3>1, <3>2, <3>3, <3>4 DEF Reading
  <2> QED
    BY <2>2, <2>3
<1>6. CASE HandleEvent \/ Clear
  <2>1. /\ UNCHANGED <<cursor, eventSize, position, reserved, pc, event>>
        /\ handler \in {"handle", "clear"} /\ handler' \in {"clear", "advance"}
    BY <1>6 DEF HandleEvent, Clear, submitVars
  <2>2. First' = First
    BY <1>6, Quiet DEF HandleEvent, Clear, BeginEventHandling, AdvanceRead, Cas, Reserve, handlerVars, First
  <2>3. Pending' = Pending /\ Copying' = Copying /\ Unpublished' = Unpublished
    BY <2>1, <2>2 DEF Pending, Copying, Unpublished
  <2> QED
    BY <1>0, <2>1, <2>2, <2>3 DEF Reading
<1>7. CASE AdvanceRead
  BY <1>0, <1>7 DEF AdvanceRead, Reading, TypeOK
<1> QED
  BY <1>1, <1>2, <1>3, <1>4, <1>5, <1>6, <1>7 DEF Next, Handling

LEMMA EndingStep == Inv /\ [Next]_vars => Ending'
<1> SUFFICES ASSUME Inv, [Next]_vars PROVE Ending'
  OBVIOUS
<1>0. Ending /\ TypeOK /\ \A t \in Threads : pc[t] # "idle" => control = "on"
  BY DEF Inv, Typed, Calls
<1>1. CASE BeginEventHandling \/ EndEventHandling \/ Joined
  BY <1>0, <1>1 DEF BeginEventHandling, EndEventHandling, Joined, NotifyHandler, handlerVars, Ending
<1>2. ASSUME NEW t \in Threads, SubmitEvent(t) \/ Submitting(t) \/ SpuriousWake(t) PROVE Ending'
  <2>1. control = "on" /\ UNCHANGED <<control, lastFlush, terminate>> /\ (handler' = handler \/ handler' = "woken")
    BY <1>0, <1>2 DEF SubmitEvent, Submitting, Load, Cas, Copy, Publish, SignalFlush, RequestFlush, Retry, SpuriousWake,
                NotifyHandler, handlerVars
  <2> QED
    BY <1>0, <2>1 DEF Ending
<1>3. CASE Round \/ Flush \/ LastFlush \/ HandleEvent \/ Clear \/ AdvanceRead \/ Complete \/ Timeout \/ WakeEarly
  BY <1>0, <1>3 DEF Round, Flush, LastFlush, HandleEvent, Clear, AdvanceRead, Complete, Timeout, WakeEarly, Ending
<1>4. CASE ReadSize
  <2>1. UNCHANGED <<control, lastFlush, terminate, handled, reserved>> /\ handler = "read"
        /\ (handler' = "ended" => lastFlush /\ buffer[cursor] = Zero)
    BY <1>4 DEF ReadSize
  <2>2. handler' = "ended" => control # "on" /\ Len(handled) = Len(reserved)
    BY <1>0, <2>1, EndOfBuffer DEF Ending
  <2> QED
    BY <1>0, <2>1, <2>2 DEF Ending
<1>5. CASE PeriodPasses \/ UNCHANGED vars
  BY <1>0, <1>5 DEF PeriodPasses, vars, Ending
<1> QED
  BY <1>1, <1>2, <1>3, <1>4, <1>5 DEF Next, Handling

LEMMA InOrderStep == Inv /\ [Next]_vars => InOrder'
<1> SUFFICES ASSUME Inv, [Next]_vars PROVE InOrder'
  OBVIOUS
<1>0. /\ InOrder /\ reserved \in Seq(Entry) /\ handled \in Seq(Contents) /\ Len(handled) \in Nat /\ Len(reserved) \in Nat
      /\ Len(handled) <= Len(reserved) /\ DOMAIN handled = 1 .. Len(handled) /\ DOMAIN reserved = 1 .. Len(reserved)
  <2>1. /\ InOrder /\ reserved \in Seq(Entry) /\ handled \in Seq(Contents) /\ Len(handled) \in Nat /\ Len(reserved) \in Nat
        /\ First \in 1 .. Len(reserved) + 1
    BY EntryType DEF Inv, Typed
  <2>2. Len(handled) <= Len(reserved)
    <3>1. handler \in {"clear", "advance"} => First \in Pending
      BY <2>1 DEF Inv, Reading, Pending
    <3> QED
      BY <2>1, <3>1 DEF First, Pending
  <2> QED
    BY <2>1, <2>2
<1>1. CASE HandleEvent
  <2>1. /\ First \in Pending /\ First = Len(handled) + 1 /\ handled' = Append(handled, Content(reserved[First]))
        /\ UNCHANGED reserved
    BY <1>1, Handles DEF HandleEvent
  <2>2. Content(reserved[First]) \in Contents
    BY <2>1, EntryType DEF Inv, Contents
  <2>3. DOMAIN handled' = 1 .. Len(handled) + 1 /\ handled'[Len(handled) + 1] = Content(reserved[First])
        /\ \A i \in DOMAIN handled : handled'[i] = handled[i]
    BY <1>0, <2>1, <2>2
  <2> QED
    BY <1>0, <2>1, <2>3 DEF InOrder
<1>2. CASE UNCHANGED <<handled, reserved>>
  BY <1>0, <1>2 DEF InOrder
<1>3. ASSUME NEW t \in Threads, Cas(t), position = old[t], Reserve(t) PROVE InOrder'
  <2>1. pc[t] = "cas" /\ UNCHANGED <<handler, handled>>
    BY <1>3 DEF Cas, handlerVars
  <2>2. \A j \in DOMAIN reserved : reserved'[j] = reserved[j]
    BY <1>3, <2>1, Reserved
  <2> QED
    BY <1>0, <2>1, <2>2 DEF InOrder
<1>4. UNCHANGED <<handled, reserved>> \/ HandleEvent \/ \E t \in Threads : Cas(t) /\ position = old[t] /\ Reserve(t)
  <2>1. ASSUME NEW t \in Threads, SubmitEvent(t) \/ Submitting(t) \/ SpuriousWake(t)
        PROVE  UNCHANGED <<handled, reserved>> \/ (Cas(t) /\ position = old[t] /\ Reserve(t))
    BY <2>1 DEF SubmitEvent, Submitting, Load, Cas, Copy, Publish, SignalFlush, RequestFlush, Retry, SpuriousWake
  <2>2. CASE BeginEventHandling \/ EndEventHandling \/ Joined
    BY <2>2 DEF BeginEventHandling, EndEventHandling, Joined
  <2>3. CASE Round \/ Flush \/ LastFlush \/ ReadSize \/ Clear \/ AdvanceRead \/ Complete \/ Timeout \/ WakeEarly \/ PeriodPasses
    BY <2>3 DEF Round, Flush, LastFlush, ReadSize, Clear, AdvanceRead, Complete, Timeout, WakeEarly, PeriodPasses
  <2>4. CASE UNCHANGED vars
    BY <2>4 DEF vars
  <2> QED
    BY <2>1, <2>2, <2>3, <2>4 DEF Next, Handling
<1> QED
  BY <1>1, <1>2, <1>3, <1>4

-----------------------------------------------------------------------------
(* The theorems                                                            *)

\* The inductive invariant: where each event lies, who writes to it, what every unit
\* of the buffer holds, and what the event thread knows of the event it handles.
THEOREM InvHolds == Spec => []Inv
<1>1. Inv /\ [Next]_vars => Inv'
  BY TypedStep, CallsStep, RingStep, FilledStep, EmptyStep, ReadingStep, EndingStep, InOrderStep DEF Inv
<1> QED
  BY InvInit, <1>1, PTL DEF Spec

\* Every variable of c_async_event_handler keeps its type, whatever the threads do: the
\* read and write positions stay within the buffer.
THEOREM HandlerTyped == Spec => []TypeOK
<1>1. Inv => TypeOK
  BY DEF Inv, Typed
<1> QED
  BY InvHolds, <1>1, PTL

\* What submit_event and the event thread rely on without a lock: an event has its units
\* for itself from the exchange that reserves them until the read position has passed
\* them, and all other units of the buffer are zero.
THEOREM EventsStayApart == Spec => []EventsApart
<1>1. Inv => EventsApart
  <2> SUFFICES ASSUME Inv PROVE EventsApart
    OBVIOUS
  <2>0. reserved \in Seq(Entry) /\ First \in 1 .. Len(reserved) + 1 /\ Len(reserved) \in Nat /\ Len(handled) \in Nat
        /\ \A i \in Pending : reserved[i] \in Entry /\ i \in Nat
    BY EntryType DEF Inv, Typed, Pending
  <2>1. InBuffer = SubSeq(reserved, First, Len(reserved))
    BY <2>0 DEF InBuffer, First
  <2>2. /\ Len(InBuffer) = Len(reserved) - First + 1 /\ InBuffer \in Seq(Entry)
        /\ \A i \in 1 .. Len(reserved) - First + 1 : InBuffer[i] = reserved[First + i - 1]
    BY <2>0, <2>1, SubSeqProperties
  <2>3. DOMAIN InBuffer = 1 .. Len(reserved) - First + 1
    BY <2>2
  <2>4. \A i \in DOMAIN InBuffer : First + i - 1 \in Pending /\ InBuffer[i] = reserved[First + i - 1]
    BY <2>0, <2>2, <2>3 DEF Pending
  <2>5. ASSUME NEW i \in DOMAIN InBuffer, NEW j \in DOMAIN InBuffer, i # j
        PROVE  Units(InBuffer[i]) \cap Units(InBuffer[j]) = {}
    <3> DEFINE a == First + i - 1
               b == First + j - 1
    <3>1. a \in Pending /\ b \in Pending /\ a # b /\ InBuffer[i] = reserved[a] /\ InBuffer[j] = reserved[b]
      BY <2>0, <2>3, <2>4, <2>5
    <3> HIDE DEF a, b
    <3>2. \A u \in Units(reserved[a]) : u \notin Units(reserved[b])
      BY <2>0, <3>1, UnitsOf, PendingApart
    <3> QED
      BY <3>1, <3>2
  <2>6. ASSUME NEW u \in Unit, buffer[u] # Zero
        PROVE  \E i \in DOMAIN InBuffer : u \in Units(InBuffer[i])
    <3>1. PICK n \in Pending : u \in Units(reserved[n])
      BY <2>6 DEF Inv, Empty
    <3>2. n - First + 1 \in DOMAIN InBuffer /\ First + (n - First + 1) - 1 = n
      BY <2>0, <2>3, <3>1 DEF Pending
    <3> QED
      BY <2>4, <3>1, <3>2
  <2> QED
    BY <2>5, <2>6 DEF EventsApart
<1> QED
  BY InvHolds, <1>1, PTL

\* What submit_event promises: the event thread calls event_handler with every event
\* whole, once and in the order of the reservations, and end_event_handling leaves none.
THEOREM EventsHandledInOrder == Spec => []HandledInOrder
<1>1. Inv => HandledInOrder
  <2> SUFFICES ASSUME Inv PROVE HandledInOrder
    OBVIOUS
  <2>1. First \in 1 .. Len(reserved) + 1 /\ Len(reserved) \in Nat /\ Len(handled) \in Nat
    BY EntryType DEF Inv, Typed
  <2>2. Len(handled) <= Len(reserved)
    <3>1. handler \in {"clear", "advance"} => First \in Pending
      BY <2>1 DEF Inv, Reading, Pending
    <3> QED
      BY <2>1, <3>1 DEF First, Pending
  <2>3. control = "off" => Len(handled) = Len(reserved)
    BY NothingPending
  <2> QED
    BY <2>2, <2>3 DEF Inv, InOrder, HandledInOrder
<1> QED
  BY InvHolds, <1>1, PTL

=============================================================================
