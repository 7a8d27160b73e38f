-------------------------- MODULE ControllerEvents --------------------------
(***************************************************************************)
(* c_controller_event_manager: the events of a chunk sorted into the note  *)
(* events and those of each parameter, and the table of parameters that    *)
(* carries their values from chunk to chunk.                               *)
(*                                                                         *)
(* An event has a kind ("on", "off" or "parameter"), the note or the       *)
(* number of the parameter, and the parameter's value.                     *)
(***************************************************************************)
EXTENDS Integers, Sequences, FiniteSets, SequencesExt, FiniteSetsExt

CONSTANT MaxParameters   \* max_controller_parameters

ASSUME EventsAssumption == MaxParameters \in Nat \ {0}

VARIABLE parameters      \* m_parameter_state_table

IsNote(e) == e.event.kind \in {"on", "off"}

-----------------------------------------------------------------------------
(* process_controller_events()                                             *)

SortKey(e) == IF IsNote(e) THEN 0 ELSE e.event.id + 1
Before(a, b) ==
  \/ SortKey(a) < SortKey(b)
  \/ SortKey(a) = SortKey(b) /\ a.at < b.at

\* A mutated TakesLeft: of two equal ones the right one comes first.
TakesLeftIfLess(left, right) == Before(left, right)

TakesLeft(left, right) == ~Before(right, left)

\* merge_sort_merge_helper(): the scratch buffer after k values, and how many came from the left.
Merged(left, right) ==
  LET merged[k \in 0 .. Len(left) + Len(right)] ==
        IF k = 0 THEN [left |-> 0, scratch |-> <<>>]
        ELSE LET before == merged[k - 1]
                 l == before.left
                 r == k - 1 - l
             IN  IF l < Len(left) /\ (r >= Len(right) \/ TakesLeft(left[l + 1], right[r + 1]))
                 THEN [left |-> l + 1, scratch |-> Append(before.scratch, left[l + 1])]
                 ELSE [left |-> l, scratch |-> Append(before.scratch, right[r + 1])]
  IN  merged[Len(left) + Len(right)].scratch

\* merge_sort() of a part of the values
MergeSorted(s) ==
  LET sorted[part \in SeqOf(ToSet(s), Len(s))] ==
        IF Len(part) <= 1 THEN part
        ELSE LET half == Len(part) \div 2
             IN  Merged(sorted[SubSeq(part, 1, half)], sorted[SubSeq(part, half + 1, Len(part))])
  IN  sorted[s]

\* The notes come first.
NoteEvents(sorted) == SubSeq(sorted, 1, Cardinality({i \in DOMAIN sorted : IsNote(sorted[i])}))

\* The group of the changes of one parameter that ends at k.
EndsGroup(sorted, k) ==
  ~IsNote(sorted[k]) /\ (k = Len(sorted) \/ SortKey(sorted[k + 1]) # SortKey(sorted[k]))
Group(sorted, k) ==
  SubSeq(sorted, Min({i \in DOMAIN sorted : SortKey(sorted[i]) = SortKey(sorted[k])}), k)

\* update_parameter_state(): a parameter that finds the table full is not heard.
Updated(table, id, changes, buffer) ==
  IF id \notin DOMAIN table /\ Cardinality(DOMAIN table) = MaxParameters THEN table
  ELSE [p \in DOMAIN table \cup {id} |->
          IF p # id THEN table[p]
          ELSE [lastActive |-> buffer,
                previous |-> IF id \in DOMAIN table THEN table[id].nextPrevious ELSE 0,
                nextPrevious |-> Last(changes).event.value,
                changes |-> changes]]

\* The table after the first k events.
ProcessEvents(sorted, buffer) ==
  LET table[k \in 0 .. Len(sorted)] ==
        IF k = 0 THEN parameters
        ELSE IF EndsGroup(sorted, k)
             THEN Updated(table[k - 1], sorted[k].event.id, Group(sorted, k), buffer)
             ELSE table[k - 1]
  IN  parameters' = table[Len(sorted)]

-----------------------------------------------------------------------------
(* What a task reads.                                                      *)

\* A mutated ParameterChanges: without changes the value is the one before the last ones.
ParameterChangesOld(id, buffer) ==
  IF id \notin DOMAIN parameters THEN [previous |-> 0, changes |-> <<>>]
  ELSE [previous |-> parameters[id].previous,
        changes |-> IF parameters[id].lastActive = buffer THEN parameters[id].changes ELSE <<>>]

\* get_parameter_change_events()
ParameterChanges(id, buffer) ==
  IF id \notin DOMAIN parameters THEN [previous |-> 0, changes |-> <<>>]
  ELSE IF parameters[id].lastActive = buffer
       THEN [previous |-> parameters[id].previous, changes |-> parameters[id].changes]
       ELSE [previous |-> parameters[id].nextPrevious, changes |-> <<>>]

\* get_parameter_value(): each change holds from its frame to the end, or to the next.
ParameterValue(id, buffer, frames) ==
  LET read == ParameterChanges(id, buffer)
      signal[k \in 0 .. Len(read.changes)] ==
        [f \in 0 .. frames - 1 |->
           IF k = 0 THEN read.previous
           ELSE IF f >= read.changes[k].at THEN read.changes[k].event.value
                ELSE signal[k - 1][f]]
  IN  signal[Len(read.changes)]
=============================================================================
