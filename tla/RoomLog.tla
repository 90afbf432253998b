------------------------------ MODULE RoomLog -------------------------------
(***************************************************************************)
(* application/room_service.py with the durable chain of                   *)
(* application/room_event_persistence.py: the public events of one         *)
(* session, numbered from 1, each written to the database before it can be *)
(* read.  The lock of RoomService is held across the write, so writers     *)
(* stand in line for it.  The buffer is unbounded, as configured: an event *)
(* is neither evicted nor pruned.                                          *)
(***************************************************************************)
EXTENDS Naturals, SequencesExt

CONSTANTS Writers,  \* who may append at the same time
          Events    \* what an event says

VARIABLES
    rows,    \* table room_events, by sequence
    active,  \* _active_session_id is the session
    events,  \* _events
    next,    \* _next_sequence
    line     \* who holds or awaits _lock, in order, with the event it appends

roomVars == <<rows, active, events, next, line>>

Writing == [writer : Writers, event : Events, written : BOOLEAN]

RoomInit == rows = <<>> /\ active = TRUE /\ events = <<>> /\ next = 1 /\ line = <<>>

RoomTypeOK ==
    /\ rows \in Seq([sequence : Nat, event : Events])
    /\ active \in BOOLEAN
    /\ events \in Seq([sequence : Nat, event : Events])
    /\ next \in Nat
    /\ line \in Seq(Writing)
    /\ \A p \in DOMAIN line : line[p].written => p = 1

InLine(w) == \E p \in DOMAIN line : line[p].writer = w

\* append_event asks for the lock.
Queue(w, e) == line' = Append(line, [writer |-> w, event |-> e, written |-> FALSE])

Row(seq, e) == [sequence |-> seq, event |-> e]

\* The holder of the lock leaves without an event.
GiveUp(w) ==
    /\ line # <<>>
    /\ Head(line).writer = w
    /\ ~Head(line).written
    /\ line' = Tail(line)
    /\ UNCHANGED <<rows, active, events, next>>

\* The table's unique key (session_id, sequence).
SequenceFree == \A p \in DOMAIN rows : rows[p].sequence # next

\* The durable write, under the number the event will have.
Persist(w) ==
    /\ line # <<>>
    /\ Head(line).writer = w
    /\ ~Head(line).written
    /\ active
    /\ SequenceFree
    /\ rows' = Append(rows, Row(next, Head(line).event))
    /\ line' = [line EXCEPT ![1].written = TRUE]
    /\ UNCHANGED <<active, events, next>>

\* Fault: the number is not counted up after the append.
ShowUncounted(w) ==
    /\ line # <<>>
    /\ Head(line).writer = w
    /\ Head(line).written
    /\ events' = Append(events, Row(next, Head(line).event))
    /\ line' = Tail(line)
    /\ UNCHANGED <<rows, active, next>>

\* After the write: the event becomes readable and the lock is released.
Show(w) ==
    /\ line # <<>>
    /\ Head(line).writer = w
    /\ Head(line).written
    /\ events' = Append(events, Row(next, Head(line).event))
    /\ next' = next + 1
    /\ line' = Tail(line)
    /\ UNCHANGED <<rows, active>>

\* stop_session.
StopRoom ==
    /\ active
    /\ line = <<>>
    /\ active' = FALSE
    /\ events' = <<>>
    /\ next' = 1
    /\ UNCHANGED <<rows, line>>

\* The process ends; the database stays.
CrashRoom ==
    /\ active' = FALSE
    /\ events' = <<>>
    /\ next' = 1
    /\ line' = <<>>
    /\ UNCHANGED rows

\* load_for_recovery checks that the numbers of the rows increase strictly.
Increasing ==
    \A p, q \in DOMAIN rows : p < q => rows[p].sequence < rows[q].sequence

\* restore_events: the rows come back as the events.
RestoreRoom ==
    /\ ~active
    /\ Increasing
    /\ active' = TRUE
    /\ events' = rows
    /\ next' = IF rows = <<>> THEN 1 ELSE rows[Len(rows)].sequence + 1
    /\ UNCHANGED <<rows, line>>

-----------------------------------------------------------------------------
(* Properties.                                                             *)

\* What can be read from the room is what a recovery would restore: the same
\* events under the same numbers, except the one whose writer still holds
\* the lock (append_event and restore_events of room_service.py).
RoomMatchesLog ==
    active =>
      LET shown == IF line # <<>> /\ Head(line).written THEN Front(rows) ELSE rows
      IN  /\ events = shown
          /\ next = Len(shown) + 1
          /\ \A p \in DOMAIN rows : rows[p].sequence = p
=============================================================================
