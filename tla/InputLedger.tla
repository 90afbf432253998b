---------------------------- MODULE InputLedger ----------------------------
(***************************************************************************)
(* What IngestService remembers of the inputs it has seen, to answer a     *)
(* resent input with its receipt instead of taking it again: _seen_inputs  *)
(* (oldest first), _timestamp_floors and _pending_audio_ids of one audio   *)
(* source.  An input is its number, and the number is also its timestamp:  *)
(* inputs are numbered in the order the desktop makes them.  The digests   *)
(* of format and body are left out: the desktop never sends two contents   *)
(* under one input_id.                                                     *)
(***************************************************************************)
EXTENDS Naturals, SequencesExt, FiniteSetsExt

CONSTANTS
    Capacity,   \* max_tracked_input_ids
    None        \* no input, no connection

Kinds == {"text", "frame", "audio"}
Stages == {"received", "committed"}

EmptyLedger == [seen |-> <<>>, floor |-> [k \in Kinds |-> 0], pending |-> None]

\* _TrackedInput.
Entry(i, k, c) ==
    [id |-> i, kind |-> k, conn |-> c, accepted |-> FALSE, receipts |-> {}]

Entries(l) == ToSet(l.seen)
Tracked(l, i) == \E e \in Entries(l) : e.id = i
EntryOf(l, i) == CHOOSE e \in Entries(l) : e.id = i
SentOver(l, i, c) == \E e \in Entries(l) : e.id = i /\ e.conn = c

Place(l, i) == CHOOSE p \in DOMAIN l.seen : l.seen[p].id = i

\* An input is remembered once: _seen_inputs is a dictionary.
Forget(l, i) == IF Tracked(l, i) THEN [l EXCEPT !.seen = RemoveAt(@, Place(l, i))] ELSE l

\* _timestamp_for: the newest timestamp among the remembered inputs of a kind
\* and the floor that the forgotten ones left behind.
Newest(l, k) ==
    Max({e.id : e \in {x \in Entries(l) : x.kind = k}} \cup {l.floor[k]})

\* Who may be forgotten: accepted inputs, except the audio that waits for its
\* commit.
Forgettable(l) ==
    {p \in DOMAIN l.seen : l.seen[p].accepted /\ l.seen[p].id # l.pending}

Full(l) == Len(l.seen) > Capacity

\* One eviction of _remember_locked; it leaves its timestamp as a floor.
ForgetOldest(l) ==
    LET e == l.seen[Min(Forgettable(l))]
    IN  [Forget(l, e.id) EXCEPT !.floor[e.kind] = Max({@, e.id})]

\* _remember_locked: the new input is appended, and the ledger brought back
\* to its capacity; None when nothing could be forgotten.
Remember(l, e) ==
    LET grown == [l EXCEPT !.seen = Append(@, e)]
    IN  CASE ~Full(grown) -> grown
          [] Full(grown) /\ Forgettable(grown) # {} -> ForgetOldest(grown)
          [] OTHER -> None

\* _cached_receipt_locked.
HasReceipt(l, i, stage) == Tracked(l, i) /\ stage \in EntryOf(l, i).receipts

\* A resent input that was answered becomes the newest one.
Touch(l, i) == [Forget(l, i) EXCEPT !.seen = Append(@, EntryOf(l, i))]

\* _reserve and _reserve_audio refuse an input still in progress, an audio
\* whose predecessor is not committed, and one older than the newest.
OutOfOrder(l, i, k) ==
    \/ Tracked(l, i)
    \/ k = "audio" /\ l.pending # None
    \/ i < Newest(l, k)

\* The rest of _reserve and _reserve_audio; None when the ledger is full.
Reserve(l, i, k, c) ==
    LET next == Remember(l, Entry(i, k, c))
    IN  IF next # None /\ k = "audio" THEN [next EXCEPT !.pending = i] ELSE next

\* _release_audio.
Release(l, i) == [l EXCEPT !.pending = IF @ = i THEN None ELSE @]

\* _settle with accepted = True: the receipt is kept for a resent input.
Accepted(e, stages) == [e EXCEPT !.accepted = TRUE, !.receipts = @ \cup stages]
Accept(l, i, stages) ==
    [l EXCEPT !.seen =
        [p \in DOMAIN @ |-> IF @[p].id = i THEN Accepted(@[p], stages) ELSE @[p]]]

\* clear_connection: the pending audio of a connection that went away.
ClearConnection(l, c) ==
    IF l.pending # None /\ SentOver(l, l.pending, c)
      THEN [Forget(l, l.pending) EXCEPT !.pending = None]
      ELSE l
=============================================================================
