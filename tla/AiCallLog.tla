------------------------------ MODULE AiCallLog ------------------------------
(***************************************************************************)
(* infrastructure/logging/ai_call_store.py: the bounded log of model       *)
(* calls, kept in memory in the order the calls first appeared and in a    *)
(* JSONL file that a restart replays.                                      *)
(*                                                                         *)
(* A crash may leave the beginning of a line behind.  The next append then *)
(* continues that line, and neither of the two can be read any more.       *)
(***************************************************************************)
EXTENDS SequencesExt

CONSTANTS MaxItems,     \* records kept
          LinesPerItem  \* file lines per record before the file is rewritten; 4 in the code

ASSUME LogAssumption == MaxItems \in Nat \ {0} /\ LinesPerItem \in Nat \ {0}

VARIABLE log

Terminal == {"succeeded", "failed", "blocked", "cancelled", "interrupted"}
Garbled == [id |-> <<0, 0>>, status |-> "garbled"]

EmptyLog == [items |-> <<>>, file |-> <<>>, torn |-> FALSE, writes |-> 0]

\* An update keeps its place, a new record drops the oldest when there is no room.
Kept(items, r) ==
    IF \E k \in DOMAIN items : items[k].id = r.id
      THEN [k \in DOMAIN items |-> IF items[k].id = r.id THEN r ELSE items[k]]
    ELSE Append(IF Len(items) < MaxItems THEN items ELSE Tail(items), r)

Rewritten(l) == [l EXCEPT !.file = l.items, !.torn = FALSE, !.writes = 0]

Appended(l, r) ==
    [l EXCEPT !.file = Append(@, IF l.torn THEN Garbled ELSE r), !.torn = FALSE,
              !.writes = @ + 1]

Upsert(l, r) ==
    LET kept == [l EXCEPT !.items = Kept(@, r)] IN
    IF l.writes >= MaxItems * LinesPerItem THEN Rewritten(kept) ELSE Appended(kept, r)

\* One record after the other of the same call.
UpsertAll(l, id, statuses) ==
    LET after[n \in 0 .. Len(statuses)] ==
          IF n = 0 THEN l ELSE Upsert(after[n-1], [id |-> id, status |-> statuses[n]])
    IN after[Len(statuses)]

Readable(line) == line # Garbled

Replay(file) ==
    LET read[n \in 0 .. Len(file)] ==
          IF n = 0 THEN <<>>
          ELSE IF Readable(file[n]) THEN Kept(read[n-1], file[n]) ELSE read[n-1]
    IN read[Len(file)]

\* A line that cannot be read is passed over only at the end of the file.
MayLoad(l) == \A k \in DOMAIN l.file : Readable(l.file[k]) \/ (k = Len(l.file) /\ ~l.torn)

Interrupted(items) ==
    [k \in DOMAIN items |-> IF items[k].status \in Terminal THEN items[k]
                            ELSE [items[k] EXCEPT !.status = "interrupted"]]

\* Fault: the file keeps calling them unfinished.
LoadOnlyInMemory(l) ==
    LET lines == SelectSeq(l.file, Readable) IN
    [l EXCEPT !.items = Interrupted(Replay(l.file)), !.writes = Len(lines)]

\* Calls the last process did not finish are interrupted, and the file is rewritten so.
Load(l) ==
    LET found == Replay(l.file)
        lines == SelectSeq(l.file, Readable)
        loaded == [l EXCEPT !.items = Interrupted(found), !.writes = Len(lines)]
    IN IF loaded.items # found \/ loaded.writes >= MaxItems * LinesPerItem
         THEN Rewritten(loaded) ELSE loaded

Lost(l, torn) == [l EXCEPT !.items = <<>>, !.torn = l.torn \/ torn, !.writes = 0]

=============================================================================
