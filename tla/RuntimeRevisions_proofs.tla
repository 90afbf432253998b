------------------------- MODULE RuntimeRevisions_proofs -------------------------
(***************************************************************************)
(* Proofs about RuntimeRevisions, for any apply identifiers, any           *)
(* configurations and any number of revisions: at most one row is pending  *)
(* and can be finished, the runtime shows only what is durable, and        *)
(* neither an old epoch nor an ended session is opened again.              *)
(***************************************************************************)
EXTENDS RuntimeRevisions, TLAPS

HasGreatest(S) == \E r \in S \cup {0} : \A q \in S : q <= r

\* Rows are numbered without gaps, each kind has a last one, and a session
\* that was never recorded has none.
RowsInv ==
    /\ \A r \in Used : \A q \in 1..r : q \in Used
    /\ HasGreatest(Used) /\ HasGreatest(Committed)
    /\ record.outcome = "absent" => Used = {}

\* What the operation under way has read is still true where it relies on it:
\* only a commit of its own moves the epoch, and only a start or a snapshot
\* gives the process a runtime.
OpInv ==
    op # None =>
        /\ up /\ record.outcome # "absent"
        /\ op.seen.epoch = record.epoch
        /\ memory = None => op.seen.population = record.population
        /\ op.seen.outcome = "interrupted" => record.outcome = "interrupted"
        /\ op.phase = "read" /\ memory = None /\ op.seen.outcome = "open" => Latest = 0
        /\ op.phase = "audience" => memory # None
        /\ op.phase # "read" => rows[op.revision].config = op.config
        /\ op.phase # "read" /\ op.kind = "recover" => op.seen.outcome = "interrupted"
        /\ op.kind \in {"apply", "rollback"} => op.by \in ApplyIds

\* A runtime belongs to a running process; an unfinished session without one
\* has not committed its first revision; no result was accepted under an epoch
\* the record does not know.
MemoryInv ==
    /\ memory # None => up /\ record.outcome # "absent"
    /\ up /\ memory = None /\ record.outcome = "open" => Latest = 0
    /\ served <= record.epoch
    /\ record.outcome = "absent" => served = 0

IInv == TypeOK /\ PendingIsNext /\ RowsInv /\ OpInv /\ DurableBeforeVisible /\ MemoryInv

---------------------------------------------------------------------------
(* Revisions and their greatest.                                           *)

\* Greatest returns an upper bound that is in the set, or 0.
LEMMA GreatestChosen ==
  ASSUME NEW S, HasGreatest(S)
  PROVE  Greatest(S) \in S \cup {0} /\ \A q \in S : q <= Greatest(S)
BY DEF Greatest, HasGreatest

\* There is only one such number.
LEMMA GreatestIs ==
  ASSUME NEW S \in SUBSET Revisions, NEW r \in S, \A q \in S : q <= r
  PROVE  HasGreatest(S) /\ Greatest(S) = r
<1>1. HasGreatest(S)
  BY DEF HasGreatest
<1>2. Greatest(S) \in S \cup {0} /\ \A q \in S : q <= Greatest(S)
  BY <1>1, GreatestChosen
<1>3. r \in Nat \ {0} /\ S \subseteq Nat
  BY RevisionBound DEF Revisions
<1>4. r <= Greatest(S)
  BY <1>2
<1>5. Greatest(S) # 0
  BY <1>3, <1>4
<1>6. Greatest(S) \in S
  BY <1>2, <1>5
<1>7. Greatest(S) \in Nat /\ Greatest(S) <= r
  BY <1>3, <1>6
<1>8. QED BY <1>1, <1>3, <1>4, <1>7

\* The kinds of rows, and the last committed and the last used revision.
LEMMA RevisionFacts ==
  ASSUME TypeOK, RowsInv
  PROVE  /\ Used \subseteq Revisions /\ Pending \subseteq Used /\ Committed \subseteq Used
         /\ \A r \in Used : rows[r] \in RowRec
         /\ Revisions \subseteq Nat \ {0} /\ MaxRevision \in Nat
         /\ Latest \in Nat /\ Latest \in Committed \cup {0} /\ \A r \in Committed : r <= Latest
         /\ HighestUsed \in Nat /\ HighestUsed \in Used \cup {0} /\ \A r \in Used : r <= HighestUsed
         /\ Latest <= HighestUsed
         /\ Latest # 0 => CurrentConfig \in Configs /\ rows[Latest] # None
<1>1. Used \subseteq Revisions /\ Pending \subseteq Used /\ Committed \subseteq Used
  BY DEF Used, Pending, Committed
<1>2. \A r \in Used : rows[r] \in RowRec
  BY <1>1 DEF TypeOK, Used
<1>3. Revisions \subseteq Nat \ {0} /\ MaxRevision \in Nat
  BY RevisionBound DEF Revisions
<1>4. Latest \in Committed \cup {0} /\ \A r \in Committed : r <= Latest
  BY GreatestChosen DEF RowsInv, Latest
<1>5. HighestUsed \in Used \cup {0} /\ \A r \in Used : r <= HighestUsed
  BY GreatestChosen DEF RowsInv, HighestUsed
<1>6. Latest \in Nat /\ HighestUsed \in Nat
  BY <1>1, <1>3, <1>4, <1>5
<1>7. Latest <= HighestUsed
  BY <1>1, <1>4, <1>5, <1>6
<1>8. Latest # 0 => CurrentConfig \in Configs /\ rows[Latest] # None
  BY <1>1, <1>2, <1>4 DEF CurrentConfig, RowRec, Used
<1>9. QED BY <1>1, <1>2, <1>3, <1>4, <1>5, <1>6, <1>7, <1>8

\* Above a free number everything is free, so nothing is pending there.
LEMMA FreeIsAboveAll ==
  ASSUME TypeOK, RowsInv, NEW r \in Revisions, r \notin Used
  PROVE  \A q \in Used : q < r
<1>1. Revisions \subseteq Nat \ {0}
  BY RevisionBound DEF Revisions
<1>2. ASSUME NEW q \in Used, r <= q PROVE FALSE
  <2>1. q \in Nat /\ r \in 1..q
    BY <1>1, <1>2 DEF Used
  <2>2. QED BY <2>1 DEF RowsInv
<1>3. QED BY <1>1, <1>2 DEF Used

---------------------------------------------------------------------------
(* What the writes to the rows do to the kinds of rows.                    *)

\* Rows that are not touched keep every kind and the latest revision.
LEMMA RowsKept ==
  ASSUME rows' = rows
  PROVE  /\ Used' = Used /\ Pending' = Pending /\ Committed' = Committed
         /\ Latest' = Latest /\ CurrentConfig' = CurrentConfig
BY DEF Used, Pending, Committed, Latest, CurrentConfig

\* Rejecting rows takes them out of the pending ones and changes nothing else.
LEMMA RejectedRows ==
  ASSUME TypeOK, RowsInv, NEW S, Reject(S)
  PROVE  /\ rows' \in [Revisions -> RowRec \cup {None}]
         /\ Used' = Used /\ Committed' = Committed /\ Pending' = Pending \ S
         /\ Latest' = Latest /\ (Latest # 0 => CurrentConfig' = CurrentConfig)
         /\ \A r \in Used : rows'[r].base = rows[r].base /\ rows'[r].config = rows[r].config
<1> DEFINE New(r) == [rows[r] EXCEPT !.status = "rejected"]
<1>1. \A r \in Revisions : rows[r] # None => rows[r] \in RowRec
  BY DEF TypeOK
<1>2. \A r \in Revisions : rows'[r] = IF r \in S /\ r \in Pending THEN New(r) ELSE rows[r]
  BY DEF Reject
<1>3. \A r \in Revisions : rows[r] # None =>
        /\ New(r) \in RowRec /\ New(r) # None /\ New(r).status = "rejected"
        /\ New(r).base = rows[r].base /\ New(r).config = rows[r].config
  BY <1>1, NoneAssumption DEF RowRec
<1>4. Pending \subseteq Revisions /\ \A r \in Pending : rows[r] # None /\ rows[r].status = "pending"
  BY DEF Pending
<1> HIDE DEF New
<1>5. rows' \in [Revisions -> RowRec \cup {None}]
  BY <1>1, <1>3, <1>4 DEF Reject, TypeOK, New
<1>6. Used' = Used /\ Committed' = Committed /\ Pending' = Pending \ S
  BY <1>2, <1>3, <1>4 DEF Used, Committed, Pending
<1>7. Latest' = Latest
  BY <1>6 DEF Latest
<1>8. \A r \in Used : rows'[r].base = rows[r].base /\ rows'[r].config = rows[r].config
  BY <1>2, <1>3, <1>4 DEF Used
<1>9. Latest # 0 => CurrentConfig' = CurrentConfig
  BY <1>7, <1>8, RevisionFacts DEF CurrentConfig
<1>10. QED BY <1>5, <1>6, <1>7, <1>8, <1>9

\* The revision after the last committed one is free: nothing is pending, and
\* everything up to the last committed revision is used.
LEMMA FreeNext ==
  ASSUME TypeOK, RowsInv, PendingIsNext, Latest < MaxRevision, rows[Latest + 1] = None
  PROVE  /\ Latest + 1 \in Revisions /\ Latest + 1 \notin Used
         /\ Pending = {} /\ \A r \in Used : r <= Latest
         /\ \A r \in 1..Latest : r \in Used
<1>1. Latest \in Nat /\ MaxRevision \in Nat /\ Used \subseteq Nat /\ Pending \subseteq Used
  BY RevisionFacts
<1>2. Latest + 1 \in Revisions /\ Latest + 1 \notin Used
  BY <1>1 DEF Revisions, Used
<1>3. \A r \in Used : r < Latest + 1
  BY <1>2, FreeIsAboveAll
<1>4. \A r \in Used : r <= Latest
  BY <1>1, <1>3
<1>5. Pending = {}
  BY <1>1, <1>4 DEF PendingIsNext
<1>6. \A r \in 1..Latest : r \in Used
  BY RevisionFacts DEF RowsInv
<1>7. QED BY <1>2, <1>4, <1>5, <1>6

\* It becomes the only pending row and the last used one.
LEMMA InsertedRows ==
  ASSUME TypeOK, RowsInv, PendingIsNext, Latest < MaxRevision, rows[Latest + 1] = None,
         NEW who \in ApplyIds \cup {"start", "recover"}, NEW config \in Configs,
         Insert(Latest + 1, who, Latest, config)
  PROVE  /\ rows' \in [Revisions -> RowRec \cup {None}]
         /\ Used' = Used \cup {Latest + 1} /\ Committed' = Committed
         /\ Pending' = {Latest + 1}
         /\ Latest' = Latest /\ (Latest # 0 => CurrentConfig' = CurrentConfig)
         /\ rows'[Latest + 1].base = Latest /\ rows'[Latest + 1].config = config
         /\ rows'[Latest + 1] # None
         /\ HasGreatest(Used') /\ \A r \in Used' : \A q \in 1..r : q \in Used'
<1> DEFINE row == [by |-> who, base |-> Latest, config |-> config, status |-> "pending"]
<1>1. Latest \in Nat /\ Used \subseteq Revisions /\ Revisions \subseteq Nat
      /\ (Latest # 0 => Latest \in Used)
  BY RevisionFacts
<1>2. /\ Latest + 1 \in Revisions /\ Latest + 1 \notin Used
      /\ Pending = {} /\ \A r \in Used : r <= Latest
      /\ \A r \in 1..Latest : r \in Used
  BY FreeNext
<1>3. row \in RowRec
  BY <1>1 DEF RowRec
<1>4. rows' = [rows EXCEPT ![Latest + 1] = row]
  BY DEF Insert
<1>5. row # None /\ row.status = "pending" /\ row.base = Latest /\ row.config = config
  BY <1>3, NoneAssumption
<1> HIDE DEF row
<1>6. rows' \in [Revisions -> RowRec \cup {None}]
  BY <1>3, <1>4 DEF TypeOK
<1>7. /\ rows'[Latest + 1] = row
      /\ \A r \in Revisions : r # Latest + 1 => rows'[r] = rows[r]
  BY <1>2, <1>4 DEF TypeOK
<1>8. Used' = Used \cup {Latest + 1}
  BY <1>2, <1>5, <1>7 DEF Used
<1>9. Committed' = Committed
  BY <1>2, <1>5, <1>7 DEF Committed, Used
<1>10. Pending' = {Latest + 1}
  BY <1>2, <1>5, <1>7 DEF Pending
<1>11. Latest' = Latest
  BY <1>9 DEF Latest
<1>12. Latest # 0 => CurrentConfig' = CurrentConfig
  BY <1>1, <1>2, <1>7, <1>11 DEF CurrentConfig
<1>13. \A r \in Used' : r \in Nat /\ r <= Latest + 1
  BY <1>1, <1>2, <1>8
<1>14. HasGreatest(Used')
  BY <1>8, <1>13 DEF HasGreatest
<1>15. \A r \in Used' : \A q \in 1..r : q \in Used'
  BY <1>1, <1>2, <1>8, <1>13
<1>16. QED BY <1>5, <1>6, <1>7, <1>8, <1>9, <1>10, <1>11, <1>12, <1>14, <1>15

\* A recovery rejects what was pending and takes a number above every used one.
LEMMA RecoveredRows ==
  ASSUME TypeOK, RowsInv, Latest # 0, HighestUsed < MaxRevision,
         rows' = [r \in Revisions |->
            IF r = HighestUsed + 1 THEN Recovery(r)
            ELSE IF r \in Pending THEN [rows[r] EXCEPT !.status = "rejected"] ELSE rows[r]]
  PROVE  /\ rows' \in [Revisions -> RowRec \cup {None}]
         /\ HighestUsed + 1 \in Revisions
         /\ Used' = Used \cup {HighestUsed + 1} /\ Committed' = Committed
         /\ Pending' = {HighestUsed + 1}
         /\ Latest' = Latest /\ CurrentConfig' = CurrentConfig
         /\ rows'[HighestUsed + 1].base = Latest
         /\ rows'[HighestUsed + 1].config = CurrentConfig
         /\ rows'[HighestUsed + 1] # None
         /\ HasGreatest(Used') /\ \A r \in Used' : \A q \in 1..r : q \in Used'
<1> DEFINE n == HighestUsed + 1
           row == Recovery(n)
           New(r) == [rows[r] EXCEPT !.status = "rejected"]
<1>1. /\ HighestUsed \in Nat /\ MaxRevision \in Nat /\ Latest \in Nat /\ Latest \in Used
      /\ HighestUsed \in Used /\ \A r \in Used : r <= HighestUsed
      /\ Used \subseteq Revisions /\ Revisions \subseteq Nat \ {0} /\ Pending \subseteq Used
      /\ CurrentConfig \in Configs /\ Latest <= HighestUsed
  BY RevisionFacts
<1>2. n \in Revisions /\ n \notin Used /\ n # Latest
  BY <1>1 DEF Revisions
<1>3. row \in RowRec /\ row # None
  BY <1>1, NoneAssumption DEF RowRec, Recovery
<1>4. row.status = "pending" /\ row.base = Latest /\ row.config = CurrentConfig
  BY DEF Recovery
<1>5. \A r \in Used :
        /\ rows[r] \in RowRec /\ New(r) \in RowRec /\ New(r) # None /\ New(r).status = "rejected"
        /\ New(r).base = rows[r].base /\ New(r).config = rows[r].config
  BY RevisionFacts, NoneAssumption DEF RowRec
<1>6. \A r \in Revisions : rows'[r] = IF r = n THEN row ELSE IF r \in Pending THEN New(r) ELSE rows[r]
  OBVIOUS
<1>7. \A r \in Revisions : r \in Used <=> rows[r] # None
  BY DEF Used
<1>8. rows' = [r \in Revisions |-> IF r = n THEN row ELSE IF r \in Pending THEN New(r) ELSE rows[r]]
  OBVIOUS
<1> HIDE DEF n, row, New
<1>9. rows' \in [Revisions -> RowRec \cup {None}]
  BY <1>1, <1>3, <1>5, <1>7, <1>8
<1>10. Used' = Used \cup {n}
  <2>1. \A r \in Revisions : rows'[r] # None <=> r \in Used \cup {n}
    BY <1>1, <1>3, <1>5, <1>6, <1>7
  <2>2. Used' = {r \in Revisions : rows'[r] # None}
    BY DEF Used
  <2>3. QED BY <1>1, <1>2, <2>1, <2>2
<1>11. Committed' = Committed
  BY <1>1, <1>2, <1>4, <1>5, <1>6, <1>7 DEF Committed, Pending
<1>12. Pending' = {n}
  BY <1>1, <1>2, <1>3, <1>4, <1>5, <1>6, <1>7 DEF Pending
<1>13. Latest' = Latest
  BY <1>11 DEF Latest
<1>14. Latest \notin Pending
  <2>1. Latest \in Committed
    BY RevisionFacts
  <2>2. QED BY <2>1 DEF Committed, Pending
<1>15. CurrentConfig' = CurrentConfig
  BY <1>1, <1>2, <1>6, <1>13, <1>14 DEF CurrentConfig
<1>16. rows'[n] = row
  BY <1>2, <1>6
<1>17. n \in Nat /\ \A r \in Used' : r \in Nat /\ r <= n
  BY <1>1, <1>2, <1>10 DEF n
<1>18. HasGreatest(Used')
  BY <1>10, <1>17 DEF HasGreatest
<1>19. \A r \in 1..HighestUsed : r \in Used
  BY <1>1 DEF RowsInv
<1>20. \A r \in Used' : \A q \in 1..r : q \in Used'
  BY <1>1, <1>10, <1>17, <1>19 DEF n
<1>21. QED BY <1>2, <1>3, <1>4, <1>9, <1>10, <1>11, <1>12, <1>13, <1>15, <1>16, <1>18, <1>20 DEF n

\* The committed row becomes the latest one and nothing is pending any more.
LEMMA CommittedRows ==
  ASSUME TypeOK, RowsInv, PendingIsNext, NEW r \in Pending,
         rows' = [rows EXCEPT ![r].status = "committed"]
  PROVE  /\ rows' \in [Revisions -> RowRec \cup {None}]
         /\ Used' = Used /\ Pending' = {} /\ Committed' = Committed \cup {r}
         /\ HasGreatest(Committed') /\ Latest' = r /\ CurrentConfig' = rows[r].config
<1> DEFINE row == [rows[r] EXCEPT !.status = "committed"]
<1>1. /\ r \in Used /\ r \in Revisions /\ r \in Nat /\ rows[r] \in RowRec
      /\ Committed \subseteq Revisions /\ Revisions \subseteq Nat
      /\ Latest \in Nat /\ \A q \in Committed : q <= Latest
  BY RevisionFacts
<1>2. row \in RowRec /\ row.status = "committed" /\ row.config = rows[r].config /\ row # None
  BY <1>1, NoneAssumption DEF RowRec
<1>3. rows' = [rows EXCEPT ![r] = row]
  BY <1>1 DEF TypeOK
<1> HIDE DEF row
<1>4. rows' \in [Revisions -> RowRec \cup {None}]
  BY <1>2, <1>3 DEF TypeOK
<1>5. rows'[r] = row /\ \A q \in Revisions : q # r => rows'[q] = rows[q]
  BY <1>1, <1>3 DEF TypeOK
<1>6. Used' = Used
  BY <1>1, <1>2, <1>5 DEF Used
<1>7. Committed' = Committed \cup {r}
  BY <1>1, <1>2, <1>5 DEF Committed
<1>8. Pending' = {}
  BY <1>1, <1>2, <1>5 DEF Pending, PendingIsNext
<1>9. Latest < r
  BY <1>1 DEF PendingIsNext
<1>10. Committed' \in SUBSET Revisions /\ r \in Committed' /\ \A q \in Committed' : q <= r
  BY <1>1, <1>7, <1>9
<1>11. HasGreatest(Committed') /\ Latest' = r
  BY <1>10, GreatestIs DEF Latest
<1>12. CurrentConfig' = rows[r].config
  BY <1>2, <1>5, <1>11 DEF CurrentConfig
<1>13. QED BY <1>4, <1>6, <1>7, <1>8, <1>11, <1>12

---------------------------------------------------------------------------
(* What the invariant says of the operation and the runtime.               *)

LEMMA OpFacts ==
  ASSUME IInv, op # None
  PROVE  /\ op \in OpRec /\ op.seen \in RecordRec /\ up /\ record.outcome # "absent"
         /\ op.phase # "read" =>
              op.revision \in Used /\ op.revision \in Revisions /\ rows[op.revision] # None
BY DEF IInv, TypeOK, OpInv, OpRec, Used

\* Steps that leave the rows alone keep them sound.
LEMMA RowsUntouched ==
  ASSUME IInv, rows' = rows, record'.outcome = "absent" => record.outcome = "absent"
  PROVE  /\ PendingIsNext' /\ RowsInv'
         /\ rows' \in [Revisions -> RowRec \cup {None}]
         /\ Latest' = Latest /\ CurrentConfig' = CurrentConfig
<1>1. /\ Used' = Used /\ Pending' = Pending /\ Committed' = Committed
      /\ Latest' = Latest /\ CurrentConfig' = CurrentConfig
  BY RowsKept
<1>2. PendingIsNext'
  BY <1>1 DEF IInv, PendingIsNext
<1>3. RowsInv'
  BY <1>1 DEF IInv, RowsInv, HasGreatest
<1>4. QED BY <1>1, <1>2, <1>3 DEF IInv, TypeOK

\* So do steps that reject rows.
LEMMA RowsRejected ==
  ASSUME IInv, NEW S, Reject(S), record'.outcome = "absent" => record.outcome = "absent"
  PROVE  /\ PendingIsNext' /\ RowsInv'
         /\ rows' \in [Revisions -> RowRec \cup {None}]
         /\ Latest' = Latest /\ (Latest # 0 => CurrentConfig' = CurrentConfig)
<1>1. TypeOK /\ RowsInv /\ PendingIsNext
  BY DEF IInv
<1>2. /\ rows' \in [Revisions -> RowRec \cup {None}]
      /\ Used' = Used /\ Committed' = Committed /\ Pending' = Pending \ S
      /\ Latest' = Latest /\ (Latest # 0 => CurrentConfig' = CurrentConfig)
      /\ \A r \in Used : rows'[r].base = rows[r].base /\ rows'[r].config = rows[r].config
  BY <1>1, RejectedRows
<1>3. Pending \subseteq Used
  BY <1>1, RevisionFacts
<1>4. PendingIsNext'
  BY <1>1, <1>2, <1>3 DEF PendingIsNext
<1>5. RowsInv'
  BY <1>1, <1>2 DEF RowsInv, HasGreatest
<1>6. QED BY <1>2, <1>4, <1>5

\* A closed runtime is the same one, not accepting.
LEMMA ClosedFacts ==
  ASSUME NEW m \in MemoryRec \cup {None}
  PROVE  /\ Closed(m) \in MemoryRec \cup {None}
         /\ Closed(m) = None <=> m = None
         /\ m # None => /\ Closed(m).epoch = m.epoch /\ Closed(m).population = m.population
                        /\ Closed(m).config = m.config /\ ~Closed(m).accepting
<1>1. CASE m = None
  BY <1>1 DEF Closed
<1>2. CASE m # None
  <2>1. m \in MemoryRec /\ Closed(m) = [m EXCEPT !.accepting = FALSE]
    BY <1>2 DEF Closed
  <2>2. Closed(m) \in MemoryRec
    BY <2>1 DEF MemoryRec
  <2>3. QED BY <1>2, <2>1, <2>2, NoneAssumption DEF MemoryRec
<1>3. QED BY <1>1, <1>2

\* A snapshot leaves a runtime that says what is durable; one it publishes
\* itself accepts nothing, since an unfinished session's process would have one.
LEMMA SnapshotFacts ==
  ASSUME IInv, op # None, NEW k, Snapshot(k)
  PROVE  /\ memory' \in MemoryRec /\ memory' # None /\ served' = served
         /\ memory'.epoch = record.epoch /\ memory'.population = record.population
         /\ Latest # 0 /\ memory'.config = CurrentConfig
         /\ Accepting(memory') => Accepting(memory)
         /\ memory # None => memory' = memory
<1>1. Latest # 0
  BY DEF Snapshot
<1>2. CASE memory # None
  BY <1>1, <1>2 DEF Snapshot, IInv, TypeOK, DurableBeforeVisible
<1>3. CASE memory = None
  <2>1. Publish(Activated) /\ op.phase = "read"
    BY <1>3 DEF Snapshot
  <2>2. op.seen.outcome # "open" /\ op.seen.epoch = record.epoch
        /\ op.seen.population = record.population
    BY <1>1, <1>3, <2>1 DEF IInv, OpInv
  <2>3. op.seen \in RecordRec /\ CurrentConfig \in Configs
    BY <1>1, OpFacts, RevisionFacts DEF IInv
  <2>4. Activated \in MemoryRec /\ Activated # None /\ ~Activated.accepting
    <3>1. (op.seen.outcome = "open") = FALSE
      BY <2>2
    <3>2. Activated = [epoch |-> op.seen.epoch, population |-> op.seen.population,
                       config |-> CurrentConfig, accepting |-> FALSE]
      BY <3>1, Zenon DEF Activated
    <3>3. Activated \in MemoryRec
      BY <2>3, <3>2 DEF MemoryRec, RecordRec
    <3>4. QED BY <3>2, <3>3, NoneAssumption
  <2>5. Activated.epoch = record.epoch /\ Activated.population = record.population
        /\ Activated.config = CurrentConfig
    BY <2>2 DEF Activated
  <2>6. memory' = Activated /\ served' = served
    BY <2>1, <2>4 DEF Publish, Accepting
  <2>7. QED BY <1>1, <1>3, <2>4, <2>5, <2>6 DEF Accepting
<1>4. QED BY <1>2, <1>3

---------------------------------------------------------------------------
(* The invariant: one lemma per action.                                    *)

LEMMA StartKeeps ==
  ASSUME IInv, NEW config \in Configs, Start(config)
  PROVE  IInv'
<1>1. /\ up /\ op = None /\ record.outcome = "absent" /\ record' = NewRecord
      /\ Insert(1, "start", 0, config) /\ session' = "live"
      /\ op' = [kind |-> "start", by |-> "start", config |-> config, phase |-> "commit",
                seen |-> record', revision |-> 1, base |-> 0, population |-> 1, adopted |-> TRUE]
      /\ UNCHANGED <<up, memory, served>>
  BY DEF Start, PersistStarting
<1>2. TypeOK /\ RowsInv /\ PendingIsNext /\ MemoryInv
  BY DEF IInv
<1>3. Used = {} /\ memory = None /\ served = 0
  BY <1>1, <1>2 DEF RowsInv, MemoryInv
<1>4. Latest = 0 /\ MaxRevision \in Nat \ {0}
  BY <1>2, <1>3, RevisionFacts, RevisionBound
<1>5. Latest < MaxRevision /\ rows[Latest + 1] = None /\ Latest + 1 = 1
  BY <1>3, <1>4 DEF Used, Revisions
<1>6. Insert(Latest + 1, "start", Latest, config)
  BY <1>1, <1>4, <1>5
<1>7. /\ rows' \in [Revisions -> RowRec \cup {None}]
      /\ Used' = Used \cup {Latest + 1} /\ Committed' = Committed
      /\ Pending' = {Latest + 1} /\ Latest' = Latest
      /\ rows'[Latest + 1].base = Latest /\ rows'[Latest + 1].config = config
      /\ rows'[Latest + 1] # None
      /\ HasGreatest(Used') /\ \A r \in Used' : \A q \in 1..r : q \in Used'
  BY <1>2, <1>5, <1>6, InsertedRows
<1>8. record' \in RecordRec /\ record'.outcome = "open" /\ record'.epoch = 0
  BY <1>1 DEF NewRecord, RecordRec
<1>9. op' \in OpRec /\ op'.revision = 1 /\ op'.phase = "commit" /\ op'.kind = "start"
      /\ op'.seen = record' /\ op'.config = config /\ op' # None
  <2>1. op' \in OpRec
    BY <1>1, <1>8 DEF OpRec
  <2>2. op' # None
    BY <2>1, NoneAssumption
  <2>3. QED BY <1>1, <2>1, <2>2
<1>10. TypeOK'
  BY <1>1, <1>2, <1>4, <1>5, <1>7, <1>8, <1>9 DEF TypeOK, Revisions
<1>11. PendingIsNext'
  BY <1>4, <1>5, <1>7 DEF PendingIsNext
<1>12. RowsInv'
  BY <1>2, <1>7, <1>8 DEF RowsInv, HasGreatest
<1>13. OpInv'
  BY <1>1, <1>5, <1>7, <1>8, <1>9 DEF OpInv
<1>14. DurableBeforeVisible' /\ MemoryInv'
  BY <1>1, <1>3, <1>4, <1>7, <1>8 DEF DurableBeforeVisible, MemoryInv
<1>15. QED BY <1>10, <1>11, <1>12, <1>13, <1>14 DEF IInv

LEMMA ReadKeeps ==
  ASSUME IInv, NEW kind \in {"current", "apply", "rollback", "recover"},
         NEW who \in ApplyIds \cup {"current", "recover"}, NEW config \in Configs,
         kind \in {"apply", "rollback"} => who \in ApplyIds,
         Read(kind, who, config)
  PROVE  IInv'
<1>1. /\ up /\ op = None /\ record.outcome # "absent"
      /\ op' = [kind |-> kind, by |-> who, config |-> config, phase |-> "read", seen |-> record,
                revision |-> 0, base |-> 0, population |-> 0, adopted |-> FALSE]
      /\ UNCHANGED <<up, record, rows, memory, session, served>>
  BY DEF Read
<1>2. TypeOK /\ MemoryInv /\ DurableBeforeVisible
  BY DEF IInv
<1>3. /\ PendingIsNext' /\ RowsInv' /\ rows' \in [Revisions -> RowRec \cup {None}]
      /\ Latest' = Latest /\ CurrentConfig' = CurrentConfig
  BY <1>1, RowsUntouched
<1>4. op' \in OpRec /\ op'.phase = "read" /\ op'.seen = record
      /\ (op'.kind \in {"apply", "rollback"} => op'.by \in ApplyIds)
  BY <1>1, <1>2 DEF OpRec, TypeOK
<1>5. TypeOK'
  BY <1>1, <1>2, <1>3, <1>4 DEF TypeOK
<1>6. OpInv'
  BY <1>1, <1>2, <1>3, <1>4 DEF OpInv, MemoryInv
<1>7. DurableBeforeVisible' /\ MemoryInv'
  BY <1>1, <1>2, <1>3 DEF DurableBeforeVisible, MemoryInv
<1>8. QED BY <1>3, <1>5, <1>6, <1>7 DEF IInv

LEMMA SnapshotFailsKeeps ==
  ASSUME IInv, SnapshotFails PROVE IInv'
<1>1. op' = None /\ UNCHANGED <<up, record, rows, memory, served>>
  BY DEF SnapshotFails
<1>2. TypeOK /\ MemoryInv /\ DurableBeforeVisible
  BY DEF IInv
<1>3. session' \in {"idle", "live", "stopping"}
  BY <1>2 DEF SnapshotFails, Adopts, TypeOK
<1>4. /\ PendingIsNext' /\ RowsInv' /\ rows' \in [Revisions -> RowRec \cup {None}]
      /\ Latest' = Latest /\ CurrentConfig' = CurrentConfig
  BY <1>1, RowsUntouched
<1>5. TypeOK'
  BY <1>1, <1>2, <1>3, <1>4 DEF TypeOK
<1>6. OpInv' /\ DurableBeforeVisible' /\ MemoryInv'
  BY <1>1, <1>2, <1>4 DEF OpInv, DurableBeforeVisible, MemoryInv
<1>7. QED BY <1>4, <1>5, <1>6 DEF IInv

LEMMA AnswerKeeps ==
  ASSUME IInv, Answer PROVE IInv'
<1>1. /\ op # None /\ op' = None /\ session' = Adopts /\ UNCHANGED <<up, record, rows>>
      /\ Snapshot(op.kind)
  BY DEF Answer
<1>2. TypeOK /\ MemoryInv
  BY DEF IInv
<1>3. up /\ record.outcome # "absent"
  BY <1>1, OpFacts
<1>4. /\ memory' \in MemoryRec /\ memory' # None /\ served' = served
      /\ memory'.epoch = record.epoch /\ memory'.population = record.population
      /\ Latest # 0 /\ memory'.config = CurrentConfig
  BY <1>1, SnapshotFacts
<1>5. session' \in {"idle", "live", "stopping"}
  BY <1>1, <1>2 DEF Adopts, TypeOK
<1>6. /\ PendingIsNext' /\ RowsInv' /\ rows' \in [Revisions -> RowRec \cup {None}]
      /\ Latest' = Latest /\ CurrentConfig' = CurrentConfig
  BY <1>1, RowsUntouched
<1>7. TypeOK'
  BY <1>1, <1>2, <1>4, <1>5, <1>6 DEF TypeOK
<1>8. OpInv' /\ DurableBeforeVisible' /\ MemoryInv'
  BY <1>1, <1>2, <1>3, <1>4, <1>6 DEF OpInv, DurableBeforeVisible, MemoryInv
<1>9. QED BY <1>6, <1>7, <1>8 DEF IInv

LEMMA RecordPendingKeeps ==
  ASSUME IInv, RecordPending PROVE IInv'
<1>1. /\ op # None /\ op.kind \in {"apply", "rollback"} /\ Snapshot(op.kind) /\ ~Answered
      /\ session' = Adopts /\ UNCHANGED <<up, record>>
  BY DEF RecordPending
<1>2. TypeOK /\ RowsInv /\ PendingIsNext /\ OpInv /\ MemoryInv
  BY DEF IInv
<1>3. /\ op \in OpRec /\ op.seen \in RecordRec /\ up /\ record.outcome # "absent"
      /\ op.phase = "read"
  BY <1>1, OpFacts DEF Snapshot
<1>4. /\ memory' \in MemoryRec /\ memory' # None /\ served' = served
      /\ memory'.epoch = record.epoch /\ memory'.population = record.population
      /\ Latest # 0 /\ memory'.config = CurrentConfig
  BY <1>1, SnapshotFacts
<1>5. session' \in {"idle", "live", "stopping"}
  BY <1>1, <1>2 DEF Adopts, TypeOK
<1>6. Latest \in Nat
  BY <1>2, RevisionFacts
<1> DEFINE To(r) == [op EXCEPT !.phase = "audience", !.base = Latest, !.revision = r]
<1>7. ASSUME NEW r \in Nat
      PROVE  /\ To(r) \in OpRec /\ To(r) # None /\ To(r).phase = "audience" /\ To(r).revision = r
             /\ To(r).kind = op.kind /\ To(r).by = op.by /\ To(r).seen = op.seen /\ To(r).config = op.config
  BY <1>3, <1>6, NoneAssumption DEF OpRec
<1> HIDE DEF To
\* Whichever row it is, the operation that goes on has found or made it.
<1>8. ASSUME NEW r \in Nat, op' = To(r), r \in Revisions, rows'[r] # None,
             rows'[r].config = op.config, PendingIsNext', RowsInv',
             rows' \in [Revisions -> RowRec \cup {None}],
             Latest' = Latest, CurrentConfig' = CurrentConfig
      PROVE  IInv'
  <2>1. TypeOK'
    BY <1>1, <1>2, <1>4, <1>5, <1>7, <1>8 DEF TypeOK
  <2>2. OpInv'
    BY <1>1, <1>2, <1>3, <1>4, <1>7, <1>8 DEF OpInv
  <2>3. DurableBeforeVisible' /\ MemoryInv'
    BY <1>1, <1>2, <1>3, <1>4, <1>8 DEF DurableBeforeVisible, MemoryInv
  <2>4. QED BY <1>8, <2>1, <2>2, <2>3 DEF IInv
<1>9. CASE Prior(op.by) # {}
  <2>1. PICK r : r = CHOOSE q \in Prior(op.by) : TRUE
    OBVIOUS
  <2>2. r \in Prior(op.by)
    BY <1>9, <2>1
  <2>3. op' = To(r) /\ rows' = rows
    BY <1>9, <2>1 DEF RecordPending, To
  <2>4. r \in Revisions /\ r \in Nat /\ rows[r] # None /\ rows[r].config = op.config
    BY <1>1, <1>9, <2>2, <1>2, RevisionFacts DEF Prior, Answered
  <2>5. /\ PendingIsNext' /\ RowsInv' /\ rows' \in [Revisions -> RowRec \cup {None}]
        /\ Latest' = Latest /\ CurrentConfig' = CurrentConfig
    BY <1>1, <2>3, RowsUntouched
  <2>6. QED BY <1>8, <2>3, <2>4, <2>5
<1>10. CASE Prior(op.by) = {}
  <2>1. /\ Latest < MaxRevision /\ Insert(Latest + 1, op.by, Latest, op.config)
        /\ op' = To(Latest + 1)
    BY <1>10 DEF RecordPending, To
  <2>2. rows[Latest + 1] = None
    BY <1>1, <1>10, <2>1 DEF Answered
  <2>3. op.by \in ApplyIds \cup {"start", "recover"} /\ op.config \in Configs
    BY <1>1, <1>2, <1>3 DEF OpInv, OpRec
  <2>4. Latest + 1 \in Revisions
    BY <1>2, <2>1, <2>2, FreeNext
  <2>5. /\ rows' \in [Revisions -> RowRec \cup {None}]
        /\ Used' = Used \cup {Latest + 1} /\ Committed' = Committed
        /\ Pending' = {Latest + 1}
        /\ Latest' = Latest /\ CurrentConfig' = CurrentConfig
        /\ rows'[Latest + 1].base = Latest /\ rows'[Latest + 1].config = op.config
        /\ rows'[Latest + 1] # None
        /\ HasGreatest(Used') /\ \A r \in Used' : \A q \in 1..r : q \in Used'
    BY <1>2, <1>4, <2>1, <2>2, <2>3, InsertedRows
  <2>6. PendingIsNext'
    BY <1>6, <2>5 DEF PendingIsNext
  <2>7. RowsInv'
    BY <1>1, <1>2, <1>3, <2>5 DEF RowsInv, HasGreatest
  <2>8. Latest + 1 \in Nat
    BY <1>6
  <2>9. QED BY <1>8, <2>1, <2>4, <2>5, <2>6, <2>7, <2>8
<1>11. QED BY <1>9, <1>10

LEMMA RecordRecoveryKeeps ==
  ASSUME IInv, RecordRecovery PROVE IInv'
<1> DEFINE n == HighestUsed + 1
<1>1. /\ op # None /\ op.kind = "recover" /\ Snapshot("recover") /\ ~Answered
      /\ HighestUsed < MaxRevision /\ UNCHANGED <<up, record>>
      /\ rows' = [r \in Revisions |->
            IF r = n THEN Recovery(r)
            ELSE IF r \in Pending THEN [rows[r] EXCEPT !.status = "rejected"] ELSE rows[r]]
      /\ op' = [op EXCEPT !.phase = "audience", !.base = Latest, !.revision = n,
                          !.config = CurrentConfig, !.adopted = (session = "idle")]
      /\ session' = IF session = "idle" THEN "live" ELSE session
  BY DEF RecordRecovery
<1>2. TypeOK /\ RowsInv /\ PendingIsNext /\ OpInv /\ MemoryInv
  BY DEF IInv
<1>3. op \in OpRec /\ up /\ record.outcome # "absent" /\ op.seen.outcome = "interrupted"
  BY <1>1, OpFacts DEF Answered
<1>4. /\ memory' \in MemoryRec /\ memory' # None /\ served' = served
      /\ memory'.epoch = record.epoch /\ memory'.population = record.population
      /\ Latest # 0 /\ memory'.config = CurrentConfig
  BY <1>1, SnapshotFacts
<1>5. Latest \in Nat /\ n \in Nat /\ CurrentConfig \in Configs /\ Latest <= HighestUsed
      /\ HighestUsed \in Nat
  BY <1>2, <1>4, RevisionFacts
<1>6. /\ rows' \in [Revisions -> RowRec \cup {None}]
      /\ n \in Revisions
      /\ Used' = Used \cup {n} /\ Committed' = Committed /\ Pending' = {n}
      /\ Latest' = Latest /\ CurrentConfig' = CurrentConfig
      /\ rows'[n].base = Latest /\ rows'[n].config = CurrentConfig /\ rows'[n] # None
      /\ HasGreatest(Used') /\ \A r \in Used' : \A q \in 1..r : q \in Used'
  BY <1>1, <1>2, <1>4, RecoveredRows
<1>7. Latest < n
  BY <1>5
<1> HIDE DEF n
<1>8. op' \in OpRec
  <2>1. (session = "idle") \in BOOLEAN
    OBVIOUS
  <2>2. PICK b \in BOOLEAN : b = (session = "idle")
    BY <2>1
  <2>3. op' = [op EXCEPT !.phase = "audience", !.base = Latest, !.revision = n,
                         !.config = CurrentConfig, !.adopted = b]
    BY <1>1, <2>2, Zenon
  <2>4. QED BY <1>3, <1>5, <2>3 DEF OpRec
<1>9. /\ op' # None /\ op'.phase = "audience" /\ op'.revision = n /\ op'.kind = "recover"
      /\ op'.config = CurrentConfig /\ op'.seen = op.seen
  <2>1. op' # None
    BY <1>8, NoneAssumption
  <2>2. DOMAIN op = {"kind", "by", "config", "phase", "seen", "revision", "base",
                     "population", "adopted"}
    BY <1>3 DEF OpRec
  <2>3. QED BY <1>1, <2>1, <2>2
<1>10. session' \in {"idle", "live", "stopping"}
  BY <1>1, <1>2 DEF TypeOK
<1>11. TypeOK'
  BY <1>1, <1>2, <1>4, <1>6, <1>8, <1>9, <1>10 DEF TypeOK
<1>12. PendingIsNext'
  BY <1>6, <1>7 DEF PendingIsNext
<1>13. RowsInv'
  BY <1>1, <1>2, <1>3, <1>6 DEF RowsInv, HasGreatest
<1>14. OpInv'
  BY <1>1, <1>2, <1>3, <1>4, <1>6, <1>9 DEF OpInv
<1>15. DurableBeforeVisible' /\ MemoryInv'
  BY <1>1, <1>2, <1>3, <1>4, <1>6 DEF DurableBeforeVisible, MemoryInv
<1>16. QED BY <1>11, <1>12, <1>13, <1>14, <1>15 DEF IInv

LEMMA ReadAudienceKeeps ==
  ASSUME IInv, ReadAudience PROVE IInv'
<1>1. /\ op # None /\ op.phase = "audience"
      /\ op' = [op EXCEPT !.phase = "commit", !.population = memory.population]
      /\ UNCHANGED <<up, record, rows, memory, session, served>>
  BY DEF ReadAudience
<1>2. TypeOK /\ OpInv /\ MemoryInv /\ DurableBeforeVisible
  BY DEF IInv
<1>3. op \in OpRec /\ op.revision \in Revisions /\ rows[op.revision] # None
  BY <1>1, OpFacts
<1>4. memory # None /\ memory.population \in Nat
  BY <1>1, <1>2 DEF OpInv, TypeOK, MemoryRec
<1>5. op' \in OpRec
  BY <1>1, <1>3, <1>4 DEF OpRec
<1>6. /\ op'.phase = "commit" /\ op'.revision = op.revision /\ op'.kind = op.kind
      /\ op'.by = op.by /\ op'.config = op.config /\ op'.seen = op.seen
  BY <1>1, <1>3 DEF OpRec
<1>7. /\ PendingIsNext' /\ RowsInv' /\ rows' \in [Revisions -> RowRec \cup {None}]
      /\ Latest' = Latest /\ CurrentConfig' = CurrentConfig
  BY <1>1, RowsUntouched
<1>8. TypeOK'
  BY <1>1, <1>2, <1>3, <1>5, <1>6 DEF TypeOK
<1>9. OpInv'
  BY <1>1, <1>2, <1>4, <1>6 DEF OpInv
<1>10. DurableBeforeVisible' /\ MemoryInv'
  BY <1>1, <1>2, <1>7 DEF DurableBeforeVisible, MemoryInv
<1>11. QED BY <1>7, <1>8, <1>9, <1>10 DEF IInv

\* The runtime a commit publishes, and why its epoch is new.
LEMMA CommitFacts ==
  ASSUME IInv, Commit
  PROVE  /\ op # None /\ op.phase = "commit" /\ op.revision \in Pending
         /\ rows[op.revision].config = op.config
         /\ memory' \in MemoryRec /\ memory' # None
         /\ memory'.epoch = NextEpoch /\ memory'.population = NextPopulation
         /\ memory'.config = op.config
         /\ record' \in RecordRec /\ record'.epoch = NextEpoch
         /\ record'.population = NextPopulation
         /\ record'.outcome = IF op.kind = "recover" THEN "open" ELSE record.outcome
         /\ served < NextEpoch /\ served' = NextEpoch
<1>1. /\ op # None /\ op.phase = "commit" /\ CanCommit
      /\ record' = [outcome |-> IF op.kind = "recover" THEN "open" ELSE record.outcome,
                    epoch |-> NextEpoch, population |-> NextPopulation]
      /\ Publish([epoch |-> NextEpoch, population |-> NextPopulation, config |-> op.config,
                  accepting |-> TRUE])
  BY DEF Commit
<1>2. op \in OpRec /\ op.seen \in RecordRec /\ op.revision \in Revisions
      /\ rows[op.revision] # None
  BY <1>1, OpFacts
<1>3. op.revision \in Pending
  BY <1>1, <1>2 DEF CanCommit, Pending
<1>4. op.seen.epoch = record.epoch /\ rows[op.revision].config = op.config
      /\ served <= record.epoch /\ served \in Nat /\ record \in RecordRec
  BY <1>1 DEF IInv, OpInv, MemoryInv, TypeOK
<1>5. NextEpoch \in Nat /\ served < NextEpoch
  BY <1>2, <1>4 DEF NextEpoch, RecordRec
<1>6. NextPopulation \in Nat /\ op.config \in Configs
  BY <1>2 DEF NextPopulation, OpRec
<1> DEFINE m == [epoch |-> NextEpoch, population |-> NextPopulation, config |-> op.config,
                 accepting |-> TRUE]
<1>7. m \in MemoryRec /\ m # None /\ m.accepting
  <2>1. m \in MemoryRec
    BY <1>5, <1>6 DEF MemoryRec
  <2>2. m # None
    BY <2>1, NoneAssumption
  <2>3. QED BY <2>1, <2>2
<1>8. memory' = m /\ served' = NextEpoch
  BY <1>1, <1>5, <1>7 DEF Publish, Accepting
<1>9. record' \in RecordRec
  BY <1>1, <1>4, <1>5, <1>6 DEF RecordRec
<1>10. QED BY <1>1, <1>3, <1>4, <1>5, <1>7, <1>8, <1>9

LEMMA CommitKeeps ==
  ASSUME IInv, Commit PROVE IInv'
<1>1. /\ rows' = [rows EXCEPT ![op.revision].status = "committed"]
      /\ op' = None /\ UNCHANGED <<up, session>>
  BY DEF Commit
<1>2. TypeOK /\ RowsInv /\ PendingIsNext
  BY DEF IInv
<1>3. /\ op # None /\ op.phase = "commit" /\ op.revision \in Pending
      /\ rows[op.revision].config = op.config
      /\ memory' \in MemoryRec /\ memory' # None
      /\ memory'.epoch = record'.epoch /\ memory'.population = record'.population
      /\ memory'.config = op.config
      /\ record' \in RecordRec /\ served' = record'.epoch
      /\ record'.outcome = IF op.kind = "recover" THEN "open" ELSE record.outcome
  BY CommitFacts
<1>4. /\ rows' \in [Revisions -> RowRec \cup {None}]
      /\ Used' = Used /\ Pending' = {} /\ Committed' = Committed \cup {op.revision}
      /\ HasGreatest(Committed') /\ Latest' = op.revision
      /\ CurrentConfig' = rows[op.revision].config
  BY <1>1, <1>2, <1>3, CommittedRows
<1>5. up /\ record.outcome # "absent" /\ op.revision # 0
  BY <1>3, OpFacts, RevisionBound DEF Revisions
<1>6. TypeOK'
  BY <1>1, <1>2, <1>3, <1>4 DEF TypeOK, RecordRec
<1>7. PendingIsNext'
  BY <1>4 DEF PendingIsNext
<1>8. RowsInv'
  BY <1>2, <1>3, <1>4, <1>5 DEF RowsInv, HasGreatest
<1>9. DurableBeforeVisible'
  BY <1>3, <1>4, <1>5 DEF DurableBeforeVisible
<1>10. OpInv' /\ MemoryInv'
  BY <1>1, <1>3, <1>5 DEF OpInv, MemoryInv, RecordRec
<1>11. QED BY <1>6, <1>7, <1>8, <1>9, <1>10 DEF IInv

LEMMA PrepareFailsKeeps ==
  ASSUME IInv, PrepareFails PROVE IInv'
<1>1. /\ Reject({op.revision}) /\ op' = None
      /\ UNCHANGED <<up, record, memory, session, served>>
  BY DEF PrepareFails
<1>2. TypeOK /\ MemoryInv /\ DurableBeforeVisible
  BY DEF IInv
<1>3. /\ PendingIsNext' /\ RowsInv' /\ rows' \in [Revisions -> RowRec \cup {None}]
      /\ Latest' = Latest /\ (Latest # 0 => CurrentConfig' = CurrentConfig)
  BY <1>1, RowsRejected
<1>4. TypeOK'
  BY <1>1, <1>2, <1>3 DEF TypeOK
<1>5. OpInv' /\ DurableBeforeVisible' /\ MemoryInv'
  BY <1>1, <1>2, <1>3 DEF OpInv, DurableBeforeVisible, MemoryInv
<1>6. QED BY <1>3, <1>4, <1>5 DEF IInv

\* A refused commit changes at most the pending row, an unfinished record and
\* whether the runtime accepts results.
LEMMA CommitFailsFacts ==
  ASSUME IInv, CommitFails
  PROVE  /\ op # None /\ op' = None /\ UNCHANGED <<up, served>>
         /\ rows' = rows \/ \E S : Reject(S)
         /\ memory' = memory \/ memory' = Closed(memory)
         /\ session' \in {"idle", "live", "stopping"}
         /\ record' \in RecordRec /\ record'.epoch = record.epoch
         /\ record'.population = record.population
         /\ \/ record' = record
            \/ record.outcome = "open" /\ record'.outcome = "error"
<1>1. TypeOK
  BY DEF IInv
<1>2. record \in RecordRec /\ session \in {"idle", "live", "stopping"}
  BY <1>1 DEF TypeOK
<1>3. CASE op.kind \in {"apply", "rollback"} /\ UNCHANGED <<record, rows, memory, session>>
  BY <1>2, <1>3 DEF CommitFails
<1>4. CASE /\ op.kind = "recover"
           /\ Reject({op.revision})
           /\ session' = IF op.adopted /\ session = "live" THEN "idle" ELSE session
           /\ memory' = IF op.adopted /\ session = "live" THEN Closed(memory) ELSE memory
           /\ UNCHANGED record
  BY <1>2, <1>4 DEF CommitFails
<1>5. CASE op.kind = "start" /\ session = "live" /\ RejectStart
           /\ session' = "idle" /\ memory' = Closed(memory)
  BY <1>2, <1>5 DEF CommitFails, RejectStart, RecordRec
<1>6. CASE op.kind = "start" /\ session # "live" /\ UNCHANGED <<record, rows, memory, session>>
  BY <1>2, <1>6 DEF CommitFails
<1>7. QED BY <1>3, <1>4, <1>5, <1>6 DEF CommitFails

LEMMA CommitFailsKeeps ==
  ASSUME IInv, CommitFails PROVE IInv'
<1>1. TypeOK /\ MemoryInv /\ DurableBeforeVisible
  BY DEF IInv
<1>2. /\ op # None /\ op' = None /\ UNCHANGED <<up, served>>
      /\ rows' = rows \/ \E S : Reject(S)
      /\ memory' = memory \/ memory' = Closed(memory)
      /\ session' \in {"idle", "live", "stopping"}
      /\ record' \in RecordRec /\ record'.epoch = record.epoch
      /\ record'.population = record.population
      /\ \/ record' = record
         \/ record.outcome = "open" /\ record'.outcome = "error"
  BY CommitFailsFacts
<1>3. record'.outcome = "absent" => record.outcome = "absent"
  BY <1>2
<1>4. /\ PendingIsNext' /\ RowsInv' /\ rows' \in [Revisions -> RowRec \cup {None}]
      /\ Latest' = Latest /\ (Latest # 0 => CurrentConfig' = CurrentConfig)
  BY <1>2, <1>3, RowsUntouched, RowsRejected
<1>5. memory \in MemoryRec \cup {None}
  BY <1>1 DEF TypeOK
<1>6. /\ memory' \in MemoryRec \cup {None} /\ (memory' = None <=> memory = None)
      /\ memory # None => /\ memory'.epoch = memory.epoch
                          /\ memory'.population = memory.population
                          /\ memory'.config = memory.config
  BY <1>2, <1>5, ClosedFacts
<1>7. TypeOK'
  BY <1>1, <1>2, <1>4, <1>6 DEF TypeOK
<1>8. OpInv' /\ DurableBeforeVisible' /\ MemoryInv'
  BY <1>1, <1>2, <1>3, <1>4, <1>6 DEF OpInv, DurableBeforeVisible, MemoryInv
<1>9. QED BY <1>4, <1>7, <1>8 DEF IInv

LEMMA AudienceUpdateKeeps ==
  ASSUME IInv, AudienceUpdate PROVE IInv'
<1>1. /\ up /\ memory # None
      /\ record' = [record EXCEPT !.population = @ + 1]
      /\ memory' = [memory EXCEPT !.population = @ + 1]
      /\ UNCHANGED <<up, rows, session, op, served>>
  BY DEF AudienceUpdate
<1>2. TypeOK /\ OpInv /\ MemoryInv /\ DurableBeforeVisible
  BY DEF IInv
<1>3. /\ record' \in RecordRec /\ record'.epoch = record.epoch /\ record'.outcome = record.outcome
      /\ record'.population = record.population + 1
  BY <1>1, <1>2 DEF TypeOK, RecordRec
<1>4. /\ memory' \in MemoryRec /\ memory'.epoch = memory.epoch /\ memory'.config = memory.config
      /\ memory'.population = memory.population + 1
  BY <1>1, <1>2 DEF TypeOK, MemoryRec
<1>5. memory' # None
  BY <1>4, NoneAssumption
<1>6. /\ PendingIsNext' /\ RowsInv' /\ rows' \in [Revisions -> RowRec \cup {None}]
      /\ Latest' = Latest /\ CurrentConfig' = CurrentConfig
  BY <1>1, <1>3, RowsUntouched
<1>7. TypeOK'
  BY <1>1, <1>2, <1>3, <1>4, <1>6 DEF TypeOK
<1>8. OpInv'
  BY <1>1, <1>2, <1>3, <1>5 DEF OpInv
<1>9. DurableBeforeVisible'
  BY <1>1, <1>2, <1>3, <1>4, <1>6 DEF DurableBeforeVisible
<1>10. MemoryInv'
  BY <1>1, <1>2, <1>3, <1>5 DEF MemoryInv
<1>11. QED BY <1>6, <1>7, <1>8, <1>9, <1>10 DEF IInv

\* Stopping and ending the session leave the rows and the operation alone.
LEMMA StopKeeps ==
  ASSUME IInv, Stop \/ Stopped PROVE IInv'
<1>1. /\ UNCHANGED <<up, rows, op, served>> /\ session' \in {"idle", "stopping"}
      /\ memory' = memory \/ memory' = Closed(memory)
      /\ \/ record' = record
         \/ record.outcome = "open" /\ record' = [record EXCEPT !.outcome = "completed"]
  BY DEF Stop, Stopped
<1>2. TypeOK /\ OpInv /\ MemoryInv /\ DurableBeforeVisible
  BY DEF IInv
<1>3. /\ record' \in RecordRec /\ record'.epoch = record.epoch
      /\ record'.population = record.population
      /\ record'.outcome = record.outcome \/ (record.outcome = "open" /\ record'.outcome = "completed")
  BY <1>1, <1>2 DEF TypeOK, RecordRec
<1>4. memory \in MemoryRec \cup {None}
  BY <1>2 DEF TypeOK
<1>5. /\ memory' \in MemoryRec \cup {None} /\ (memory' = None <=> memory = None)
      /\ memory # None => /\ memory'.epoch = memory.epoch
                          /\ memory'.population = memory.population
                          /\ memory'.config = memory.config
  BY <1>1, <1>4, ClosedFacts
<1>6. /\ PendingIsNext' /\ RowsInv' /\ rows' \in [Revisions -> RowRec \cup {None}]
      /\ Latest' = Latest /\ CurrentConfig' = CurrentConfig
  BY <1>1, <1>3, RowsUntouched
<1>7. TypeOK'
  BY <1>1, <1>2, <1>3, <1>5, <1>6 DEF TypeOK
<1>8. OpInv'
  BY <1>1, <1>2, <1>3, <1>5, <1>6 DEF OpInv
<1>9. DurableBeforeVisible' /\ MemoryInv'
  BY <1>1, <1>2, <1>3, <1>5, <1>6 DEF DurableBeforeVisible, MemoryInv
<1>10. QED BY <1>6, <1>7, <1>8, <1>9 DEF IInv

\* A crash and the startup after it: no runtime and no operation survive.
LEMMA CrashKeeps ==
  ASSUME IInv, Crash PROVE IInv'
<1>1. /\ up' = FALSE /\ memory' = None /\ session' = "idle" /\ op' = None
      /\ UNCHANGED <<record, rows, served>>
  BY DEF Crash
<1>2. TypeOK /\ MemoryInv
  BY DEF IInv
<1>3. /\ PendingIsNext' /\ RowsInv' /\ rows' \in [Revisions -> RowRec \cup {None}]
  BY <1>1, RowsUntouched
<1>4. TypeOK'
  BY <1>1, <1>2, <1>3 DEF TypeOK
<1>5. OpInv' /\ DurableBeforeVisible' /\ MemoryInv'
  BY <1>1, <1>2 DEF OpInv, DurableBeforeVisible, MemoryInv
<1>6. QED BY <1>3, <1>4, <1>5 DEF IInv

LEMMA StartupKeeps ==
  ASSUME IInv, Startup PROVE IInv'
<1>1. /\ ~up /\ up' = TRUE
      /\ record' = IF record.outcome = "open"
                   THEN [record EXCEPT !.outcome = "interrupted"] ELSE record
      /\ UNCHANGED <<rows, memory, session, op, served>>
  BY DEF Startup
<1>2. TypeOK /\ OpInv /\ MemoryInv
  BY DEF IInv
<1>3. op = None /\ memory = None
  BY <1>1, <1>2 DEF OpInv, MemoryInv
<1>4. /\ record' \in RecordRec /\ record'.epoch = record.epoch /\ record'.outcome # "open"
      /\ record'.outcome = "absent" => record.outcome = "absent"
  BY <1>1, <1>2 DEF TypeOK, RecordRec
<1>5. /\ PendingIsNext' /\ RowsInv' /\ rows' \in [Revisions -> RowRec \cup {None}]
  BY <1>1, <1>4, RowsUntouched
<1>6. TypeOK'
  BY <1>1, <1>2, <1>3, <1>4, <1>5 DEF TypeOK
<1>7. OpInv' /\ DurableBeforeVisible' /\ MemoryInv'
  BY <1>1, <1>2, <1>3, <1>4 DEF OpInv, DurableBeforeVisible, MemoryInv
<1>8. QED BY <1>5, <1>6, <1>7 DEF IInv

---------------------------------------------------------------------------
LEMMA InitEstablishes == Init => IInv
<1> SUFFICES ASSUME Init PROVE IInv
  OBVIOUS
<1>1. Used = {} /\ Pending = {} /\ Committed = {}
  BY DEF Init, Used, Pending, Committed
<1>2. HasGreatest(Used) /\ HasGreatest(Committed)
  BY <1>1 DEF HasGreatest
<1>3. TypeOK
  BY DEF Init, TypeOK, RecordRec
<1>4. PendingIsNext /\ RowsInv
  BY <1>1, <1>2 DEF PendingIsNext, RowsInv
<1>5. OpInv /\ DurableBeforeVisible
  BY DEF Init, OpInv, DurableBeforeVisible
<1>6. Latest \in Nat /\ Latest = 0
  BY <1>1, <1>3, <1>4, RevisionFacts
<1>7. MemoryInv
  BY <1>6 DEF Init, MemoryInv
<1>8. QED BY <1>3, <1>4, <1>5, <1>7 DEF IInv

LEMMA NextKeeps == IInv /\ [Next]_vars => IInv'
<1> SUFFICES ASSUME IInv, [Next]_vars PROVE IInv'
  OBVIOUS
<1>1. ASSUME NEW c \in Configs, Start(c) PROVE IInv'
  BY <1>1, StartKeeps
<1>2. ASSUME NEW a \in ApplyIds, NEW c \in Configs,
             Read("apply", a, c) \/ Read("rollback", a, c)
      PROVE  IInv'
  BY <1>2, ReadKeeps
<1>3. ASSUME NEW c \in Configs, Read("recover", "recover", c) \/ Read("current", "current", c)
      PROVE  IInv'
  BY <1>3, ReadKeeps
<1>4. ASSUME SnapshotFails \/ Answer PROVE IInv'
  BY <1>4, SnapshotFailsKeeps, AnswerKeeps
<1>5. ASSUME RecordPending \/ RecordRecovery PROVE IInv'
  BY <1>5, RecordPendingKeeps, RecordRecoveryKeeps
<1>6. ASSUME ReadAudience \/ Commit PROVE IInv'
  BY <1>6, ReadAudienceKeeps, CommitKeeps
<1>7. ASSUME PrepareFails \/ CommitFails PROVE IInv'
  BY <1>7, PrepareFailsKeeps, CommitFailsKeeps
<1>8. ASSUME AudienceUpdate \/ Stop \/ Stopped PROVE IInv'
  BY <1>8, AudienceUpdateKeeps, StopKeeps
<1>9. ASSUME Crash \/ Startup PROVE IInv'
  BY <1>9, CrashKeeps, StartupKeeps
<1>10. ASSUME UNCHANGED vars PROVE IInv'
  <2>1. /\ PendingIsNext' /\ RowsInv' /\ Latest' = Latest /\ CurrentConfig' = CurrentConfig
    BY <1>10, RowsUntouched DEF vars
  <2>2. TypeOK' /\ OpInv' /\ DurableBeforeVisible' /\ MemoryInv'
    BY <1>10, <2>1 DEF vars, IInv, TypeOK, OpInv, DurableBeforeVisible, MemoryInv
  <2>3. QED BY <2>1, <2>2 DEF IInv
<1>11. QED BY <1>1, <1>2, <1>3, <1>4, <1>5, <1>6, <1>7, <1>8, <1>9, <1>10 DEF Next

\* The inductive invariant: rows, memory and the operation in progress agree.
THEOREM Invariance == Spec => []IInv
BY InitEstablishes, NextKeeps, PTL DEF Spec

\* The rows of runtime_repositories.py stay sound whatever is interleaved or
\* interrupted: at most one is pending, it is based on the committed revision
\* and above it, so its own retry can still finish it.
THEOREM RowsAreSound == Spec => []RevisionsSound
<1>1. IInv => RevisionsSound
  BY DEF IInv, RevisionsSound
<1>2. QED BY <1>1, Invariance, PTL

\* The state of runtime_state.py never shows an epoch, a population or a
\* configuration the database does not hold.
THEOREM DurabilityPrecedesVisibility == Spec => []DurableBeforeVisible
<1>1. IInv => DurableBeforeVisible
  BY DEF IInv
<1>2. QED BY <1>1, Invariance, PTL

---------------------------------------------------------------------------
(* The past stays past.                                                    *)

\* One step: only a commit makes a runtime accept, under an epoch above every
\* one served; and only a recovery of an interrupted session opens a record.
LEMMA StepKeepsThePast ==
  ASSUME IInv, Next
  PROVE  /\ Accepting(memory') /\ ~Accepting(memory) => memory'.epoch > served
         /\ record.outcome \in {"completed", "error"} => record'.outcome = record.outcome
<1> DEFINE Goal ==
      /\ Accepting(memory') /\ ~Accepting(memory) => memory'.epoch > served
      /\ record.outcome \in {"completed", "error"} => record'.outcome = record.outcome
<1> HIDE DEF Goal
<1>1. memory \in MemoryRec \cup {None} /\ record \in RecordRec /\ served \in Nat
  BY DEF IInv, TypeOK
<1>2. ASSUME NEW c \in Configs, Start(c) PROVE Goal
  BY <1>2 DEF Start, PersistStarting, Goal
<1>3. ASSUME NEW k, NEW a, NEW c, Read(k, a, c) PROVE Goal
  BY <1>3 DEF Read, Goal
<1>4. ASSUME SnapshotFails \/ ReadAudience \/ PrepareFails PROVE Goal
  BY <1>4 DEF SnapshotFails, ReadAudience, PrepareFails, Goal
<1>5. ASSUME Answer \/ RecordPending \/ RecordRecovery PROVE Goal
  <2>1. record' = record /\ op # None /\ \E k : Snapshot(k)
    BY <1>5 DEF Answer, RecordPending, RecordRecovery
  <2>2. Accepting(memory') => Accepting(memory)
    BY <2>1, SnapshotFacts
  <2>3. QED BY <2>1, <2>2 DEF Goal
<1>6. ASSUME Commit PROVE Goal
  <2>1. /\ op # None /\ op.phase = "commit" /\ memory'.epoch = NextEpoch
        /\ served < NextEpoch /\ served' = NextEpoch
        /\ record'.outcome = IF op.kind = "recover" THEN "open" ELSE record.outcome
        /\ record' \in RecordRec /\ record'.epoch = NextEpoch
    BY <1>6, CommitFacts
  <2>2. op.kind = "recover" => record.outcome = "interrupted"
    BY <2>1 DEF IInv, OpInv
  <2>3. NextEpoch \in Nat
    BY <2>1 DEF RecordRec
  <2>4. QED BY <1>1, <2>1, <2>2, <2>3 DEF Goal
<1>7. ASSUME CommitFails PROVE Goal
  <2>1. /\ memory' = memory \/ memory' = Closed(memory)
        /\ \/ record' = record
           \/ record.outcome = "open" /\ record'.outcome = "error"
    BY <1>7, CommitFailsFacts
  <2>2. QED BY <1>1, <2>1, ClosedFacts DEF Goal, Accepting
<1>8. ASSUME AudienceUpdate PROVE Goal
  <2>1. /\ record'.outcome = record.outcome /\ memory # None /\ memory'.accepting = memory.accepting
    BY <1>1, <1>8 DEF AudienceUpdate, RecordRec, MemoryRec
  <2>2. QED BY <2>1 DEF Goal, Accepting
<1>9. ASSUME Stop \/ Stopped PROVE Goal
  <2>1. /\ memory' = memory \/ memory' = Closed(memory)
        /\ record' = record \/ record.outcome = "open"
    BY <1>9 DEF Stop, Stopped
  <2>2. QED BY <1>1, <2>1, ClosedFacts DEF Goal, Accepting
<1>10. ASSUME Crash \/ Startup PROVE Goal
  <2>1. /\ memory' = memory \/ memory' = None
        /\ record' = record \/ record.outcome = "open"
    BY <1>10 DEF Crash, Startup
  <2>2. QED BY <2>1 DEF Goal, Accepting
<1>11. Goal
  BY <1>2, <1>3, <1>4, <1>5, <1>6, <1>7, <1>8, <1>9, <1>10 DEF Next
<1>12. QED BY <1>11 DEF Goal

\* Results are accepted again only under an epoch no earlier result can name,
\* and a session that ended is never opened again, through crashes, retries and
\* recoveries of any number.
THEOREM ThePastStaysPast == Spec => PastStaysPast
<1> DEFINE Fresh == Accepting(memory') /\ ~Accepting(memory) => memory'.epoch > served
           Ended == record.outcome \in {"completed", "error"} => record'.outcome = record.outcome
<1>1. ASSUME IInv, [Next]_vars PROVE [Fresh]_vars /\ [Ended]_vars
  BY <1>1, StepKeepsThePast
<1>2. Spec => [][Fresh]_vars /\ [][Ended]_vars
  BY <1>1, Invariance, PTL DEF Spec
<1>3. QED BY <1>2 DEF PastStaysPast, AcceptsUnderFreshEpoch, EndedStaysEnded
=============================================================================
