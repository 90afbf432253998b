---------------------------- MODULE RuntimeRevisions ----------------------------
(***************************************************************************)
(* The revisions of one runtime session: hot update, rollback and          *)
(* recovery in application/runtime_session_service.py over the rows of     *)
(* infrastructure/persistence/sqlite/runtime_repositories.py and the state *)
(* published in application/runtime_state.py.                              *)
(*                                                                         *)
(* RuntimeSessionService._lock admits one operation at a time; stopping    *)
(* the session, audience updates and a crash of the process do not take    *)
(* it.  A step is a database transaction or the code between two           *)
(* suspension points.                                                      *)
(***************************************************************************)
EXTENDS Naturals

CONSTANTS ApplyIds,       \* apply_id values clients choose
          Configs,        \* config_revision values of canonical specs
          MaxRevision,    \* bounds the rows of the model
          MaxPopulation,  \* bounds the audience updates of the model
          None            \* Python's None, or an absent row

ASSUME RevisionBound == MaxRevision \in Nat \ {0}
ASSUME ConfigNumbers == Configs \subseteq Nat
Revisions == 1..MaxRevision

VARIABLES
    up,        \* the process runs
    record,    \* session_records row: outcome, audience_epoch, population_revision
    rows,      \* session_runtime_revisions by revision
    memory,    \* RuntimeStateStore._states entry, or None
    session,   \* what SessionService says of the session
    op,        \* the operation holding RuntimeSessionService._lock, or None
    served     \* history: highest epoch under which results were accepted

vars == <<up, record, rows, memory, session, op, served>>

RowRec == [by : ApplyIds \cup {"start", "recover"}, base : Nat, config : Configs,
           status : {"pending", "committed", "rejected"}]
RecordRec == [outcome : {"absent", "open", "completed", "interrupted", "error"},
              epoch : Nat, population : Nat]
MemoryRec == [epoch : Nat, population : Nat, config : Configs, accepting : BOOLEAN]
OpRec == [kind : {"start", "current", "apply", "rollback", "recover"},
          by : ApplyIds \cup {"start", "current", "recover"}, config : Configs,
          phase : {"read", "audience", "commit"}, seen : RecordRec,
          revision : Nat, base : Nat, population : Nat, adopted : BOOLEAN]

ASSUME NoneAssumption == None \notin RowRec /\ None \notin MemoryRec /\ None \notin OpRec
ASSUME ApplyIdsAssumption == ApplyIds \cap {"start", "current", "recover"} = {}

Used == {r \in Revisions : rows[r] # None}
Pending == {r \in Revisions : rows[r] # None /\ rows[r].status = "pending"}
Committed == {r \in Revisions : rows[r] # None /\ rows[r].status = "committed"}

\* The greatest number of a set of revisions, 0 of none.
Greatest(S) == CHOOSE r \in S \cup {0} : \A q \in S : q <= r

Latest == Greatest(Committed)
CurrentConfig == rows[Latest].config

\* The row a request with this apply_id has left behind.
Prior(a) == {r \in Revisions : rows[r] # None /\ rows[r].by = a}

Init ==
    /\ up = TRUE
    /\ record = [outcome |-> "absent", epoch |-> 0, population |-> 0]
    /\ rows = [r \in Revisions |-> None]
    /\ memory = None
    /\ session = "idle"
    /\ op = None
    /\ served = 0

Accepting(m) == m # None /\ m.accepting

\* Publishing a runtime state; `served' only records it.
Publish(m) ==
    /\ memory' = m
    /\ served' = IF Accepting(m) /\ m.epoch > served THEN m.epoch ELSE served

Insert(r, who, base, config) ==
    rows' = [rows EXCEPT ![r] = [by |-> who, base |-> base, config |-> config, status |-> "pending"]]

Reject(S) ==
    rows' = [r \in Revisions |-> IF r \in S /\ r \in Pending
                                 THEN [rows[r] EXCEPT !.status = "rejected"] ELSE rows[r]]

---------------------------------------------------------------------------
(* Beginning an operation.                                                 *)

\* The record of a new session: an unfinished one, no epoch yet, the population of its mode.
NewRecord == [outcome |-> "open", epoch |-> 0, population |-> 1]

\* _persist_starting: the record and its first row in one transaction; a session is started once.
PersistStarting(config) ==
    /\ record.outcome = "absent"
    /\ record' = NewRecord
    /\ Insert(1, "start", 0, config)

\* start: what is persisted, and the session is adopted.
Start(config) ==
    /\ up /\ op = None
    /\ PersistStarting(config)
    /\ session' = "live"
    /\ op' = [kind |-> "start", by |-> "start", config |-> config, phase |-> "commit",
              seen |-> record', revision |-> 1, base |-> 0, population |-> 1, adopted |-> TRUE]
    /\ UNCHANGED <<up, memory, served>>

\* _snapshot begins by reading the record, before it looks at the runtime.
Read(kind, who, config) ==
    /\ up /\ op = None /\ record.outcome # "absent"
    /\ op' = [kind |-> kind, by |-> who, config |-> config, phase |-> "read", seen |-> record,
              revision |-> 0, base |-> 0, population |-> 0, adopted |-> FALSE]
    /\ UNCHANGED <<up, record, rows, memory, session, served>>

---------------------------------------------------------------------------
(* The rest of _snapshot, and the transaction that uses it.                *)

Diverged ==
    /\ Accepting(memory)
    /\ \/ memory.epoch # op.seen.epoch
       \/ memory.config # CurrentConfig
       \/ memory.population # op.seen.population

\* Fault: the published state accepts results, as CommittedRuntime does by default.
ActivatedByDefault == [epoch |-> op.seen.epoch, population |-> op.seen.population,
                       config |-> CurrentConfig, accepting |-> TRUE]

\* A process that does not know the session publishes what the record says;
\* only the runtime of an unfinished session accepts results.
Activated == [epoch |-> op.seen.epoch, population |-> op.seen.population,
              config |-> CurrentConfig, accepting |-> op.seen.outcome = "open"]

Snapshot(kind) ==
    /\ op # None /\ op.phase = "read" /\ op.kind = kind
    /\ Latest # 0 /\ ~Diverged
    /\ IF memory = None THEN Publish(Activated) ELSE UNCHANGED <<memory, served>>

\* An unfinished record makes _snapshot adopt the session if nobody has it.
Adopts == IF op.seen.outcome = "open" /\ session = "idle" THEN "live" ELSE session

\* There is no committed revision, or the record and the runtime disagree.
SnapshotFails ==
    /\ op # None /\ op.phase = "read"
    /\ Latest = 0 \/ Diverged
    /\ session' = IF Latest = 0 THEN session ELSE Adopts
    /\ op' = None
    /\ UNCHANGED <<up, record, rows, memory, served>>

\* Requests answered from the snapshot or refused by it: current; a repeated
\* apply_id whose row is decided, says something else or, for a rollback, has
\* another base; a configuration that does not advance or was never committed;
\* and a pending row whose number another apply_id already used.
Answered ==
    CASE op.kind = "current" -> TRUE
      [] op.kind = "recover" -> op.seen.outcome # "interrupted"
      [] OTHER ->
          IF Prior(op.by) # {}
          THEN \E r \in Prior(op.by) :
                  \/ rows[r].status # "pending" \/ rows[r].config # op.config
                  \/ op.kind = "apply" /\ op.config <= CurrentConfig
                  \/ op.kind = "rollback" /\ rows[r].base # Latest
          ELSE \/ op.kind = "apply" /\ op.config <= CurrentConfig
               \/ op.kind = "rollback" /\ \A r \in Committed : rows[r].config # op.config
               \/ Latest < MaxRevision /\ rows[Latest + 1] # None

Answer ==
    /\ op # None /\ Snapshot(op.kind) /\ Answered
    /\ session' = Adopts
    /\ op' = None
    /\ UNCHANGED <<up, record, rows>>

\* apply and rollback: the pending row is inserted, or found where it was left.
RecordPending ==
    /\ op # None /\ op.kind \in {"apply", "rollback"}
    /\ Snapshot(op.kind) /\ ~Answered
    /\ IF Prior(op.by) # {}
       THEN /\ op' = [op EXCEPT !.phase = "audience", !.base = Latest,
                                !.revision = CHOOSE r \in Prior(op.by) : TRUE]
            /\ UNCHANGED rows
       ELSE /\ Latest < MaxRevision
            /\ Insert(Latest + 1, op.by, Latest, op.config)
            /\ op' = [op EXCEPT !.phase = "audience", !.base = Latest, !.revision = Latest + 1]
    /\ session' = Adopts
    /\ UNCHANGED <<up, record>>

\* reject_orphaned_pending_revisions: the highest number in use.
HighestUsed == Greatest(Used)

Recovery(r) == [by |-> "recover", base |-> Latest, config |-> CurrentConfig, status |-> "pending"]

\* Fault: the pending rows of the crashed process are left as they are.
RecordRecoveryKeepsOrphans ==
    /\ op # None /\ op.kind = "recover"
    /\ Snapshot("recover") /\ ~Answered
    /\ HighestUsed < MaxRevision
    /\ rows' = [rows EXCEPT ![HighestUsed + 1] = Recovery(HighestUsed + 1)]
    /\ op' = [op EXCEPT !.phase = "audience", !.base = Latest, !.revision = HighestUsed + 1,
                        !.config = CurrentConfig, !.adopted = (session = "idle")]
    /\ session' = IF session = "idle" THEN "live" ELSE session
    /\ UNCHANGED <<up, record>>

\* recover: the session is adopted, pending rows nobody will finish are rejected
\* and a row above every used number repeats the committed configuration.
RecordRecovery ==
    /\ op # None /\ op.kind = "recover"
    /\ Snapshot("recover") /\ ~Answered
    /\ HighestUsed < MaxRevision
    /\ rows' = [r \in Revisions |->
          IF r = HighestUsed + 1 THEN Recovery(r)
          ELSE IF r \in Pending THEN [rows[r] EXCEPT !.status = "rejected"] ELSE rows[r]]
    /\ op' = [op EXCEPT !.phase = "audience", !.base = Latest, !.revision = HighestUsed + 1,
                        !.config = CurrentConfig, !.adopted = (session = "idle")]
    /\ session' = IF session = "idle" THEN "live" ELSE session
    /\ UNCHANGED <<up, record>>

---------------------------------------------------------------------------
(* Preparing and committing.                                               *)

\* _audience_state: the pool and population revision the next pool starts from.
ReadAudience ==
    /\ op # None /\ op.phase = "audience"
    /\ op' = [op EXCEPT !.phase = "commit", !.population = memory.population]
    /\ UNCHANGED <<up, record, rows, memory, session, served>>

NextEpoch == op.seen.epoch + 1

\* What replace_after (activate_after for a start) and commit_revision verify.
CanCommit ==
    /\ \/ op.kind = "start" /\ memory = None
       \/ /\ op.kind # "start" /\ memory # None
          /\ NextEpoch > memory.epoch /\ op.population + 1 > memory.population
    /\ Latest = op.base
    /\ rows[op.revision].status = "pending" /\ rows[op.revision].base = op.base
    /\ record.epoch < NextEpoch /\ record.population = op.population

NextPopulation == IF op.kind = "start" THEN 1 ELSE op.population + 1

\* One transaction, then the swap in memory under the same boundary.
Commit ==
    /\ op # None /\ op.phase = "commit" /\ CanCommit
    /\ rows' = [rows EXCEPT ![op.revision].status = "committed"]
    /\ record' = [outcome |-> IF op.kind = "recover" THEN "open" ELSE record.outcome,
                  epoch |-> NextEpoch, population |-> NextPopulation]
    /\ Publish([epoch |-> NextEpoch, population |-> NextPopulation, config |-> op.config,
                accepting |-> TRUE])
    /\ op' = None
    /\ UNCHANGED <<up, session>>

\* The capability probe of a changed provider, or the reconciliation, refuses.
PrepareFails ==
    /\ op # None /\ op.phase = "commit" /\ op.kind \in {"apply", "rollback"}
    /\ Reject({op.revision})
    /\ op' = None
    /\ UNCHANGED <<up, record, memory, session, served>>

\* abandon_runtime_session: only a live session can be abandoned.
Closed(m) == IF m = None THEN None ELSE [m EXCEPT !.accepting = FALSE]

\* _reject_start, in one transaction: the first row, and a record nobody has ended meanwhile.
RejectStart ==
    /\ Reject({1})
    /\ record' = IF record.outcome = "open" THEN [record EXCEPT !.outcome = "error"] ELSE record

\* Fault: the state in memory is swapped before the transaction is known to commit.
CommitFailsSwapped ==
    /\ op # None /\ op.phase = "commit"
    /\ op' = None
    /\ op.kind \in {"apply", "rollback"} /\ CanCommit
    /\ Publish([epoch |-> NextEpoch, population |-> NextPopulation, config |-> op.config,
                accepting |-> TRUE])
    /\ UNCHANGED <<up, record, rows, session>>

\* The commit is refused or fails.  apply and rollback leave their row pending;
\* recover and start compensate, a start only when it could abandon the session.
CommitFails ==
    /\ op # None /\ op.phase = "commit"
    /\ op' = None
    /\ \/ op.kind \in {"apply", "rollback"} /\ UNCHANGED <<record, rows, memory, session>>
       \/ /\ op.kind = "recover"
          /\ Reject({op.revision})
          /\ session' = IF op.adopted /\ session = "live" THEN "idle" ELSE session
          /\ memory' = IF op.adopted /\ session = "live" THEN Closed(memory) ELSE memory
          /\ UNCHANGED record
       \/ /\ op.kind = "start" /\ session = "live"
          /\ RejectStart
          /\ session' = "idle" /\ memory' = Closed(memory)
       \/ /\ op.kind = "start" /\ session # "live"
          /\ UNCHANGED <<record, rows, memory, session>>
    /\ UNCHANGED <<up, served>>

---------------------------------------------------------------------------
(* What does not take the service's lock.                                  *)

\* A viewer joins, leaves, is muted or kicked: row and memory change under one boundary.
AudienceUpdate ==
    /\ up /\ memory # None /\ memory.population < MaxPopulation
    /\ memory.population = record.population
    /\ record' = [record EXCEPT !.population = @ + 1]
    /\ memory' = [memory EXCEPT !.population = @ + 1]
    /\ UNCHANGED <<up, rows, session, op, served>>

\* SessionService.stop, until the resources have closed the fence.
Stop ==
    /\ up /\ session = "live"
    /\ session' = "stopping" /\ memory' = Closed(memory)
    /\ UNCHANGED <<up, record, rows, op, served>>

\* record_finished ends an unfinished record; a finished one makes it fail, and
\* any failure is only logged.
Stopped ==
    /\ session = "stopping"
    /\ session' = "idle"
    /\ record' \in {record, IF record.outcome = "open"
                            THEN [record EXCEPT !.outcome = "completed"] ELSE record}
    /\ UNCHANGED <<up, rows, memory, op, served>>

Crash ==
    /\ up /\ record.outcome # "absent"
    /\ up' = FALSE /\ memory' = None /\ session' = "idle" /\ op' = None
    /\ UNCHANGED <<record, rows, served>>

\* startup: recover_interrupted ends every unfinished record.
Startup ==
    /\ ~up /\ up' = TRUE
    /\ record' = IF record.outcome = "open"
                 THEN [record EXCEPT !.outcome = "interrupted"] ELSE record
    /\ UNCHANGED <<rows, memory, session, op, served>>

Next ==
    \/ \E c \in Configs : Start(c)
    \/ \E a \in ApplyIds, c \in Configs : Read("apply", a, c) \/ Read("rollback", a, c)
    \/ \E c \in Configs : Read("recover", "recover", c) \/ Read("current", "current", c)
    \/ SnapshotFails \/ Answer \/ RecordPending \/ RecordRecovery
    \/ ReadAudience \/ Commit \/ PrepareFails \/ CommitFails
    \/ AudienceUpdate \/ Stop \/ Stopped \/ Crash \/ Startup

Spec == Init /\ [][Next]_vars

---------------------------------------------------------------------------
TypeOK ==
    /\ up \in BOOLEAN
    /\ record \in RecordRec
    /\ rows \in [Revisions -> RowRec \cup {None}]
    /\ memory \in MemoryRec \cup {None}
    /\ session \in {"idle", "live", "stopping"}
    /\ op \in OpRec \cup {None}
    /\ served \in Nat
    /\ op # None /\ op.phase # "read" => op.revision \in Revisions /\ rows[op.revision] # None

\* At most one row is pending, and it is based on the committed revision: an
\* interrupted update can still be finished by its own retry, and by nothing else.
PendingIsNext ==
    /\ \A r, q \in Pending : r = q
    /\ \A r \in Pending : rows[r].base = Latest /\ r > Latest

\* The rows of the revisions are sound, and the pending one can be finished.
RevisionsSound == TypeOK /\ PendingIsNext

\* What the runtime shows is what the database holds: epoch, population and
\* configuration are swapped in memory only with their durable commit, also when
\* commits fail, the process dies in between or the audience changes meanwhile.
DurableBeforeVisible ==
    memory # None =>
        /\ memory.epoch = record.epoch /\ memory.population = record.population
        /\ Latest # 0 /\ memory.config = CurrentConfig

\* Results are accepted again - after a stop, a crash, a restart - only under an
\* epoch no earlier result can name.
AcceptsUnderFreshEpoch ==
    [][ Accepting(memory') /\ ~Accepting(memory) => memory'.epoch > served ]_vars

\* A session that ended normally or with an error is never opened again by the
\* database side, whatever is retried or recovered.
EndedStaysEnded ==
    [][ record.outcome \in {"completed", "error"} => record'.outcome = record.outcome ]_vars

\* The past stays past: no old epoch is opened again, and no ended session in its record.  (In
\* memory a hot update that commits after the stop began does open it, under its new epoch.)
PastStaysPast == AcceptsUnderFreshEpoch /\ EndedStaysEnded

=============================================================================
