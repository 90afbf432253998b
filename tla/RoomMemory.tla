------------------------------ MODULE RoomMemory ------------------------------
(***************************************************************************)
(* The long-term memory of one Room: SharedBrainService, RoomMemoryService *)
(* and the SQLite repositories behind them.                                *)
(*                                                                         *)
(* SQLite opens a transaction at the first statement that writes, so what  *)
(* an operation reads before it may be old when it writes: a request of a  *)
(* user is three steps (what the client saw, what the handler reads, the   *)
(* transaction), the commit of an extracted candidate two, inside the      *)
(* effect lock of the session.  Every transaction compares and swaps the   *)
(* memory head of the Room, and most of them the revision of the row.      *)
(* A memory extracted from a candidate is named by the candidate.          *)
(***************************************************************************)
EXTENDS Naturals, FiniteSets

CONSTANTS
    Candidates,     \* candidates of the memory extractor, each with its idempotency key
    Replacements,   \* ids clients draw for a replacement
    Users,          \* concurrent requests of the memory page
    HostEvents,     \* public events that are not AI output
    BarrageEvents,  \* public events that are
    MaxDeliveries, MaxRequests,   \* bounds of the model only
    None

ASSUME MemoryAssumption ==
    /\ MaxDeliveries \in Nat /\ MaxRequests \in Nat
    /\ HostEvents \cap BarrageEvents = {} /\ Candidates \cap Replacements = {}

Events == HostEvents \cup BarrageEvents
Memories == Candidates \cup Replacements

VARIABLES
    memory,        \* room_long_term_memories with room_memory_evidence
    head,          \* room_memory_heads.revision
    roomRevision,  \* rooms.revision
    decided,       \* idempotency keys in room_memory_candidates
    events,        \* room_events
    open,          \* the fence accepts the epoch the candidates come from
    commit,        \* the candidate inside the effect lock
    delivered,     \* how many candidates were handed over
    request,       \* of each user, the request in progress
    asked          \* how many requests were made

memoryVars == <<memory, head, roomRevision, decided, events, open, commit, delivered, request, asked>>

\* "absent" and "deleted" are both no row: an id is drawn once.
States == {"absent", "active", "superseded", "revoked", "deleted"}

Row == [state : States, revision : Nat, evidence : SUBSET Events, lore : BOOLEAN,
        by : Memories \cup {None}]

\* A candidate under the effect lock, and a request; "base" is the head it read.
CommitRec == [candidate : Candidates, evidence : SUBSET Events, lore : BOOLEAN,
              base : Nat \cup {None}, attempt : {1, 2}]
Kinds == {"edit", "merge", "replace", "revoke", "delete", "reset"}
Snapshots == UNION {[ms -> Row] : ms \in SUBSET Memories}
RequestRec == [kind : Kinds, memory : Memories \cup {None}, other : Memories \cup {None},
               evidence : SUBSET Events, seen : Snapshots, seenHead : Nat, base : Nat \cup {None}]

ASSUME NoneAssumption ==
    None \notin Memories \cup Nat /\ None \notin CommitRec /\ None \notin RequestRec

NoRow == [state |-> "absent", revision |-> 0, evidence |-> {}, lore |-> FALSE, by |-> None]

Exists(m) == memory[m].state \notin {"absent", "deleted"}
Active(m) == memory[m].state = "active"

\* What a candidate or a request cites; one event stands for a set of its kind.
Cited == {{e} : e \in events}

MemoryInit ==
    /\ memory = [m \in Memories |-> NoRow]
    /\ head = 0 /\ roomRevision = 0
    /\ decided = {} /\ events = Events
    /\ open = TRUE /\ commit = None /\ delivered = 0
    /\ request = [u \in Users |-> None] /\ asked = 0

\* Every event cited is an event of the Room.
Present(evidence) == evidence # {} /\ evidence \subseteq events

-----------------------------------------------------------------------------
(* Transactions. *)

\* Fault: the head is written without being compared.
SwapHeadBlind(base) ==
    /\ head' = base + 1
    /\ roomRevision' = IF roomRevision = base THEN base + 1 ELSE roomRevision

\* Compare and swap of the memory head.
SwapHead(base) ==
    /\ head = base
    /\ head' = base + 1
    /\ roomRevision' = IF roomRevision = base THEN base + 1 ELSE roomRevision

Extracted(c) == [state |-> "active", revision |-> 1, evidence |-> c.evidence, lore |-> c.lore, by |-> None]

\* Fault: rows superseded by the deleted one keep naming it.
WithoutRows(ms) == [m \in Memories |->
    IF m \in ms THEN [NoRow EXCEPT !.state = "deleted"] ELSE memory[m]]

\* A deleted row leaves no row superseded by it (ON DELETE SET NULL).
Without(ms) == [m \in Memories |->
    IF m \in ms THEN [NoRow EXCEPT !.state = "deleted"]
    ELSE IF memory[m].by \in ms THEN [memory[m] EXCEPT !.by = None]
    ELSE memory[m]]

-----------------------------------------------------------------------------
(* Candidates: SharedBrainService.commit_memory_candidate. *)

\* A candidate may be handed over again: an HTTP retry, an extraction run twice.
Deliver(c) ==
    /\ commit = None /\ delivered < MaxDeliveries
    /\ delivered' = delivered + 1
    /\ \E evidence \in Cited, lore \in BOOLEAN :
          commit' = IF open
                    THEN [candidate |-> c, evidence |-> evidence, lore |-> lore,
                          base |-> None, attempt |-> 1]
                    ELSE None
    /\ UNCHANGED <<memory, head, roomRevision, decided, events, open, request, asked>>

\* _validate_evidence: present in the Room, and not AI output alone for a fact or preference.
Grounded(evidence, lore) ==
    Present(evidence) /\ (lore \/ evidence \cap HostEvents # {})

\* Fault: only a candidate whose memory still exists is recognized.
RecordedIfStored(c) == c \in decided /\ Exists(c)

\* The idempotency key is known: the stored decision is the answer.
Recorded(c) == c \in decided

ReadCandidate ==
    /\ commit # None /\ commit.base = None
    /\ commit' = IF Grounded(commit.evidence, commit.lore) /\ ~Recorded(commit.candidate)
                 THEN [commit EXCEPT !.base = head]
                 ELSE None
    /\ UNCHANGED <<memory, head, roomRevision, decided, events, open, delivered, request, asked>>

StoreCandidate ==
    /\ commit # None /\ commit.base # None
    /\ SwapHead(commit.base)
    /\ memory' = [memory EXCEPT ![commit.candidate] = Extracted(commit)]
    /\ decided' = decided \cup {commit.candidate}
    /\ commit' = None
    /\ UNCHANGED <<events, open, delivered, request, asked>>

\* "room memory head is stale": rolled back, tried once more, then given up.
StaleHead ==
    /\ commit # None /\ commit.base # None /\ head # commit.base
    /\ commit' = IF commit.attempt = 1 THEN [commit EXCEPT !.base = None, !.attempt = 2] ELSE None
    /\ UNCHANGED <<memory, head, roomRevision, decided, events, open, delivered, request, asked>>

\* The extraction task is cancelled before its transaction.
AbandonCommit ==
    /\ commit # None /\ commit' = None
    /\ UNCHANGED <<memory, head, roomRevision, decided, events, open, delivered, request, asked>>

\* The epoch advances or the session stops, under the effect lock.
CloseFence ==
    /\ commit = None /\ open /\ open' = FALSE
    /\ UNCHANGED <<memory, head, roomRevision, decided, events, commit, delivered, request, asked>>

\* Retention: appending an event prunes the oldest (SQLiteRoomEventRepository.prune).
PruneEvents ==
    /\ \E e \in events : events' = events \ {e}
    /\ UNCHANGED <<memory, head, roomRevision, decided, open, commit, delivered, request, asked>>

-----------------------------------------------------------------------------
(* Requests of the memory page. *)

Rows == {m \in Memories : Exists(m)}

\* The rows and the evidence a request of each kind names; no evidence in an edit: the row keeps its own.
\* The client draws a new id for a replacement (the code asks only that no row has it).
Names(kind, m, other, evidence) ==
    CASE kind = "reset"   -> m = None /\ other = None /\ evidence = {}
      [] kind = "merge"   -> m \in Rows /\ other \in Rows \ {m} /\ evidence = {}
      [] kind = "replace" -> m \in Rows /\ other \in Replacements \ Rows /\ evidence # {}
                             /\ memory[other].state = "absent"
                             /\ \A u \in Users : request[u] # None => request[u].other # other
      [] kind = "edit"    -> m \in Rows /\ other = None
      [] OTHER            -> m \in Rows /\ other = None /\ evidence = {}

\* The client sends the revisions of the rows it saw; for a reset, that of the head (for which it asks
\* apart from the rows it shows: "seen" is then what was there when the head was read).
Ask(u) ==
    /\ request[u] = None /\ asked < MaxRequests /\ asked' = asked + 1
    /\ \E kind \in Kinds, m, other \in Memories \cup {None}, evidence \in Cited \cup {{}} :
          /\ Names(kind, m, other, evidence)
          /\ request' = [request EXCEPT ![u] =
                [kind |-> kind, memory |-> m, other |-> other, evidence |-> evidence,
                 seen |-> [x \in IF kind = "reset" THEN Rows ELSE {m, other} \cap Rows |-> memory[x]],
                 seenHead |-> head, base |-> None]]
    /\ UNCHANGED <<memory, head, roomRevision, decided, events, open, commit, delivered>>

\* Fault: the row is found by its id alone.
RowById(r, m) == Exists(m)

\* The row still has the revision the client saw.
RowUnchanged(r, m) == Exists(m) /\ memory[m].revision = r.seen[m].revision

\* The evidence the request leaves: the row's own when an edit names none.
EvidenceOf(r) ==
    IF r.kind = "edit" /\ r.evidence = {} THEN memory[r.memory].evidence ELSE r.evidence

\* What the handler checks before it writes; a revoke and a delete leave it to the transaction.
Readable(r) ==
    CASE r.kind = "reset"   -> head = r.seenHead
      [] r.kind = "merge"   -> \A m \in {r.memory, r.other} : RowUnchanged(r, m) /\ Active(m)
      [] r.kind = "replace" -> RowUnchanged(r, r.memory) /\ Active(r.memory) /\ ~Exists(r.other)
                               /\ Present(r.evidence)
      [] r.kind = "edit"    -> RowUnchanged(r, r.memory) /\ Present(EvidenceOf(r))
      [] OTHER              -> TRUE

\* A conflict (409) or a broken invariant (422) ends the request.
ReadRequest(u) ==
    LET r == request[u] IN
    /\ r # None /\ r.base = None
    /\ request' = [request EXCEPT ![u] =
          IF ~Readable(r) THEN None
          ELSE [r EXCEPT !.base = head, !.evidence = IF r.kind = "edit" THEN EvidenceOf(r) ELSE @]]
    /\ UNCHANGED <<memory, head, roomRevision, decided, events, open, commit, delivered, asked>>

\* The WHERE clauses of the transaction.
Writable(r) ==
    CASE r.kind \in {"edit", "delete"} -> RowUnchanged(r, r.memory)
      [] r.kind = "merge" -> \A m \in {r.memory, r.other} : RowUnchanged(r, m) /\ Active(m)
      [] r.kind = "reset" -> Rows # {}
      [] OTHER            -> RowUnchanged(r, r.memory) /\ Active(r.memory)

Revised(row, evidence) == [row EXCEPT !.revision = @ + 1, !.evidence = evidence]
Superseded(row, by) == [row EXCEPT !.state = "superseded", !.by = by, !.revision = @ + 1]

\* A row in any state can be edited.
Edit(r) ==
    /\ r.kind = "edit"
    /\ memory' = [memory EXCEPT ![r.memory] = Revised(@, r.evidence)]

Merge(r) ==
    /\ r.kind = "merge"
    /\ memory' = [memory EXCEPT
          ![r.memory] = Revised(@, @.evidence \cup memory[r.other].evidence),
          ![r.other] = Superseded(@, r.memory)]

Replace(r) ==
    /\ r.kind = "replace" /\ ~Exists(r.other)
    /\ memory' = [memory EXCEPT
          ![r.other] = [NoRow EXCEPT !.state = "active", !.revision = 1, !.evidence = r.evidence,
                                     !.lore = memory[r.memory].lore],
          ![r.memory] = Superseded(@, r.other)]

Revoke(r) ==
    /\ r.kind = "revoke"
    /\ memory' = [memory EXCEPT ![r.memory].state = "revoked", ![r.memory].revision = @ + 1]

Delete(r) == r.kind = "delete" /\ memory' = Without({r.memory})

Reset(r) == r.kind = "reset" /\ memory' = Without(Rows)

WriteRequest(u) ==
    LET r == request[u] IN
    /\ r # None /\ r.base # None
    /\ Writable(r) /\ SwapHead(r.base)
    /\ Edit(r) \/ Merge(r) \/ Replace(r) \/ Revoke(r) \/ Delete(r) \/ Reset(r)
    /\ request' = [request EXCEPT ![u] = None]
    /\ UNCHANGED <<decided, events, open, commit, delivered, asked>>

\* Rolled back: the head or a row moved, or there is nothing left to delete.
RefuseRequest(u) ==
    LET r == request[u] IN
    /\ r # None /\ r.base # None
    /\ r.base # head \/ ~Writable(r)
    /\ request' = [request EXCEPT ![u] = None]
    /\ UNCHANGED <<memory, head, roomRevision, decided, events, open, commit, delivered, asked>>

MemoryNext ==
    \/ \E c \in Candidates : Deliver(c)
    \/ ReadCandidate \/ StoreCandidate \/ StaleHead \/ AbandonCommit \/ CloseFence
    \/ PruneEvents
    \/ \E u \in Users : Ask(u) \/ ReadRequest(u) \/ WriteRequest(u) \/ RefuseRequest(u)

MemorySpec == MemoryInit /\ [][MemoryNext]_memoryVars

-----------------------------------------------------------------------------
(* Properties. *)

\* The store is well formed: a row that is used is numbered and has evidence, only a superseded row
\* names the one that took its place, the Room carries the revision of its memory head, and every
\* memory an extraction created is on record with its idempotency key.
MemoryConsistent ==
    /\ memory \in [Memories -> Row] /\ head \in Nat /\ roomRevision = head
    /\ decided \subseteq Candidates /\ events \subseteq Events
    /\ \A m \in Memories :
          /\ Exists(m) <=> memory[m].revision > 0
          /\ Exists(m) => memory[m].evidence # {}
          /\ memory[m].by # None => memory[m].state \in {"superseded"} /\ Exists(memory[m].by)
    /\ \A c \in Candidates : memory[c].state # "absent" <=> c \in decided

\* A memory head names one content of the store: whoever changes the store advances the head by one,
\* also when two requests read the same head (_advance_head, commit_candidate).  The page resets
\* "what I saw at revision r" and a wave's slice carries the revision it was read at.
HeadNamesContents == [][memory' # memory => head' = head + 1]_memoryVars

\* The author of a request sees the same in both; what superseded a row may since have been deleted,
\* which clears its name there without a new revision.
SameContent(row, seen) ==
    \A field \in {"state", "revision", "evidence", "lore"} : row[field] = seen[field]

\* A request that is carried out finds the rows it names with the content its author saw, and a reset
\* deletes the memories of the head its author saw and no other, whatever happened while the request was under way.
AppliesToWhatWasSeen ==
    [][\A u \in Users :
          request[u] # None /\ request'[u] = None /\ memory' # memory =>
             /\ \A m \in DOMAIN request[u].seen : SameContent(memory[m], request[u].seen[m])
             /\ request[u].kind = "reset" => Rows = DOMAIN request[u].seen]_memoryVars

\* What was deleted stays deleted, also when the candidate it came from is delivered again after its
\* row and its evidence are gone: the idempotency record outlives the memory.
ForgottenStaysForgotten ==
    [][\A m \in Memories : memory[m].state = "deleted" => memory'[m].state = "deleted"]_memoryVars

\* docs/BACKEND_DESIGN.md:370: a user preference or a fact rests on at least one event that is not
\* AI output.  Candidates are checked (_validate_evidence); an edit and a replacement are not.
FactsRestOnNonAI ==
    \A m \in Memories : Exists(m) /\ ~memory[m].lore => memory[m].evidence \cap HostEvents # {}
===============================================================================
