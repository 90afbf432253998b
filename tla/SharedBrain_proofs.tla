-------------------------- MODULE SharedBrain_proofs --------------------------
(***************************************************************************)
(* Proofs about SharedBrain, for any candidates, users, events and number  *)
(* of requests: a memory head names one content of the store, a request    *)
(* applies to what its author saw, and both stores stay well formed.       *)
(***************************************************************************)
EXTENDS SharedBrain, TLAPS

---------------------------------------------------------------------------
(* The memory of the Room.                                                 *)

\* The rows a request names, and the evidence it brings.
NamesOK(r) ==
    /\ r.kind # "reset" => r.memory \in Memories
    /\ r.kind \in {"edit", "revoke", "delete", "replace"} => DOMAIN r.seen \subseteq {r.memory}
    /\ r.kind = "merge" => /\ r.other \in Memories \ {r.memory}
                           /\ DOMAIN r.seen \subseteq {r.memory, r.other}
    /\ r.kind = "replace" => /\ r.other \in Replacements \ {r.memory} /\ r.evidence # {}
                             /\ memory[r.other].state = "absent"
    /\ r.kind = "edit" /\ r.base # None => r.evidence # {}
    /\ r.kind = "reset" /\ r.base # None => r.base = r.seenHead

\* A row that was seen is not seen again with another content: a revision names one.
SeenRow(seen, m) ==
    /\ memory[m].state # "absent"
    /\ Exists(m) => seen.revision <= memory[m].revision
    /\ Exists(m) /\ seen.revision = memory[m].revision => SameContent(memory[m], seen)

SeenOK(r) ==
    /\ r.seenHead <= head
    /\ \A m \in DOMAIN r.seen : SeenRow(r.seen[m], m)
    /\ r.kind = "reset" /\ r.seenHead = head =>
          /\ Rows = DOMAIN r.seen
          /\ \A m \in Rows : SameContent(memory[m], r.seen[m])

\* No two requests drew the same id.
DrawnOnce ==
    \A u, v \in Users : u # v /\ request[u] # None /\ request[v] # None
        /\ request[u].kind = "replace" => request[v].other # request[u].other

CommitInv ==
    /\ commit \in CommitRec \cup {None}
    /\ commit # None => /\ commit.evidence # {}
                        /\ commit.base # None => commit.candidate \notin decided

RequestInv ==
    /\ request \in [Users -> RequestRec \cup {None}]
    /\ \A u \in Users : request[u] # None => NamesOK(request[u]) /\ SeenOK(request[u])

MemoryIInv == MemoryConsistent /\ CommitInv /\ RequestInv /\ DrawnOnce

-----------------------------------------------------------------------------
(* What a transaction does to a row.                                       *)

LEMMA SameContentFields ==
  ASSUME NEW a, NEW b
  PROVE  SameContent(a, b) <=> /\ a.state = b.state /\ a.revision = b.revision
                               /\ a.evidence = b.evidence /\ a.lore = b.lore
BY DEF SameContent

RowKept(m) == SameContent(memory'[m], memory[m])
RowRevised(m) == /\ Exists(m) /\ memory'[m].state \notin {"absent", "deleted"}
                 /\ memory'[m].revision = memory[m].revision + 1
RowDeleted(m) == Exists(m) /\ memory'[m].state = "deleted"
RowCreated(m) == memory[m].state = "absent" /\ memory'[m].state = "active"

\* A transaction advances the head, and keeps, revises, deletes or creates each row.
Transaction ==
    /\ memory' \in [Memories -> Row] /\ head' = head + 1
    /\ \A m \in Memories : RowKept(m) \/ RowRevised(m) \/ RowDeleted(m) \/ RowCreated(m)

\* The rows a transaction leaves are well formed.
RowsSound ==
    \A m \in Memories :
       /\ Exists(m) <=> memory[m].revision > 0
       /\ Exists(m) => memory[m].evidence # {}
       /\ memory[m].by # None => memory[m].state = "superseded" /\ Exists(memory[m].by)

LEMMA RecFacts ==
  ASSUME NEW r \in RequestRec
  PROVE  /\ r.kind \in Kinds /\ r.memory \in Memories \cup {None} /\ r.other \in Memories \cup {None}
         /\ r.evidence \subseteq Events /\ r.seenHead \in Nat /\ r.base \in Nat \cup {None}
         /\ DOMAIN r.seen \subseteq Memories /\ \A m \in DOMAIN r.seen : r.seen[m] \in Row
<1>1. r.seen \in Snapshots
  BY DEF RequestRec
<1>2. PICK ms \in SUBSET Memories : r.seen \in [ms -> Row]
  BY <1>1 DEF Snapshots
<1>3. DOMAIN r.seen = ms /\ \A m \in ms : r.seen[m] \in Row
  BY <1>2
<1>4. /\ r.kind \in Kinds /\ r.memory \in Memories \cup {None} /\ r.other \in Memories \cup {None}
      /\ r.evidence \subseteq Events /\ r.seenHead \in Nat /\ r.base \in Nat \cup {None}
  BY DEF RequestRec
<1>5. QED BY <1>3, <1>4

LEMMA RowFacts ==
  ASSUME NEW row \in Row
  PROVE  row.state \in States /\ row.revision \in Nat /\ row.evidence \subseteq Events
         /\ row.lore \in BOOLEAN /\ row.by \in Memories \cup {None}
BY DEF Row

\* What a request has seen stays what it was, or gets a later revision, or is deleted.
LEMMA SeenRowKept ==
  ASSUME MemoryConsistent, Transaction, NEW seen \in Row, NEW m \in Memories, SeenRow(seen, m)
  PROVE  SeenRow(seen, m)'
<1>1. /\ memory[m] \in Row /\ memory'[m] \in Row
      /\ RowKept(m) \/ RowRevised(m) \/ RowDeleted(m)
  BY DEF MemoryConsistent, Transaction, SeenRow, RowCreated
<1>2. seen.revision \in Nat /\ memory[m].revision \in Nat /\ memory'[m].revision \in Nat
  BY <1>1, RowFacts
<1>3. CASE RowKept(m)
  BY <1>2, <1>3, SameContentFields DEF RowKept, SeenRow, Exists
<1>4. CASE RowRevised(m)
  BY <1>2, <1>4 DEF RowRevised, SeenRow, Exists
<1>5. CASE RowDeleted(m)
  BY <1>5 DEF RowDeleted, SeenRow, Exists
<1>6. QED BY <1>1, <1>3, <1>4, <1>5

\* A transaction of one request leaves the others as they were, unless it creates the row one drew.
LEMMA OthersKeep ==
  ASSUME MemoryConsistent, Transaction, NEW r \in RequestRec, NamesOK(r), SeenOK(r),
         r.kind = "replace" => ~RowCreated(r.other)
  PROVE  NamesOK(r)' /\ SeenOK(r)'
<1>1. r.kind = "replace" => memory'[r.other].state = "absent"
  <2>1. SUFFICES ASSUME r.kind = "replace" PROVE memory'[r.other].state = "absent"
    OBVIOUS
  <2>2. r.other \in Memories /\ memory[r.other].state = "absent"
    BY <2>1 DEF NamesOK, Memories
  <2>3. RowKept(r.other)
    BY <2>1, <2>2 DEF Transaction, RowRevised, RowDeleted, Exists
  <2>4. QED BY <2>2, <2>3, SameContentFields DEF RowKept
<1>2. NamesOK(r)'
  BY <1>1 DEF NamesOK
<1>3. r.seenHead \in Nat /\ head \in Nat /\ head' = head + 1
  BY RecFacts DEF MemoryConsistent, Transaction
<1>4. r.seenHead <= head' /\ r.seenHead # head'
  BY <1>3 DEF SeenOK
<1>5. \A m \in DOMAIN r.seen : SeenRow(r.seen[m], m)'
  BY RecFacts, SeenRowKept DEF SeenOK
<1>6. SeenOK(r)'
  BY <1>4, <1>5 DEF SeenOK
<1>7. QED BY <1>2, <1>6

-----------------------------------------------------------------------------
(* The transactions.                                                       *)

\* The head is swapped: one further, and the Room with it.
LEMMA Swapped ==
  ASSUME MemoryConsistent, NEW base, SwapHead(base)
  PROVE  head = base /\ head' = head + 1 /\ head' \in Nat /\ roomRevision' = head'
BY DEF SwapHead, MemoryConsistent

\* Every row of the store is a Row, and well formed.
LEMMA StoreFacts ==
  ASSUME MemoryConsistent
  PROVE  RowsSound /\ \A m \in Memories : /\ memory[m] \in Row /\ memory[m].state \in States
            /\ memory[m].revision \in Nat /\ memory[m].evidence \subseteq Events
            /\ memory[m].lore \in BOOLEAN /\ memory[m].by \in Memories \cup {None}
BY DEF MemoryConsistent, RowsSound, Row

\* An extraction is stored under an id no row has had.
LEMMA StoreWorks ==
  ASSUME MemoryConsistent, CommitInv, StoreCandidate
  PROVE  Transaction /\ RowsSound' /\ \A m \in Replacements : ~RowCreated(m)
<1> DEFINE c == commit.candidate
           new == Extracted(commit)
<1>1. commit \in CommitRec /\ c \in Candidates /\ c \in Memories /\ commit.evidence \subseteq Events
      /\ commit.evidence # {} /\ commit.lore \in BOOLEAN /\ c \notin decided
  BY DEF CommitInv, StoreCandidate, CommitRec, Memories
<1>2. memory[c].state = "absent"
  BY <1>1 DEF MemoryConsistent
<1>3. new \in Row /\ new.state = "active" /\ new.revision = 1 /\ new.evidence # {} /\ new.by = None
  BY <1>1 DEF Row, States, Extracted
<1>4. memory' = [memory EXCEPT ![c] = new] /\ memory \in [Memories -> Row]
  BY DEF StoreCandidate, MemoryConsistent
<1> HIDE DEF c, new
<1>5. memory' \in [Memories -> Row] /\ memory'[c] = new
      /\ \A m \in Memories : m # c => memory'[m] = memory[m]
  BY <1>1, <1>3, <1>4
<1>6. RowCreated(c)
  BY <1>2, <1>3, <1>5 DEF RowCreated
<1>7. \A m \in Memories : m # c => RowKept(m)
  BY <1>5, SameContentFields DEF RowKept
<1>8. Transaction
  BY <1>5, <1>6, <1>7, Swapped DEF Transaction, StoreCandidate
<1>9. RowsSound'
  <2> SUFFICES ASSUME NEW m \in Memories
               PROVE  /\ Exists(m)' <=> memory'[m].revision > 0
                      /\ Exists(m)' => memory'[m].evidence # {}
                      /\ memory'[m].by # None => memory'[m].state = "superseded" /\ Exists(memory[m].by)'
    BY DEF RowsSound
  <2>1. CASE m = c
    BY <1>3, <1>5, <2>1 DEF Exists
  <2>2. CASE m # c
    <3>1. RowsSound /\ memory[m].by \in Memories \cup {None}
      BY StoreFacts
    <3>2. memory[m].by # None => memory'[memory[m].by] = memory[memory[m].by]
                                 /\ Exists(memory[m].by)
      BY <1>2, <1>5, <3>1 DEF RowsSound, Exists
    <3>3. QED BY <1>5, <2>2, <3>1, <3>2 DEF RowsSound, Exists
  <2>3. QED BY <2>1, <2>2
<1>10. \A m \in Replacements : ~RowCreated(m)
  <2>1. SUFFICES ASSUME NEW m \in Replacements PROVE ~RowCreated(m)
    OBVIOUS
  <2>2. m \in Memories /\ m # c
    BY <1>1, MemoryAssumption DEF Memories, c
  <2>3. memory'[m] = memory[m]
    BY <1>5, <2>2
  <2>4. QED BY <2>3 DEF RowCreated
<1>11. QED BY <1>8, <1>9, <1>10

\* Rows are deleted, and what they superseded names them no more.
LEMMA WithoutWorks ==
  ASSUME MemoryConsistent, NEW ms \in SUBSET Rows, memory' = Without(ms), head' = head + 1
  PROVE  Transaction /\ RowsSound' /\ \A m \in Memories : ~RowCreated(m)
<1>0. RowsSound /\ ms \subseteq Memories /\ None \notin ms /\ \A m \in ms : Exists(m)
  BY StoreFacts, NoneAssumption DEF Rows
<1>1. \A m \in ms : /\ memory'[m] \in Row /\ memory'[m].state = "deleted" /\ memory'[m].revision = 0
                    /\ memory'[m].by = None
  BY <1>0 DEF Without, NoRow, Row, States
<1>2. ASSUME NEW m \in Memories, m \notin ms
      PROVE  /\ memory'[m] \in Row /\ SameContent(memory'[m], memory[m]) /\ memory'[m].by \notin ms
             /\ memory'[m].by \in {memory[m].by, None}
  <2>1. memory[m] \in Row
    BY StoreFacts
  <2>2. memory'[m] = IF memory[m].by \in ms THEN [memory[m] EXCEPT !.by = None] ELSE memory[m]
    BY <1>2 DEF Without
  <2>3. CASE memory[m].by \in ms
    <3>1. memory'[m] \in Row /\ memory'[m].state = memory[m].state /\ memory'[m].by = None
          /\ memory'[m].revision = memory[m].revision /\ memory'[m].evidence = memory[m].evidence
          /\ memory'[m].lore = memory[m].lore
      BY <2>1, <2>2, <2>3 DEF Row
    <3>2. QED BY <1>0, <3>1, SameContentFields
  <2>4. CASE memory[m].by \notin ms
    BY <2>1, <2>2, <2>4, SameContentFields
  <2>5. QED BY <2>3, <2>4
<1>3. memory' \in [Memories -> Row]
  <2>1. \A m \in Memories : memory'[m] \in Row
    BY <1>1, <1>2
  <2>2. memory' = [m \in Memories |-> memory'[m]]
    BY DEF Without
  <2>3. QED BY <2>1, <2>2
<1>4. ASSUME NEW m \in Memories PROVE (RowKept(m) \/ RowDeleted(m)) /\ ~RowCreated(m)
  <2>1. CASE m \in ms
    BY <1>0, <1>1, <2>1 DEF RowDeleted, RowCreated
  <2>2. CASE m \notin ms
    BY <1>2, <2>2, SameContentFields DEF RowKept, RowCreated
  <2>3. QED BY <2>1, <2>2
<1>5. RowsSound'
  <2> SUFFICES ASSUME NEW m \in Memories
               PROVE  /\ Exists(m)' <=> memory'[m].revision > 0
                      /\ Exists(m)' => memory'[m].evidence # {}
                      /\ memory'[m].by # None => memory'[m].state = "superseded" /\ Exists(memory[m].by)'
    BY DEF RowsSound
  <2>1. CASE m \in ms
    BY <1>1, <2>1 DEF Exists
  <2>2. CASE m \notin ms
    <3>1. /\ Exists(m)' <=> Exists(m)
          /\ memory'[m].revision = memory[m].revision
          /\ memory'[m].evidence = memory[m].evidence /\ memory'[m].state = memory[m].state
          /\ memory'[m].by \notin ms /\ memory'[m].by \in {memory[m].by, None}
      BY <1>2, <2>2, SameContentFields DEF Exists
    <3>2. ASSUME memory'[m].by # None
          PROVE  memory'[m].state = "superseded" /\ memory'[memory'[m].by].state \notin {"absent", "deleted"}
      <4>1. PICK b \in Memories : b = memory'[m].by
        BY <3>1, <3>2, StoreFacts
      <4>2. b \notin ms /\ b = memory[m].by /\ memory[m].state = "superseded" /\ Exists(b)
        BY <1>0, <3>1, <3>2, <4>1 DEF RowsSound
      <4>3. memory'[b].state = memory[b].state
        BY <1>2, <4>2, SameContentFields
      <4>4. QED BY <3>1, <4>1, <4>2, <4>3 DEF Exists
    <3>3. (Exists(m) <=> memory[m].revision > 0) /\ (Exists(m) => memory[m].evidence # {})
      BY <1>0 DEF RowsSound
    <3>4. memory'[m].by # None => memory'[m].state = "superseded" /\ Exists(memory[m].by)'
      BY <3>2 DEF Exists
    <3>5. QED BY <3>1, <3>3, <3>4
  <2>3. QED BY <2>1, <2>2
<1>6. QED BY <1>3, <1>4, <1>5 DEF Transaction

\* One row gets a revision.
LEMMA OneRowWorks ==
  ASSUME MemoryConsistent, NEW a \in Memories, NEW row \in Row, Exists(a),
         row.state \notin {"absent", "deleted"}, row.revision = memory[a].revision + 1,
         row.evidence # {}, row.by # None => row.state = "superseded" /\ row.by = memory[a].by,
         memory' = [memory EXCEPT ![a] = row], head' = head + 1
  PROVE  Transaction /\ RowsSound' /\ \A m \in Memories : ~RowCreated(m)
<1>1. memory' \in [Memories -> Row] /\ memory'[a] = row
      /\ \A m \in Memories : m # a => memory'[m] = memory[m]
  BY DEF MemoryConsistent
<1>2. RowRevised(a) /\ ~RowCreated(a)
  BY <1>1 DEF RowRevised, RowCreated, Exists
<1>3. \A m \in Memories : m # a => RowKept(m) /\ ~RowCreated(m)
  BY <1>1, SameContentFields DEF RowKept, RowCreated
<1>4. Transaction
  BY <1>1, <1>2, <1>3 DEF Transaction
<1>5. RowsSound'
  <2> SUFFICES ASSUME NEW m \in Memories
               PROVE  /\ Exists(m)' <=> memory'[m].revision > 0
                      /\ Exists(m)' => memory'[m].evidence # {}
                      /\ memory'[m].by # None => memory'[m].state = "superseded" /\ Exists(memory[m].by)'
    BY DEF RowsSound
  <2>1. RowsSound /\ memory[m].by \in Memories \cup {None} /\ memory[a].revision \in Nat
    BY StoreFacts
  <2>2. \A b \in Memories : Exists(b) => memory'[b].state \notin {"absent", "deleted"}
    BY <1>1 DEF Exists
  <2>3. memory'[m].by # None => memory'[m].state = "superseded" /\ memory'[m].by = memory[m].by
    BY <1>1, <2>1 DEF RowsSound
  <2>4. memory[m].by # None => Exists(memory[m].by)
    BY <2>1 DEF RowsSound
  <2>5. memory'[m].by # None => memory'[m].state = "superseded" /\ Exists(memory[m].by)'
    BY <2>1, <2>2, <2>3, <2>4 DEF Exists
  <2>6. CASE m = a
    BY <1>1, <2>1, <2>5, <2>6 DEF Exists
  <2>7. CASE m # a
    BY <1>1, <2>1, <2>5, <2>7 DEF Exists, RowsSound
  <2>8. QED BY <2>6, <2>7
<1>6. QED BY <1>2, <1>3, <1>4, <1>5

\* One row takes the place of another.
LEMMA TwoRowsWork ==
  ASSUME MemoryConsistent, NEW a \in Memories, NEW b \in Memories \ {a}, NEW row \in Row, NEW old \in Row,
         row.state = "active", row.revision > 0, row.evidence # {}, row.by = None,
         old.state = "superseded", old.by = a, old.evidence = memory[b].evidence, Exists(b),
         old.revision = memory[b].revision + 1,
         memory[a].state = "absent" \/ (Exists(a) /\ row.revision = memory[a].revision + 1),
         memory' \in [Memories -> Row], memory'[a] = row, memory'[b] = old,
         \A m \in Memories \ {a, b} : memory'[m] = memory[m], head' = head + 1
  PROVE  Transaction /\ RowsSound' /\ \A m \in Memories \ {a} : ~RowCreated(m)
<1>1. RowCreated(a) \/ RowRevised(a)
  BY DEF RowRevised, RowCreated, Exists
<1>2. RowRevised(b) /\ ~RowCreated(b)
  BY DEF RowRevised, RowCreated, Exists
<1>3. \A m \in Memories \ {a, b} : RowKept(m) /\ ~RowCreated(m)
  BY SameContentFields DEF RowKept, RowCreated
<1>4. Transaction
  BY <1>1, <1>2, <1>3 DEF Transaction
<1>5. RowsSound'
  <2> SUFFICES ASSUME NEW m \in Memories
               PROVE  /\ Exists(m)' <=> memory'[m].revision > 0
                      /\ Exists(m)' => memory'[m].evidence # {}
                      /\ memory'[m].by # None => memory'[m].state = "superseded" /\ Exists(memory[m].by)'
    BY DEF RowsSound
  <2>1. RowsSound /\ memory[m].by \in Memories \cup {None} /\ memory[b].revision \in Nat
    BY StoreFacts
  <2>2. \A x \in Memories : Exists(x) \/ x = a => memory'[x].state \notin {"absent", "deleted"}
    BY DEF Exists
  <2>3. CASE m = a
    BY <2>3 DEF Exists
  <2>4. CASE m = b
    BY <2>1, <2>2, <2>4 DEF Exists, RowsSound
  <2>5. CASE m \notin {a, b}
    <3>1. memory'[m] = memory[m]
      BY <2>5
    <3>2. memory[m].by # None => Exists(memory[m].by) /\ memory[m].by \in Memories
      BY <2>1 DEF RowsSound
    <3>3. memory'[m].by # None => memory'[m].state = "superseded" /\ Exists(memory[m].by)'
      BY <2>1, <2>2, <3>1, <3>2 DEF Exists, RowsSound
    <3>4. QED BY <2>1, <3>1, <3>3 DEF Exists, RowsSound
  <2>6. QED BY <2>3, <2>4, <2>5
<1>6. QED BY <1>2, <1>3, <1>4, <1>5

\* A revised row, and a superseded one.
LEMMA RevisedFacts ==
  ASSUME NEW row \in Row, NEW e \in SUBSET Events
  PROVE  /\ Revised(row, e) \in Row /\ Revised(row, e).state = row.state
         /\ Revised(row, e).revision = row.revision + 1
         /\ Revised(row, e).evidence = e /\ Revised(row, e).by = row.by
<1>1. PICK n \in Nat : n = row.revision + 1
  BY RowFacts
<1>2. [row EXCEPT !.revision = n, !.evidence = e] \in Row
  BY DEF Row
<1>3. QED BY <1>1, <1>2 DEF Row, Revised

LEMMA SupersededFacts ==
  ASSUME NEW row \in Row, NEW by \in Memories
  PROVE  /\ Superseded(row, by) \in Row /\ Superseded(row, by).state = "superseded"
         /\ Superseded(row, by).by = by /\ Superseded(row, by).revision = row.revision + 1
         /\ Superseded(row, by).evidence = row.evidence
<1>1. PICK n \in Nat : n = row.revision + 1
  BY RowFacts
<1>2. [row EXCEPT !.state = "superseded", !.by = by, !.revision = n] \in Row
  BY DEF Row, States
<1>3. Superseded(row, by) \in Row
  BY <1>1, <1>2 DEF Superseded
<1>4. QED BY <1>3 DEF Superseded, Row

\* An edit, in whatever state the row is.
LEMMA EditWorks ==
  ASSUME MemoryConsistent, NEW r \in RequestRec, NamesOK(r), r.base # None, Writable(r),
         Edit(r), head' = head + 1
  PROVE  Transaction /\ RowsSound' /\ \A m \in Memories : ~RowCreated(m)
<1> DEFINE a == r.memory
           row == Revised(memory[a], r.evidence)
<1>1. a \in Memories /\ Exists(a) /\ r.evidence # {} /\ r.evidence \subseteq Events
  BY RecFacts DEF NamesOK, Writable, Edit, RowUnchanged
<1>2. memory[a] \in Row /\ memory[a].revision \in Nat /\ RowsSound
  BY <1>1, StoreFacts
<1>3. row \in Row /\ row.state = memory[a].state /\ row.revision = memory[a].revision + 1
      /\ row.evidence = r.evidence /\ row.by = memory[a].by
  BY <1>1, <1>2, RevisedFacts
<1>4. memory' = [memory EXCEPT ![a] = row]
  BY <1>1, <1>2 DEF Edit, MemoryConsistent
<1>5. row.state \notin {"absent", "deleted"} /\ (row.by # None => row.state = "superseded" /\ row.by = memory[a].by)
  BY <1>1, <1>2, <1>3 DEF Exists, RowsSound
<1> HIDE DEF a, row
<1>6. QED BY <1>1, <1>3, <1>4, <1>5, OneRowWorks

\* A revocation, of an active row.
LEMMA RevokeWorks ==
  ASSUME MemoryConsistent, NEW r \in RequestRec, NamesOK(r), Writable(r),
         Revoke(r), head' = head + 1
  PROVE  Transaction /\ RowsSound' /\ \A m \in Memories : ~RowCreated(m)
<1> DEFINE a == r.memory
           n == memory[a].revision + 1
           row == [memory[a] EXCEPT !.state = "revoked", !.revision = n]
<1>1. a \in Memories /\ Active(a) /\ Exists(a)
  BY RecFacts DEF NamesOK, Writable, Revoke, RowUnchanged
<1>2. memory[a] \in Row /\ memory[a].revision \in Nat /\ memory[a].evidence # {} /\ memory[a].by = None
  BY <1>1, StoreFacts DEF RowsSound, Active
<1>3. row \in Row /\ row.state = "revoked" /\ row.revision = memory[a].revision + 1
      /\ row.evidence # {} /\ row.by = None
  <2>1. n \in Nat
    BY <1>2
  <2> HIDE DEF n
  <2>2. row \in Row /\ row.state = "revoked" /\ row.revision = n
        /\ row.evidence = memory[a].evidence /\ row.by = memory[a].by
    BY <1>2, <2>1 DEF Row, States
  <2>3. QED BY <1>2, <2>2 DEF n
<1>4. memory' = [memory EXCEPT ![a] = row]
  BY <1>1, <1>2 DEF Revoke, MemoryConsistent
<1> HIDE DEF a, row
<1>5. QED BY <1>1, <1>3, <1>4, OneRowWorks

\* Two active rows become one, which supersedes the other.
LEMMA MergeWorks ==
  ASSUME MemoryConsistent, NEW r \in RequestRec, NamesOK(r), Writable(r),
         Merge(r), head' = head + 1
  PROVE  Transaction /\ RowsSound' /\ \A m \in Memories : ~RowCreated(m)
<1> DEFINE a == r.memory
           b == r.other
           e == memory[a].evidence \cup memory[b].evidence
           row == Revised(memory[a], e)
           old == Superseded(memory[b], a)
<1>1. r.kind = "merge" /\ a \in Memories /\ b \in Memories \ {a} /\ Active(a) /\ Active(b) /\ Exists(a) /\ Exists(b)
  BY RecFacts DEF NamesOK, Writable, Merge, RowUnchanged
<1>2. memory[a] \in Row /\ memory[a].revision \in Nat /\ memory[a].evidence # {} /\ memory[a].by = None
      /\ memory[b] \in Row /\ memory[b].evidence \subseteq Events /\ memory[a].evidence \subseteq Events
  BY <1>1, StoreFacts DEF RowsSound, Active
<1>3. row \in Row /\ row.state = "active" /\ row.revision = memory[a].revision + 1
      /\ row.evidence # {} /\ row.by = None
  <2>1. e \in SUBSET Events /\ e # {} /\ memory[a].state = "active"
    BY <1>1, <1>2 DEF Active
  <2> HIDE DEF e
  <2>2. QED BY <1>2, <2>1, RevisedFacts
<1>4. old \in Row /\ old.state = "superseded" /\ old.by = a /\ old.revision = memory[b].revision + 1
      /\ old.evidence = memory[b].evidence
  BY <1>1, <1>2, SupersededFacts
<1>5. memory' = [memory EXCEPT ![a] = row, ![b] = old] /\ memory \in [Memories -> Row]
  BY <1>1, <1>2 DEF Merge, MemoryConsistent
<1>6. row.revision > 0
  BY <1>2, <1>3
<1> HIDE DEF a, b, row, old
<1>7. /\ memory' \in [Memories -> Row] /\ memory'[a] = row /\ memory'[b] = old
      /\ \A m \in Memories \ {a, b} : memory'[m] = memory[m]
  BY <1>1, <1>3, <1>4, <1>5
<1>8. Transaction /\ RowsSound' /\ \A m \in Memories \ {a} : ~RowCreated(m)
  BY <1>1, <1>3, <1>4, <1>6, <1>7, TwoRowsWork
<1>9. ~RowCreated(a)
  BY <1>1 DEF RowCreated, Exists
<1>10. QED BY <1>8, <1>9

\* A new row supersedes an active one.
LEMMA ReplaceWorks ==
  ASSUME MemoryConsistent, NEW r \in RequestRec, NamesOK(r), Writable(r),
         Replace(r), head' = head + 1
  PROVE  Transaction /\ RowsSound' /\ \A m \in Memories \ {r.other} : ~RowCreated(m)
<1> DEFINE a == r.other
           b == r.memory
           row == [NoRow EXCEPT !.state = "active", !.revision = 1, !.evidence = r.evidence,
                                !.lore = memory[b].lore]
           old == Superseded(memory[b], a)
<1>1. r.kind = "replace" /\ a \in Memories /\ b \in Memories \ {a} /\ Active(b) /\ Exists(b)
      /\ r.evidence \subseteq Events /\ r.evidence # {} /\ memory[a].state = "absent"
  BY RecFacts DEF NamesOK, Writable, Replace, RowUnchanged, Memories
<1>2. memory[b] \in Row /\ memory[b].lore \in BOOLEAN
  BY <1>1, StoreFacts
<1>3. row \in Row /\ row.state = "active" /\ row.revision = 1 /\ row.evidence # {} /\ row.by = None
  BY <1>1, <1>2 DEF Row, States, NoRow
<1>4. old \in Row /\ old.state = "superseded" /\ old.by = a /\ old.revision = memory[b].revision + 1
      /\ old.evidence = memory[b].evidence
  BY <1>1, <1>2, SupersededFacts
<1>5. memory' = [memory EXCEPT ![a] = row, ![b] = old] /\ memory \in [Memories -> Row]
  BY <1>1, <1>2 DEF Replace, MemoryConsistent
<1> HIDE DEF b, row, old
<1>6. /\ memory' \in [Memories -> Row] /\ memory'[a] = row /\ memory'[b] = old
      /\ \A m \in Memories \ {a, b} : memory'[m] = memory[m]
  BY <1>1, <1>3, <1>4, <1>5
<1>7. QED BY <1>1, <1>3, <1>4, <1>6, TwoRowsWork

-----------------------------------------------------------------------------
(* A request is carried out.                                               *)

\* The six kinds.
LEMMA RequestWorks ==
  ASSUME MemoryConsistent, NEW r \in RequestRec, NamesOK(r), r.base # None,
         Writable(r), SwapHead(r.base),
         Edit(r) \/ Merge(r) \/ Replace(r) \/ Revoke(r) \/ Delete(r) \/ Reset(r)
  PROVE  /\ Transaction /\ RowsSound'
         /\ \A m \in Memories : RowCreated(m) => r.kind = "replace" /\ m = r.other
<1>1. head' = head + 1
  BY Swapped
<1>2. CASE Edit(r)
  BY <1>1, <1>2, EditWorks
<1>3. CASE Merge(r)
  BY <1>1, <1>3, MergeWorks
<1>4. CASE Replace(r)
  BY <1>1, <1>4, ReplaceWorks DEF Replace
<1>5. CASE Revoke(r)
  BY <1>1, <1>5, RevokeWorks
<1>6. CASE Delete(r)
  <2>1. {r.memory} \in SUBSET Rows
    BY <1>6 DEF Delete, NamesOK, Writable, RowUnchanged, Rows
  <2>2. QED BY <1>1, <1>6, <2>1, WithoutWorks DEF Delete
<1>7. CASE Reset(r)
  BY <1>1, <1>7, WithoutWorks DEF Reset
<1>8. QED BY <1>2, <1>3, <1>4, <1>5, <1>6, <1>7

\* The rows it names have the content its author saw.
LEMMA RequestMeetsWhatWasSeen ==
  ASSUME MemoryConsistent, NEW r \in RequestRec, NamesOK(r), SeenOK(r), r.base # None,
         Writable(r), SwapHead(r.base)
  PROVE  /\ \A m \in DOMAIN r.seen : SameContent(memory[m], r.seen[m])
         /\ r.kind = "reset" => Rows = DOMAIN r.seen
<1>1. CASE r.kind = "reset"
  <2>1. r.seenHead = head
    BY <1>1, Swapped DEF NamesOK
  <2>2. QED BY <1>1, <2>1 DEF SeenOK
<1>2. CASE r.kind # "reset"
  <2>1. SUFFICES ASSUME NEW m \in DOMAIN r.seen PROVE SameContent(memory[m], r.seen[m])
    BY <1>2
  <2>2. r.kind \in Kinds
    BY RecFacts
  <2>3. RowUnchanged(r, m)
    <3>1. CASE r.kind = "merge"
      BY <3>1 DEF NamesOK, Writable
    <3>2. CASE r.kind \in {"edit", "delete"}
      BY <3>2 DEF NamesOK, Writable
    <3>3. CASE r.kind \in {"replace", "revoke"}
      BY <3>3 DEF NamesOK, Writable
    <3>4. QED BY <1>2, <2>2, <3>1, <3>2, <3>3 DEF Kinds
  <2>4. QED BY <2>3 DEF SeenOK, SeenRow, RowUnchanged
<1>3. QED BY <1>1, <1>2

\* Rows of ids that were never used are those no candidate was decided for.
DecidedOK == \A c \in Candidates : memory[c].state # "absent" <=> c \in decided

LEMMA ConsistentNext ==
  ASSUME MemoryConsistent, Transaction, RowsSound', roomRevision' = head', DecidedOK',
         decided' \subseteq Candidates, events' = events
  PROVE  MemoryConsistent'
<1>1. head' \in Nat
  BY DEF MemoryConsistent, Transaction
<1>2. \A m \in Memories : memory'[m].by # None => memory'[m].state \in {"superseded"} /\ Exists(memory[m].by)'
  BY DEF RowsSound
<1>3. \A m \in Memories : /\ (Exists(m) <=> memory[m].revision > 0)'
                          /\ (Exists(m) => memory[m].evidence # {})'
  BY DEF RowsSound
<1>4. QED BY <1>1, <1>2, <1>3 DEF MemoryConsistent, Transaction, DecidedOK

-----------------------------------------------------------------------------
(* The invariant of the memory is inductive.                               *)

LEMMA MemoryStart == ASSUME MemoryInit PROVE MemoryIInv
<1>1. \A m \in Memories : memory[m] = NoRow
  BY DEF MemoryInit
<1>2. NoRow \in Row /\ NoRow.state = "absent" /\ NoRow.revision = 0 /\ NoRow.by = None
  BY DEF NoRow, Row, States
<1>3. MemoryConsistent
  <2>1. memory \in [Memories -> Row] /\ head \in Nat /\ roomRevision = head
        /\ decided \subseteq Candidates /\ events \subseteq Events
    BY <1>2 DEF MemoryInit
  <2>2. \A m \in Memories : ~Exists(m) /\ memory[m].revision = 0 /\ memory[m].by = None
                            /\ memory[m].state = "absent"
    BY <1>1, <1>2 DEF Exists
  <2>3. \A c \in Candidates : memory[c].state = "absent" /\ c \notin decided
    BY <2>2 DEF Memories, MemoryInit
  <2>4. QED BY <2>1, <2>2, <2>3 DEF MemoryConsistent
<1>4. CommitInv /\ RequestInv /\ DrawnOnce
  BY DEF MemoryInit, CommitInv, RequestInv, DrawnOnce
<1>5. QED BY <1>3, <1>4 DEF MemoryIInv

\* What is said of a request depends on the rows and the head alone.
LEMMA RequestsFrame ==
  ASSUME RequestInv, DrawnOnce, memory' = memory, head' = head, request' = request
  PROVE  RequestInv' /\ DrawnOnce'
<1>1. DrawnOnce'
  BY DEF DrawnOnce
<1>2. ASSUME NEW u \in Users, request[u] # None PROVE NamesOK(request[u])' /\ SeenOK(request[u])'
  <2>1. PICK r \in RequestRec : r = request[u]
    BY <1>2 DEF RequestInv
  <2>2. NamesOK(r) /\ SeenOK(r)
    BY <1>2, <2>1 DEF RequestInv
  <2>3. NamesOK(r)' /\ SeenOK(r)'
    BY <2>2 DEF NamesOK, SeenOK, SeenRow, Rows, Exists
  <2>4. QED BY <2>1, <2>3
<1>3. QED BY <1>1, <1>2 DEF RequestInv

LEMMA ConsistentFrame ==
  ASSUME MemoryConsistent, memory' = memory, head' = head, roomRevision' = roomRevision,
         decided' = decided, events' \subseteq events
  PROVE  MemoryConsistent'
BY DEF MemoryConsistent, Exists

\* A candidate enters the effect lock, is read, tried again or given up.
LEMMA CommitSteps ==
  ASSUME MemoryIInv,
         (\E c \in Candidates : Deliver(c)) \/ ReadCandidate \/ StaleHead \/ AbandonCommit
  PROVE  MemoryIInv'
<1>1. MemoryConsistent' /\ RequestInv' /\ DrawnOnce'
  <2>1. /\ memory' = memory /\ head' = head /\ roomRevision' = roomRevision /\ decided' = decided
        /\ events' = events /\ request' = request
    BY DEF Deliver, ReadCandidate, StaleHead, AbandonCommit
  <2>2. QED BY <2>1, RequestsFrame, ConsistentFrame DEF MemoryIInv
<1>2. CASE \E c \in Candidates : Deliver(c)
  <2>1. PICK c \in Candidates : Deliver(c)
    BY <1>2
  <2>2. commit' = None \/ \E evidence \in Cited, lore \in BOOLEAN :
           commit' = [candidate |-> c, evidence |-> evidence, lore |-> lore, base |-> None, attempt |-> 1]
    BY <2>1 DEF Deliver
  <2>3. \A evidence \in Cited : evidence \subseteq Events /\ evidence # {}
    BY DEF Cited, MemoryIInv, MemoryConsistent
  <2>4. CommitInv'
    BY <2>2, <2>3 DEF CommitInv, CommitRec
  <2>5. QED BY <1>1, <2>4 DEF MemoryIInv
<1>3. CASE ReadCandidate
  <2>1. commit \in CommitRec /\ commit.evidence # {} /\ head \in Nat
    BY <1>3 DEF ReadCandidate, MemoryIInv, CommitInv, MemoryConsistent
  <2>2. commit' = None \/ (commit' = [commit EXCEPT !.base = head] /\ commit.candidate \notin decided)
    BY <1>3 DEF ReadCandidate, Recorded
  <2>3. decided' = decided
    BY <1>3 DEF ReadCandidate
  <2>4. CommitInv'
    BY <2>1, <2>2, <2>3 DEF CommitInv, CommitRec
  <2>5. QED BY <1>1, <2>4 DEF MemoryIInv
<1>4. CASE StaleHead
  <2>1. commit \in CommitRec /\ commit.evidence # {}
    BY <1>4 DEF StaleHead, MemoryIInv, CommitInv
  <2>2. commit' = None \/ commit' = [commit EXCEPT !.base = None, !.attempt = 2]
    BY <1>4 DEF StaleHead
  <2>3. CASE commit' = None
    BY <2>3, <1>1 DEF CommitInv, MemoryIInv
  <2>4. CASE commit' = [commit EXCEPT !.base = None, !.attempt = 2]
    <3>1. commit' \in CommitRec /\ commit'.base = None /\ commit'.evidence = commit.evidence
      BY <2>1, <2>4 DEF CommitRec
    <3>2. QED BY <1>1, <2>1, <3>1 DEF CommitInv, MemoryIInv
  <2>5. QED BY <2>2, <2>3, <2>4
<1>5. CASE AbandonCommit
  BY <1>1, <1>5 DEF AbandonCommit, CommitInv, MemoryIInv
<1>6. QED BY <1>2, <1>3, <1>4, <1>5

\* The fence closes, and events are pruned.
LEMMA OtherSteps ==
  ASSUME MemoryIInv, CloseFence \/ PruneEvents \/ UNCHANGED memoryVars
  PROVE  MemoryIInv'
<1>1. /\ memory' = memory /\ head' = head /\ roomRevision' = roomRevision /\ decided' = decided
      /\ events' \subseteq events /\ request' = request /\ commit' = commit
  BY DEF CloseFence, PruneEvents, memoryVars
<1>2. CommitInv'
  BY <1>1 DEF CommitInv, MemoryIInv
<1>3. QED BY <1>1, <1>2, RequestsFrame, ConsistentFrame DEF MemoryIInv

\* The transaction of a candidate.
LEMMA StoreStep == ASSUME MemoryIInv, StoreCandidate PROVE MemoryIInv'
<1>1. MemoryConsistent /\ CommitInv /\ RequestInv /\ DrawnOnce
  BY DEF MemoryIInv
<1>2. Transaction /\ RowsSound' /\ \A m \in Replacements : ~RowCreated(m)
  BY <1>1, StoreWorks
<1>3. DecidedOK' /\ decided' \subseteq Candidates
  <2> DEFINE c == commit.candidate
  <2>1. commit \in CommitRec /\ c \in Candidates
    BY <1>1 DEF CommitInv, StoreCandidate, CommitRec
  <2>2. memory' = [memory EXCEPT ![c] = Extracted(commit)] /\ decided' = decided \cup {c}
    BY DEF StoreCandidate
  <2>3. Extracted(commit).state = "active" /\ memory \in [Memories -> Row]
    BY <1>1 DEF Extracted, MemoryConsistent
  <2> HIDE DEF c
  <2>4. memory'[c].state = "active" /\ \A d \in Candidates : d # c => memory'[d] = memory[d]
    BY <2>1, <2>2, <2>3 DEF Memories
  <2>5. QED BY <1>1, <2>1, <2>2, <2>4 DEF DecidedOK, MemoryConsistent
<1>4. MemoryConsistent'
  <2>1. SwapHead(commit.base) /\ events' = events
    BY DEF StoreCandidate
  <2>2. QED BY <1>1, <1>2, <1>3, <2>1, Swapped, ConsistentNext
<1>5. CommitInv'
  BY DEF StoreCandidate, CommitInv
<1>6. request' = request
  BY DEF StoreCandidate
<1>7. DrawnOnce'
  BY <1>1, <1>6 DEF DrawnOnce
<1>8. ASSUME NEW u \in Users, request[u] # None PROVE NamesOK(request[u])' /\ SeenOK(request[u])'
  <2>1. PICK r \in RequestRec : r = request[u]
    BY <1>1, <1>8 DEF RequestInv
  <2>2. NamesOK(r) /\ SeenOK(r)
    BY <1>1, <1>8, <2>1 DEF RequestInv
  <2>3. r.kind = "replace" => ~RowCreated(r.other)
    BY <1>2, <2>2 DEF NamesOK
  <2>4. NamesOK(r)' /\ SeenOK(r)'
    BY <1>1, <1>2, <2>2, <2>3, OthersKeep
  <2>5. QED BY <1>6, <2>1, <2>4
<1>9. RequestInv'
  BY <1>1, <1>6, <1>8 DEF RequestInv
<1>10. QED BY <1>4, <1>5, <1>7, <1>9 DEF MemoryIInv

\* A request ends, or nothing is known of the others but that they are as they were.
LEMMA RequestEnds ==
  ASSUME MemoryIInv, NEW u \in Users, memory' = memory, head' = head, roomRevision' = roomRevision,
         decided' = decided, events' = events, commit' = commit, request' = [request EXCEPT ![u] = None]
  PROVE  MemoryIInv'
<1>1. MemoryConsistent /\ CommitInv /\ RequestInv /\ DrawnOnce
  BY DEF MemoryIInv
<1>2. MemoryConsistent' /\ CommitInv'
  BY <1>1, ConsistentFrame DEF CommitInv
<1>3. \A v \in Users : request'[v] = None \/ request'[v] = request[v]
  BY <1>1 DEF RequestInv
<1>4. DrawnOnce'
  BY <1>1, <1>3 DEF DrawnOnce
<1>5. ASSUME NEW v \in Users, request'[v] # None PROVE NamesOK(request[v])' /\ SeenOK(request[v])'
  <2>1. PICK r \in RequestRec : r = request[v] /\ r = request'[v]
    BY <1>1, <1>3, <1>5 DEF RequestInv
  <2>2. NamesOK(r) /\ SeenOK(r)
    BY <1>1, <1>3, <1>5, <2>1 DEF RequestInv
  <2>3. NamesOK(r)' /\ SeenOK(r)'
    BY <2>2 DEF NamesOK, SeenOK, SeenRow, Rows, Exists
  <2>4. QED BY <2>1, <2>3
<1>6. request' \in [Users -> RequestRec \cup {None}]
  BY <1>1 DEF RequestInv
<1>7. QED BY <1>2, <1>4, <1>5, <1>6 DEF MemoryIInv, RequestInv

\* A client asks: it sees the rows as they are.
LEMMA AskStep == ASSUME MemoryIInv, NEW u \in Users, Ask(u) PROVE MemoryIInv'
<1>1. MemoryConsistent /\ CommitInv /\ RequestInv /\ DrawnOnce
  BY DEF MemoryIInv
<1>2. /\ memory' = memory /\ head' = head /\ roomRevision' = roomRevision /\ decided' = decided
      /\ events' = events /\ commit' = commit
  BY DEF Ask
<1>3. MemoryConsistent' /\ CommitInv'
  BY <1>1, <1>2, ConsistentFrame DEF CommitInv
<1>4. PICK kind \in Kinds, m \in Memories \cup {None}, other \in Memories \cup {None}, evidence \in Cited \cup {{}} :
        /\ Names(kind, m, other, evidence)
        /\ request' = [request EXCEPT ![u] =
              [kind |-> kind, memory |-> m, other |-> other, evidence |-> evidence,
               seen |-> [x \in IF kind = "reset" THEN Rows ELSE {m, other} \cap Rows |-> memory[x]],
               seenHead |-> head, base |-> None]]
  BY DEF Ask
<1> DEFINE D == IF kind = "reset" THEN Rows ELSE {m, other} \cap Rows
           seen == [x \in D |-> memory[x]]
           r == [kind |-> kind, memory |-> m, other |-> other, evidence |-> evidence,
                 seen |-> seen, seenHead |-> head, base |-> None]
<1>5. D \subseteq Rows /\ Rows \subseteq Memories /\ memory \in [Memories -> Row]
      /\ head \in Nat /\ None \notin Memories
  BY <1>1, NoneAssumption DEF Rows, MemoryConsistent
<1>6. seen \in Snapshots
  <2>1. D \in SUBSET Memories /\ seen \in [D -> Row]
    BY <1>5
  <2> HIDE DEF D, seen
  <2>2. QED BY <2>1 DEF Snapshots
<1>7. evidence \subseteq Events
  BY <1>1 DEF Cited, MemoryConsistent
<1>8. r \in RequestRec
  <2> HIDE DEF seen
  <2>1. QED BY <1>5, <1>6, <1>7 DEF RequestRec
<1>9. NamesOK(r)
  <2>1. r.kind = kind /\ r.memory = m /\ r.other = other /\ r.evidence = evidence /\ r.base = None
        /\ DOMAIN r.seen = D
    OBVIOUS
  <2>2. kind # "reset" => D = {m, other} \cap Rows
    OBVIOUS
  <2>3. \A x : x \in Replacements => x \in Memories
    BY DEF Memories
  <2> HIDE DEF r, D
  <2>4. CASE kind = "reset"
    BY <2>1, <2>4 DEF NamesOK
  <2>5. CASE kind = "merge"
    BY <1>4, <1>5, <2>1, <2>2, <2>5 DEF NamesOK, Names
  <2>6. CASE kind = "replace"
    <3>1. m \in Rows /\ other \in Replacements \ Rows /\ evidence # {} /\ memory[other].state = "absent"
      BY <1>4, <2>6 DEF Names
    <3>2. D \subseteq {m}
      BY <2>2, <2>6, <3>1
    <3>3. QED BY <1>5, <2>1, <2>6, <3>1, <3>2 DEF NamesOK
  <2>7. CASE kind \in {"edit", "revoke", "delete"}
    <3>1. m \in Rows /\ other = None
      BY <1>4, <2>7 DEF Names
    <3>2. D \subseteq {m}
      BY <1>5, <2>2, <2>7, <3>1
    <3>3. QED BY <1>5, <2>1, <2>7, <3>1, <3>2 DEF NamesOK
  <2>8. QED BY <2>4, <2>5, <2>6, <2>7 DEF Kinds
<1>10. SeenOK(r)
  <2>1. r.kind = kind /\ r.seenHead = head /\ DOMAIN r.seen = D /\ \A x \in D : r.seen[x] = memory[x]
    OBVIOUS
  <2>2. kind = "reset" => D = Rows
    OBVIOUS
  <2> HIDE DEF r, D
  <2>3. ASSUME NEW x \in D PROVE SeenRow(r.seen[x], x)
    <3>1. Exists(x) /\ memory[x].revision \in Nat
      BY <1>1, <1>5, StoreFacts DEF Rows
    <3>2. QED BY <2>1, <3>1, SameContentFields DEF SeenRow, Exists
  <2>4. \A x \in D : SameContent(memory[x], r.seen[x])
    BY <2>1, SameContentFields
  <2>5. QED BY <1>5, <2>1, <2>2, <2>3, <2>4 DEF SeenOK
<1>11. request' = [request EXCEPT ![u] = r] /\ request[u] = None
  BY <1>4 DEF Ask
<1>12. kind = "replace" => \A v \in Users : request[v] # None => request[v].other # other
  BY <1>4 DEF Names
<1>13. \A v \in Users : request[v] # None /\ request[v].kind = "replace" => other # request[v].other
  <2>1. SUFFICES ASSUME NEW v \in Users, request[v] # None, request[v].kind = "replace",
                        other = request[v].other
                 PROVE  FALSE
    OBVIOUS
  <2>2. memory[other].state = "absent" /\ other \in Replacements /\ other # None
    BY <1>1, <2>1, NoneAssumption DEF RequestInv, NamesOK, Memories
  <2>3. other \notin Rows
    BY <2>2 DEF Rows, Exists
  <2>4. kind # "replace"
    BY <1>12, <2>1
  <2>5. QED BY <1>4, <2>2, <2>3, <2>4 DEF Names, Kinds
<1>14. r # None /\ r.kind = kind /\ r.other = other
  BY <1>8, NoneAssumption
<1> HIDE DEF r
<1>15. request' \in [Users -> RequestRec \cup {None}] /\ request'[u] = r
       /\ \A v \in Users : v # u => request'[v] = request[v]
  BY <1>1, <1>8, <1>11 DEF RequestInv
<1>16. DrawnOnce'
  <2>1. SUFFICES ASSUME NEW v \in Users, NEW w \in Users, v # w, request'[v] # None, request'[w] # None,
                        request'[v].kind = "replace", request'[w].other = request'[v].other
                 PROVE  FALSE
    BY DEF DrawnOnce
  <2>2. CASE v = u
    BY <1>12, <1>14, <1>15, <2>1, <2>2
  <2>3. CASE w = u
    BY <1>13, <1>14, <1>15, <2>1, <2>3
  <2>4. CASE v # u /\ w # u
    BY <1>1, <1>15, <2>1, <2>4 DEF DrawnOnce
  <2>5. QED BY <2>2, <2>3, <2>4
<1>17. ASSUME NEW v \in Users, request'[v] # None PROVE NamesOK(request[v])' /\ SeenOK(request[v])'
  <2>1. PICK q \in RequestRec : q = request'[v] /\ NamesOK(q) /\ SeenOK(q)
    BY <1>1, <1>8, <1>9, <1>10, <1>15, <1>17 DEF RequestInv
  <2>2. NamesOK(q)' /\ SeenOK(q)'
    BY <1>2, <2>1 DEF NamesOK, SeenOK, SeenRow, Rows, Exists
  <2>3. QED BY <2>1, <2>2
<1>18. QED BY <1>3, <1>15, <1>16, <1>17 DEF MemoryIInv, RequestInv

\* The handler reads the head, and in an edit the evidence of the row.
LEMMA ReadStep == ASSUME MemoryIInv, NEW u \in Users, ReadRequest(u) PROVE MemoryIInv'
<1>1. MemoryConsistent /\ CommitInv /\ RequestInv /\ DrawnOnce
  BY DEF MemoryIInv
<1>2. /\ memory' = memory /\ head' = head /\ roomRevision' = roomRevision /\ decided' = decided
      /\ events' = events /\ commit' = commit
  BY DEF ReadRequest
<1>3. PICK r \in RequestRec : r = request[u] /\ r # None /\ NamesOK(r) /\ SeenOK(r)
  BY <1>1 DEF ReadRequest, RequestInv
<1> DEFINE e == IF r.kind = "edit" THEN EvidenceOf(r) ELSE r.evidence
           q == [r EXCEPT !.base = head, !.evidence = e]
<1>4. CASE ~Readable(r)
  <2>1. request' = [request EXCEPT ![u] = None]
    BY <1>3, <1>4 DEF ReadRequest
  <2>2. QED BY <1>2, <2>1, RequestEnds
<1>5. CASE Readable(r)
  <2>1. request' = [request EXCEPT ![u] = q]
    BY <1>3, <1>5 DEF ReadRequest
  <2>2. head \in Nat /\ e \subseteq Events /\ (r.kind = "edit" => e # {})
    <3>1. r.kind = "edit" => r.memory \in Memories /\ Present(EvidenceOf(r))
      BY <1>3, <1>5 DEF Readable, NamesOK
    <3>2. r.kind = "edit" => EvidenceOf(r) \subseteq Events
      BY <1>1, <3>1 DEF Present, MemoryConsistent
    <3>3. QED BY <1>1, <3>1, <3>2, RecFacts DEF Present, MemoryConsistent
  <2> HIDE DEF e
  <2>3. q \in RequestRec /\ q.kind = r.kind /\ q.memory = r.memory /\ q.other = r.other
        /\ q.seen = r.seen /\ q.seenHead = r.seenHead /\ q.base = head /\ q.evidence = e
    BY <2>2 DEF RequestRec
  <2> HIDE DEF q
  <2>4. r.kind = "reset" => head = r.seenHead
    BY <1>5 DEF Readable
  <2>5. r.kind = "replace" => e = r.evidence
    BY DEF e
  <2>6. NamesOK(q) /\ SeenOK(q)
    BY <1>3, <2>2, <2>3, <2>4, <2>5 DEF NamesOK, SeenOK
  <2>7. request' \in [Users -> RequestRec \cup {None}] /\ request'[u] = q
        /\ \A v \in Users : v # u => request'[v] = request[v]
    BY <1>1, <2>1, <2>3 DEF RequestInv
  <2>8. \A v \in Users : request'[v] # None => request[v] # None /\ request'[v].kind = request[v].kind
                                              /\ request'[v].other = request[v].other
    BY <1>3, <2>3, <2>7
  <2>9. DrawnOnce'
    BY <1>1, <2>8 DEF DrawnOnce
  <2>10. ASSUME NEW v \in Users, request'[v] # None PROVE NamesOK(request[v])' /\ SeenOK(request[v])'
    <3>1. PICK p \in RequestRec : p = request'[v] /\ NamesOK(p) /\ SeenOK(p)
      BY <1>1, <2>3, <2>6, <2>7, <2>10 DEF RequestInv
    <3>2. NamesOK(p)' /\ SeenOK(p)'
      BY <1>2, <3>1 DEF NamesOK, SeenOK, SeenRow, Rows, Exists
    <3>3. QED BY <3>1, <3>2
  <2>11. MemoryConsistent' /\ CommitInv'
    BY <1>1, <1>2, ConsistentFrame DEF CommitInv
  <2>12. QED BY <2>7, <2>9, <2>10, <2>11 DEF MemoryIInv, RequestInv
<1>6. QED BY <1>4, <1>5

\* A request is refused.
LEMMA RefuseStep == ASSUME MemoryIInv, NEW u \in Users, RefuseRequest(u) PROVE MemoryIInv'
BY RequestEnds DEF RefuseRequest

\* What a request that is carried out is.
LEMMA WrittenFacts ==
  ASSUME MemoryIInv, NEW u \in Users, WriteRequest(u)
  PROVE  \E r \in RequestRec :
            /\ r = request[u] /\ r # None /\ NamesOK(r) /\ SeenOK(r) /\ r.base # None
            /\ Writable(r) /\ SwapHead(r.base)
            /\ Edit(r) \/ Merge(r) \/ Replace(r) \/ Revoke(r) \/ Delete(r) \/ Reset(r)
<1>1. PICK r \in RequestRec : r = request[u] /\ r # None
  BY DEF WriteRequest, MemoryIInv, RequestInv
<1>2. NamesOK(r) /\ SeenOK(r)
  BY <1>1 DEF MemoryIInv, RequestInv
<1>3. /\ r.base # None /\ Writable(r) /\ SwapHead(r.base)
      /\ Edit(r) \/ Merge(r) \/ Replace(r) \/ Revoke(r) \/ Delete(r) \/ Reset(r)
  BY <1>1 DEF WriteRequest
<1>4. QED BY <1>1, <1>2, <1>3

\* A request is carried out.
LEMMA WriteStep == ASSUME MemoryIInv, NEW u \in Users, WriteRequest(u) PROVE MemoryIInv'
<1>1. MemoryConsistent /\ CommitInv /\ RequestInv /\ DrawnOnce
  BY DEF MemoryIInv
<1>2. PICK r \in RequestRec :
            /\ r = request[u] /\ r # None /\ NamesOK(r) /\ SeenOK(r) /\ r.base # None
            /\ Writable(r) /\ SwapHead(r.base)
            /\ Edit(r) \/ Merge(r) \/ Replace(r) \/ Revoke(r) \/ Delete(r) \/ Reset(r)
  BY WrittenFacts
<1>3. /\ Transaction /\ RowsSound'
      /\ \A m \in Memories : RowCreated(m) => r.kind = "replace" /\ m = r.other
  BY <1>1, <1>2, RequestWorks
<1>4. request' = [request EXCEPT ![u] = None] /\ decided' = decided /\ events' = events /\ commit' = commit
  BY DEF WriteRequest
<1>5. DecidedOK'
  <2> SUFFICES ASSUME NEW c \in Candidates PROVE memory'[c].state # "absent" <=> c \in decided
    BY <1>4 DEF DecidedOK
  <2>1. c \in Memories /\ (memory[c].state # "absent" <=> c \in decided) /\ memory[c].state \in States
    BY <1>1, StoreFacts DEF Memories, MemoryConsistent
  <2>2. ~RowCreated(c)
    BY <1>2, <1>3, <2>1, MemoryAssumption DEF NamesOK
  <2>3. memory'[c].state # "absent" <=> memory[c].state # "absent"
    BY <1>3, <2>1, <2>2, SameContentFields DEF Transaction, RowKept, RowRevised, RowDeleted, Exists
  <2>4. QED BY <2>1, <2>3
<1>6. MemoryConsistent'
  BY <1>1, <1>2, <1>3, <1>4, <1>5, Swapped, ConsistentNext DEF MemoryConsistent
<1>7. CommitInv'
  BY <1>1, <1>4 DEF CommitInv
<1>8. request' \in [Users -> RequestRec \cup {None}] /\ request'[u] = None
      /\ \A v \in Users : v # u => request'[v] = request[v]
  BY <1>1, <1>4 DEF RequestInv
<1>9. DrawnOnce'
  BY <1>1, <1>8 DEF DrawnOnce
<1>10. ASSUME NEW v \in Users, request'[v] # None PROVE NamesOK(request[v])' /\ SeenOK(request[v])'
  <2>1. v # u /\ request'[v] = request[v]
    BY <1>8, <1>10
  <2>2. PICK q \in RequestRec : q = request[v] /\ NamesOK(q) /\ SeenOK(q)
    BY <1>1, <1>10, <2>1 DEF RequestInv
  <2>3. ASSUME q.kind = "replace" PROVE ~RowCreated(q.other)
    <3>1. q.other \in Memories
      BY <2>2, <2>3 DEF NamesOK, Memories
    <3>2. q.other # r.other
      BY <1>1, <1>2, <1>10, <2>1, <2>2, <2>3 DEF DrawnOnce
    <3>3. QED BY <1>3, <3>1, <3>2
  <2>4. NamesOK(q)' /\ SeenOK(q)'
    BY <1>1, <1>3, <2>2, <2>3, OthersKeep
  <2>5. QED BY <2>1, <2>2, <2>4
<1>11. QED BY <1>6, <1>7, <1>8, <1>9, <1>10 DEF MemoryIInv, RequestInv

\* Every step of the memory keeps the invariant.
LEMMA MemoryStep == ASSUME MemoryIInv, MemoryNext \/ UNCHANGED memoryVars PROVE MemoryIInv'
<1>1. CASE (\E c \in Candidates : Deliver(c)) \/ ReadCandidate \/ StaleHead \/ AbandonCommit
  BY <1>1, CommitSteps
<1>2. CASE CloseFence \/ PruneEvents \/ UNCHANGED memoryVars
  BY <1>2, OtherSteps
<1>3. CASE StoreCandidate
  BY <1>3, StoreStep
<1>4. CASE \E u \in Users : Ask(u) \/ ReadRequest(u) \/ WriteRequest(u) \/ RefuseRequest(u)
  BY <1>4, AskStep, ReadStep, WriteStep, RefuseStep
<1>5. QED BY <1>1, <1>2, <1>3, <1>4 DEF MemoryNext

-----------------------------------------------------------------------------
(* The memes of the Mode.                                                  *)

Sources == Proposed \cup Legacy
Meme == [state : Memes!MemeStates, revision : Nat, pinned : BOOLEAN, idle : BOOLEAN]
Decision == [verb : Memes!Verbs, candidate : Sources, enabled : BOOLEAN,
             outcome : Memes!Outcomes, revision : Nat]
PageActions == {"edit", "revoke", "disable", "restore", "archive", "pin", "unpin"}

\* A decision holds the lock, so what it read of its candidate is still so.
DecisionInv ==
    decision # None =>
       /\ decision \in Decision
       /\ decision.outcome = candidate[decision.candidate]
       /\ decision.verb = "commit" => decision.candidate \in Proposed
       /\ decision.verb \in {"approve", "reject"} => decision.outcome # "none"
       /\ decision.verb = "undo" => meme[decision.candidate].state # "none"

\* What an order of the page names, and what is left of what it listed.
OrderOK(r) ==
    \/ r.action \in PageActions /\ r.meme \in Sources /\ meme[r.meme].state # "none"
    \/ r.action = "switch"
    \/ /\ r.action = "maintain" /\ DOMAIN r.listed \subseteq Sources
       /\ \A c \in DOMAIN r.listed :
             /\ r.listed[c] \in Nat /\ meme[c].state # "none" /\ r.listed[c] <= meme[c].revision
             /\ r.listed[c] = meme[c].revision =>
                   meme[c].state = "active" /\ meme[c].idle /\ ~meme[c].pinned

MemeIInv ==
    /\ Memes!MemesConsistent
    /\ meme \in [Sources -> Meme] /\ log \in [Sources -> SUBSET Nat]
    /\ auto.enabled \in BOOLEAN
    /\ DecisionInv
    /\ DOMAIN order = Owners
    /\ \A o \in Owners : order[o] # None => OrderOK(order[o])

LEMMA SourceFacts == Memes!Sources = Sources
BY DEF Memes!Sources, Sources

\* The store, said of each candidate.
MemeRowOK(c) ==
    /\ candidate[c] \in Memes!Outcomes /\ meme[c] \in Meme
    /\ candidate[c] = "accepted" <=> meme[c].state # "none"
    /\ c \in Legacy => candidate[c] \in {"none", "accepted"}
    /\ log[c] = 1..meme[c].revision

LEMMA ConsistentRows ==
  ASSUME candidate \in [Sources -> Memes!Outcomes], \A c \in Sources : MemeRowOK(c)
  PROVE  Memes!MemesConsistent
BY SourceFacts DEF MemeRowOK, Memes!MemesConsistent, Meme

LEMMA RowsConsistent ==
  ASSUME MemeIInv
  PROVE  candidate \in [Sources -> Memes!Outcomes] /\ \A c \in Sources : MemeRowOK(c)
BY SourceFacts DEF MemeIInv, MemeRowOK, Memes!MemesConsistent, Meme

\* What the steps do to one meme: its revision never falls, and with the same
\* revision its state stays and it is idle and unpinned if it was.
MemeGrows(c) ==
    /\ meme[c].state # "none" => /\ meme'[c].state # "none" /\ meme[c].revision <= meme'[c].revision
                                 /\ meme'[c].revision = meme[c].revision =>
                                       /\ meme'[c].state = meme[c].state
                                       /\ meme'[c].pinned = meme[c].pinned
                                       /\ meme[c].idle => meme'[c].idle

LEMMA OrderKept ==
  ASSUME MemeIInv, \A c \in Sources : meme'[c] \in Meme /\ MemeGrows(c), NEW r, OrderOK(r)
  PROVE  OrderOK(r)'
<1>1. \A c \in Sources : meme[c].revision \in Nat /\ meme'[c].revision \in Nat
  BY DEF MemeIInv, Meme
<1>2. CASE r.action \in PageActions /\ r.meme \in Sources /\ meme[r.meme].state # "none"
  BY <1>2 DEF OrderOK, MemeGrows
<1>3. CASE r.action = "switch"
  BY <1>3 DEF OrderOK
<1>4. CASE /\ r.action = "maintain" /\ DOMAIN r.listed \subseteq Sources
           /\ \A c \in DOMAIN r.listed :
                 /\ r.listed[c] \in Nat /\ meme[c].state # "none" /\ r.listed[c] <= meme[c].revision
                 /\ r.listed[c] = meme[c].revision =>
                       meme[c].state = "active" /\ meme[c].idle /\ ~meme[c].pinned
  <2>1. ASSUME NEW c \in DOMAIN r.listed
        PROVE  /\ meme'[c].state # "none" /\ r.listed[c] <= meme'[c].revision
               /\ r.listed[c] = meme'[c].revision =>
                     meme'[c].state = "active" /\ meme'[c].idle /\ ~meme'[c].pinned
    <3>1. c \in Sources /\ MemeGrows(c) /\ r.listed[c] \in Nat /\ r.listed[c] <= meme[c].revision
      BY <1>4
    <3>2. QED BY <1>1, <1>4, <3>1 DEF MemeGrows
  <2>2. QED BY <1>4, <2>1 DEF OrderOK
<1>5. QED BY <1>2, <1>3, <1>4 DEF OrderOK

\* A revision of one meme.
LEMMA ReviseWorks ==
  ASSUME MemeIInv, NEW c \in Sources, NEW n, NEW state \in Memes!MemeStates \ {"none"},
         NEW pinned \in BOOLEAN, Memes!Revise(c, n, state, pinned), meme[c].state # "none",
         candidate' = candidate
  PROVE  /\ meme' \in [Sources -> Meme] /\ log' \in [Sources -> SUBSET Nat]
         /\ \A d \in Sources : MemeGrows(d) /\ MemeRowOK(d)'
<1>1. meme \in [Sources -> Meme] /\ log \in [Sources -> SUBSET Nat] /\ \A d \in Sources : MemeRowOK(d)
  BY RowsConsistent DEF MemeIInv
<1>2. n = meme[c].revision /\ n \in Nat /\ n + 1 \in Nat
  BY <1>1 DEF Memes!Revise, Meme
<1> DEFINE new == [state |-> state, revision |-> n + 1, pinned |-> pinned, idle |-> FALSE]
<1>3. new \in Meme /\ new.revision = n + 1 /\ new.state = state
  BY <1>2 DEF Meme
<1>4. meme' = [meme EXCEPT ![c] = new] /\ log' = [log EXCEPT ![c] = log[c] \cup {n + 1}]
  BY DEF Memes!Revise
<1> HIDE DEF new
<1>5. /\ meme' \in [Sources -> Meme] /\ log' \in [Sources -> SUBSET Nat]
      /\ meme'[c] = new /\ log'[c] = log[c] \cup {n + 1}
      /\ \A d \in Sources : d # c => meme'[d] = meme[d] /\ log'[d] = log[d]
  BY <1>1, <1>2, <1>3, <1>4
<1>6. ASSUME NEW d \in Sources PROVE MemeGrows(d) /\ MemeRowOK(d)'
  <2>1. CASE d = c
    <3>1. log'[c] = 1..(n + 1)
      BY <1>1, <1>2, <1>5 DEF MemeRowOK
    <3>2. QED BY <1>1, <1>2, <1>3, <1>5, <2>1, <3>1 DEF MemeGrows, MemeRowOK
  <2>2. CASE d # c
    <3>1. meme[d].revision \in Nat
      BY <1>1 DEF Meme
    <3>2. QED BY <1>1, <1>5, <2>2, <3>1 DEF MemeGrows, MemeRowOK
  <2>3. QED BY <2>1, <2>2
<1>7. QED BY <1>5, <1>6

\* The invariant after a step, from what the step does to the store, the lock and the orders.
LEMMA MemesNext ==
  ASSUME MemeIInv, candidate' \in [Sources -> Memes!Outcomes],
         meme' \in [Sources -> Meme], log' \in [Sources -> SUBSET Nat],
         \A c \in Sources : MemeGrows(c) /\ MemeRowOK(c)',
         auto'.enabled \in BOOLEAN, DecisionInv', DOMAIN order' = Owners,
         \A o \in Owners : order'[o] # None /\ order'[o] # order[o] => OrderOK(order[o])'
  PROVE  MemeIInv'
<1>1. Memes!MemesConsistent'
  BY SourceFacts DEF MemeRowOK, Memes!MemesConsistent, Meme
<1>2. ASSUME NEW o \in Owners, order'[o] # None PROVE OrderOK(order[o])'
  <2>1. PICK r : r = order[o]
    OBVIOUS
  <2>2. CASE order'[o] = r
    <3>1. OrderOK(r)
      BY <1>2, <2>1, <2>2 DEF MemeIInv
    <3>2. OrderOK(r)'
      BY <3>1, OrderKept
    <3>3. QED BY <2>2, <3>2
  <2>3. CASE order'[o] # r
    BY <1>2, <2>1, <2>3
  <2>4. QED BY <2>2, <2>3
<1>3. QED BY <1>1, <1>2 DEF MemeIInv

\* The store is left alone.
LEMMA StoreFrame ==
  ASSUME MemeIInv, candidate' = candidate, meme' = meme, log' = log
  PROVE  /\ candidate' \in [Sources -> Memes!Outcomes]
         /\ meme' \in [Sources -> Meme] /\ log' \in [Sources -> SUBSET Nat]
         /\ \A c \in Sources : MemeGrows(c) /\ MemeRowOK(c)'
<1>1. meme \in [Sources -> Meme] /\ \A c \in Sources : MemeRowOK(c)
  BY RowsConsistent DEF MemeIInv
<1>2. \A c \in Sources : meme[c].revision \in Nat
  BY <1>1 DEF Meme
<1>3. \A c \in Sources : MemeRowOK(c)'
  BY <1>1 DEF MemeRowOK
<1>4. QED BY <1>2, <1>3, RowsConsistent DEF MemeIInv, MemeGrows

\* A decision says the same while its candidate stays as it is and its meme remains.
LEMMA DecisionFrame ==
  ASSUME DecisionInv, candidate' = candidate, decision' = decision,
         \A c \in Sources : meme[c].state # "none" => meme'[c].state # "none"
  PROVE  DecisionInv'
BY DEF DecisionInv, Decision

LEMMA MemesStart == ASSUME Memes!MemeInit PROVE MemeIInv
<1>1. /\ candidate = [c \in Sources |-> "none"] /\ meme = [c \in Sources |-> Memes!NoMeme]
      /\ log = [c \in Sources |-> {}] /\ auto = [enabled |-> TRUE, revision |-> 0]
      /\ decision = None /\ order = [o \in Owners |-> None]
  BY SourceFacts DEF Memes!MemeInit
<1>2. Memes!NoMeme \in Meme /\ Memes!NoMeme.state = "none" /\ Memes!NoMeme.revision = 0
  BY DEF Memes!NoMeme, Meme, Memes!MemeStates
<1>3. \A c \in Sources : MemeRowOK(c)
  BY <1>1, <1>2 DEF MemeRowOK, Memes!Outcomes
<1>4. candidate \in [Sources -> Memes!Outcomes]
  BY <1>1 DEF Memes!Outcomes
<1>5. QED BY <1>1, <1>2, <1>3, <1>4, ConsistentRows DEF MemeIInv, DecisionInv

\* Under the fence: admitted, left undecided, closed.
LEMMA LockSteps ==
  ASSUME MemeIInv,
         \/ \E verb \in Memes!Verbs, c \in Memes!Sources : Memes!Admit(verb, c)
         \/ Memes!LeaveUndecided \/ Memes!CloseFence \/ UNCHANGED memeVars
  PROVE  MemeIInv'
<1>1. candidate' = candidate /\ meme' = meme /\ log' = log /\ auto' = auto /\ order' = order
  BY DEF Memes!Admit, Memes!LeaveUndecided, Memes!CloseFence, memeVars
<1>2. DecisionInv'
  <2>1. CASE \E verb \in Memes!Verbs, c \in Memes!Sources : Memes!Admit(verb, c)
    <3>1. PICK verb \in Memes!Verbs, c \in Sources : Memes!Admit(verb, c)
      BY <2>1, SourceFacts
    <3>2. CASE decision' = None
      BY <3>2 DEF DecisionInv
    <3>3. CASE decision' = [verb |-> verb, candidate |-> c, enabled |-> auto.enabled,
                            outcome |-> candidate[c], revision |-> meme[c].revision]
      <4>1. auto.enabled \in BOOLEAN /\ candidate[c] \in Memes!Outcomes /\ meme[c].revision \in Nat
        BY RowsConsistent DEF MemeIInv, Meme
      <4>2. decision' \in Decision /\ decision'.verb = verb /\ decision'.candidate = c
            /\ decision'.outcome = candidate[c]
        BY <3>3, <4>1 DEF Decision
      <4>3. Memes!Speaks(verb, c)
        BY <3>1 DEF Memes!Admit
      <4>4. QED BY <1>1, <4>2, <4>3 DEF DecisionInv, Memes!Speaks
    <3>4. QED BY <3>1, <3>2, <3>3 DEF Memes!Admit
  <2>2. CASE Memes!LeaveUndecided
    BY <2>2 DEF Memes!LeaveUndecided, DecisionInv
  <2>3. CASE Memes!CloseFence \/ UNCHANGED memeVars
    <3>1. decision' = decision
      BY <2>3 DEF Memes!CloseFence, memeVars
    <3>2. QED BY <1>1, <3>1, DecisionFrame DEF MemeIInv
  <2>4. QED BY <2>1, <2>2, <2>3
<1>3. QED BY <1>1, <1>2, StoreFrame, MemesNext DEF MemeIInv

\* What a decision does to the store: at most its candidate is decided, and its meme created or revised.
LEMMA DecideWorks ==
  ASSUME MemeIInv, Memes!Decide
  PROVE  /\ candidate' \in [Sources -> Memes!Outcomes]
         /\ meme' \in [Sources -> Meme] /\ log' \in [Sources -> SUBSET Nat]
         /\ \A c \in Sources : MemeGrows(c) /\ MemeRowOK(c)'
         /\ \A c \in Sources : candidate[c] \in {"accepted", "rejected"} => candidate'[c] = candidate[c]
<1> DEFINE c == decision.candidate
<1>1. /\ decision \in Decision /\ c \in Sources /\ decision.outcome = candidate[c]
      /\ decision.verb = "commit" => c \in Proposed
      /\ decision.verb \in {"approve", "reject"} => decision.outcome # "none"
      /\ decision.verb = "undo" => meme[c].state # "none"
  BY DEF MemeIInv, DecisionInv, Memes!Decide, Decision
<1>2. candidate \in [Sources -> Memes!Outcomes] /\ meme \in [Sources -> Meme]
      /\ log \in [Sources -> SUBSET Nat] /\ \A d \in Sources : MemeRowOK(d)
  BY RowsConsistent DEF MemeIInv
<1>3. \A d \in Sources : meme[d].revision \in Nat
  BY <1>2 DEF Meme
<1> HIDE DEF c
<1>4. CASE Memes!Accept
  <2> DEFINE new == [state |-> "active", revision |-> 1, pinned |-> FALSE, idle |-> FALSE]
  <2>1. Memes!Create(c) /\ candidate[c] # "accepted" /\ candidate[c] \in {"none", "pending"}
    BY <1>1, <1>4 DEF Memes!Accept, Memes!Still, c
  <2>2. meme' = [meme EXCEPT ![c] = new] /\ log' = [log EXCEPT ![c] = {1}]
        /\ candidate' = [candidate EXCEPT ![c] = "accepted"]
    BY <2>1 DEF Memes!Create
  <2>3. new \in Meme /\ new.state = "active" /\ new.revision = 1 /\ "accepted" \in Memes!Outcomes
    BY DEF Meme, Memes!MemeStates, Memes!Outcomes
  <2> HIDE DEF new
  <2>4. /\ candidate' \in [Sources -> Memes!Outcomes] /\ meme' \in [Sources -> Meme]
        /\ log' \in [Sources -> SUBSET Nat]
        /\ candidate'[c] = "accepted" /\ meme'[c] = new /\ log'[c] = {1}
        /\ \A d \in Sources : d # c => candidate'[d] = candidate[d] /\ meme'[d] = meme[d] /\ log'[d] = log[d]
    BY <1>1, <1>2, <2>2, <2>3
  <2>5. ASSUME NEW d \in Sources PROVE MemeGrows(d) /\ MemeRowOK(d)'
    <3>1. CASE d = c
      <4>1. meme[c].state = "none" /\ 1..1 = {1}
        BY <1>1, <1>2, <2>1 DEF MemeRowOK
      <4>2. QED BY <2>3, <2>4, <3>1, <4>1 DEF MemeGrows, MemeRowOK
    <3>2. CASE d # c
      BY <1>2, <1>3, <2>4, <3>2 DEF MemeGrows, MemeRowOK
    <3>3. QED BY <3>1, <3>2
  <2>6. QED BY <2>1, <2>4, <2>5
<1>5. CASE Memes!Park \/ Memes!Reject
  <2>1. PICK outcome \in {"pending", "rejected"} : candidate' = [candidate EXCEPT ![c] = outcome]
    BY <1>5 DEF Memes!Park, Memes!Reject, c
  <2>2. meme' = meme /\ log' = log
    BY <1>5 DEF Memes!Park, Memes!Reject
  <2>3. candidate[c] \in {"none", "pending"} /\ c \notin Legacy
    <3>1. CASE Memes!Park
      BY <1>1, <3>1, MemeAssumption DEF Memes!Park
    <3>2. CASE Memes!Reject
      <4>1. candidate[c] = "pending"
        BY <3>2 DEF Memes!Reject, Memes!Still, c
      <4>2. QED BY <1>1, <1>2, <4>1 DEF MemeRowOK
    <3>3. QED BY <1>5, <3>1, <3>2
  <2>4. outcome \in Memes!Outcomes
    BY DEF Memes!Outcomes
  <2>5. /\ candidate' \in [Sources -> Memes!Outcomes] /\ candidate'[c] = outcome
        /\ \A d \in Sources : d # c => candidate'[d] = candidate[d]
    BY <1>1, <1>2, <2>1, <2>4
  <2>6. ASSUME NEW d \in Sources PROVE MemeGrows(d) /\ MemeRowOK(d)'
    <3>1. MemeGrows(d)
      BY <1>3, <2>2 DEF MemeGrows
    <3>2. CASE d = c
      BY <1>1, <1>2, <2>2, <2>3, <2>4, <2>5, <3>1, <3>2 DEF MemeRowOK
    <3>3. CASE d # c
      BY <1>2, <2>2, <2>5, <3>1, <3>3 DEF MemeRowOK
    <3>4. QED BY <3>1, <3>2, <3>3
  <2>7. QED BY <1>2, <2>2, <2>3, <2>5, <2>6
<1>6. CASE Memes!Undo
  <2>1. /\ Memes!Revise(c, decision.revision, "revoked", meme[c].pinned)
        /\ candidate' = candidate /\ meme[c].state # "none"
    BY <1>1, <1>6 DEF Memes!Undo, c
  <2>2. "revoked" \in Memes!MemeStates \ {"none"} /\ meme[c].pinned \in BOOLEAN
    BY <1>1, <1>2 DEF Memes!MemeStates, Meme
  <2>3. QED BY <1>1, <1>2, <2>1, <2>2, ReviseWorks
<1>7. QED BY <1>4, <1>5, <1>6 DEF Memes!Decide

LEMMA DecideStep == ASSUME MemeIInv, Memes!Decide PROVE MemeIInv'
<1>1. auto' = auto /\ order' = order /\ decision' = None
  BY DEF Memes!Decide
<1>2. DecisionInv'
  BY <1>1 DEF DecisionInv
<1>3. QED BY <1>1, <1>2, DecideWorks, MemesNext DEF MemeIInv

-----------------------------------------------------------------------------
(* Orders of the meme page.                                                *)

ActionState == Memes!Actions

LEMMA ActionFacts ==
  ASSUME NEW a, a \in DOMAIN Memes!Actions
  PROVE  a \in PageActions /\ (ActionState[a] # "" => ActionState[a] \in Memes!MemeStates \ {"none"})
<1>1. a \in PageActions
  BY DEF Memes!Actions, PageActions
<1>2. ActionState["edit"] = "" /\ ActionState["pin"] = "" /\ ActionState["unpin"] = ""
  BY Zenon DEF Memes!Actions, ActionState
<1>3. ActionState["revoke"] = "revoked" /\ ActionState["disable"] = "disabled"
      /\ ActionState["restore"] = "active" /\ ActionState["archive"] = "archived"
  BY Zenon DEF Memes!Actions, ActionState
<1>4. QED BY <1>1, <1>2, <1>3 DEF PageActions, Memes!MemeStates

\* An owner asks: it sees the memes as they are.
LEMMA OrderStep ==
  ASSUME MemeIInv, NEW o \in Owners, Memes!Order(o) PROVE MemeIInv'
<1>1. candidate' = candidate /\ meme' = meme /\ log' = log /\ auto' = auto /\ decision' = decision
  BY DEF Memes!Order
<1>2. \E r : order' = [order EXCEPT ![o] = r] /\ OrderOK(r)
  <2>1. CASE \E action \in DOMAIN Memes!Actions, c \in Memes!Stored :
                order' = [order EXCEPT ![o] = [action |-> action, meme |-> c, revision |-> meme[c].revision]]
    <3>1. PICK action \in PageActions, c \in Sources :
             /\ meme[c].state # "none"
             /\ order' = [order EXCEPT ![o] = [action |-> action, meme |-> c, revision |-> meme[c].revision]]
      BY <2>1, ActionFacts, SourceFacts DEF Memes!Stored
    <3> DEFINE r == [action |-> action, meme |-> c, revision |-> meme[c].revision]
    <3>2. OrderOK(r)
      BY <3>1 DEF OrderOK
    <3>3. QED BY <3>1, <3>2
  <2>2. CASE order' = [order EXCEPT ![o] = [action |-> "switch", revision |-> auto.revision]]
    <3> DEFINE r == [action |-> "switch", revision |-> auto.revision]
    <3>1. OrderOK(r)
      BY DEF OrderOK
    <3>2. QED BY <2>2, <3>1
  <2>3. CASE order' = [order EXCEPT ![o] = [action |-> "maintain",
              listed |-> [c \in {d \in Memes!Stored : meme[d].state = "active" /\ meme[d].idle /\ ~meme[d].pinned}
                          |-> meme[c].revision]]]
    <3> DEFINE D == {d \in Memes!Stored : meme[d].state = "active" /\ meme[d].idle /\ ~meme[d].pinned}
               listed == [c \in D |-> meme[c].revision]
               r == [action |-> "maintain", listed |-> listed]
    <3>1. D \subseteq Sources /\ \A c \in D : meme[c].revision \in Nat
      BY SourceFacts DEF Memes!Stored, MemeIInv, Meme
    <3>2. \A c \in D : /\ listed[c] = meme[c].revision /\ meme[c].state # "none"
                       /\ meme[c].state = "active" /\ meme[c].idle /\ ~meme[c].pinned
      OBVIOUS
    <3>3. DOMAIN listed = D
      OBVIOUS
    <3> HIDE DEF D, listed
    <3>4. OrderOK(r)
      BY <3>1, <3>2, <3>3 DEF OrderOK
    <3>5. QED BY <2>3, <3>4 DEF D, listed
  <2>4. QED BY <2>1, <2>2, <2>3 DEF Memes!Order
<1>3. PICK r : order' = [order EXCEPT ![o] = r] /\ OrderOK(r)
  BY <1>2
<1>4. OrderOK(r)'
  BY <1>1, <1>3, StoreFrame, OrderKept
<1>5. DOMAIN order' = Owners /\ order'[o] = r /\ \A p \in Owners : p # o => order'[p] = order[p]
  BY <1>3 DEF MemeIInv
<1>6. \A p \in Owners : order'[p] # order[p] => OrderOK(order[p])'
  BY <1>4, <1>5
<1>7. DecisionInv'
  BY <1>1, DecisionFrame DEF MemeIInv
<1>8. QED BY <1>1, <1>5, <1>6, <1>7, StoreFrame, MemesNext DEF MemeIInv

\* What a change does to the store.
LEMMA ChangeWorks ==
  ASSUME MemeIInv, NEW o \in Owners, Memes!Change(o)
  PROVE  /\ meme' \in [Sources -> Meme] /\ log' \in [Sources -> SUBSET Nat]
         /\ \A c \in Sources : MemeGrows(c) /\ MemeRowOK(c)'
<1> DEFINE r == order[o]
           c == r.meme
           state == IF ActionState[r.action] = "" THEN meme[c].state ELSE ActionState[r.action]
           pinned == IF r.action \in {"pin", "unpin"} THEN r.action = "pin" ELSE meme[c].pinned
<1>1. /\ r # None /\ r.action \in DOMAIN Memes!Actions /\ candidate' = candidate
      /\ Memes!Revise(c, r.revision, state, pinned)
  BY DEF Memes!Change, ActionState
<1>2. r.action \in PageActions /\ OrderOK(r)
  BY <1>1, ActionFacts DEF MemeIInv
<1>3. c \in Sources /\ meme[c].state # "none"
  BY <1>2 DEF OrderOK, PageActions
<1>4. meme[c].state \in Memes!MemeStates /\ meme[c].pinned \in BOOLEAN
  BY <1>3 DEF MemeIInv, Meme
<1>5. state \in Memes!MemeStates \ {"none"} /\ pinned \in BOOLEAN
  BY <1>1, <1>3, <1>4, ActionFacts
<1> HIDE DEF c, state, pinned
<1>6. QED BY <1>1, <1>3, <1>5, ReviseWorks

\* What the maintenance does to the store.
LEMMA MaintainWorks ==
  ASSUME MemeIInv, NEW o \in Owners, Memes!Maintain(o)
  PROVE  /\ meme' \in [Sources -> Meme] /\ log' \in [Sources -> SUBSET Nat]
         /\ \A c \in Sources : MemeGrows(c) /\ MemeRowOK(c)'
         /\ \A c \in Sources : meme'[c] = meme[c] \/ (meme[c].state = "active" /\ meme[c].idle /\ ~meme[c].pinned)
<1> DEFINE r == order[o]
           D == DOMAIN r.listed
<1>1. r # None /\ r.action = "maintain" /\ Memes!ListedUnchanged(r.listed) /\ candidate' = candidate
  BY DEF Memes!Maintain
<1>2. OrderOK(r) /\ meme \in [Sources -> Meme] /\ log \in [Sources -> SUBSET Nat]
      /\ \A c \in Sources : MemeRowOK(c)
  BY <1>1, RowsConsistent DEF MemeIInv
<1>3. D \subseteq Sources /\ \A c \in D : meme[c].state = "active" /\ meme[c].idle /\ ~meme[c].pinned
  BY <1>1, <1>2 DEF OrderOK, Memes!ListedUnchanged, PageActions
<1>4. /\ meme' = [c \in Sources |->
            IF c \in D THEN [meme[c] EXCEPT !.state = "archived", !.revision = @ + 2, !.idle = FALSE] ELSE meme[c]]
      /\ log' = [c \in Sources |->
            IF c \in D THEN log[c] \cup {meme[c].revision + 1, meme[c].revision + 2} ELSE log[c]]
  BY SourceFacts DEF Memes!Maintain
<1> HIDE DEF D, r
<1>5. ASSUME NEW c \in Sources
      PROVE  /\ meme'[c] \in Meme /\ log'[c] \in SUBSET Nat /\ MemeGrows(c) /\ MemeRowOK(c)'
             /\ c \notin D => meme'[c] = meme[c]
  <2>1. meme[c] \in Meme /\ log[c] = 1..meme[c].revision /\ candidate'[c] = candidate[c] /\ MemeRowOK(c)
    BY <1>1, <1>2 DEF MemeRowOK
  <2>2. PICK n \in Nat : n = meme[c].revision
    BY <2>1 DEF Meme
  <2>3. CASE c \in D
    <3>1. PICK k \in Nat : k = n + 2
      BY <2>2
    <3>2. meme'[c] = [meme[c] EXCEPT !.state = "archived", !.revision = k, !.idle = FALSE]
      BY <1>4, <2>2, <2>3, <3>1
    <3>3. meme'[c] \in Meme /\ meme'[c].state = "archived" /\ meme'[c].revision = k
      BY <2>1, <3>2 DEF Meme, Memes!MemeStates
    <3>4. log'[c] = 1..k
      <4>1. log'[c] = 1..n \cup {n + 1, n + 2}
        BY <1>4, <2>1, <2>2, <2>3
      <4>2. QED BY <3>1, <4>1
    <3>5. meme[c].state = "active"
      BY <1>3, <2>3
    <3>6. QED BY <2>1, <2>2, <2>3, <3>1, <3>3, <3>4, <3>5 DEF MemeGrows, MemeRowOK
  <2>4. CASE c \notin D
    <3>1. meme'[c] = meme[c] /\ log'[c] = log[c]
      BY <1>4, <2>4
    <3>2. QED BY <2>1, <2>2, <3>1 DEF MemeGrows, MemeRowOK
  <2>5. QED BY <2>3, <2>4
<1>6. meme' \in [Sources -> Meme] /\ log' \in [Sources -> SUBSET Nat]
  <2>1. DOMAIN meme' = Sources /\ meme' = [c \in Sources |-> meme'[c]]
        /\ log' = [c \in Sources |-> log'[c]]
    BY <1>4
  <2>2. QED BY <1>5, <2>1
<1>7. QED BY <1>3, <1>5, <1>6

\* A meme has not been touched for thirty days.
LEMMA IdleWorks ==
  ASSUME MemeIInv, NEW c \in Sources, Memes!Idle(c)
  PROVE  /\ meme' \in [Sources -> Meme] /\ log' \in [Sources -> SUBSET Nat]
         /\ \A d \in Sources : MemeGrows(d) /\ MemeRowOK(d)' /\ meme'[d].state = meme[d].state
<1>1. meme \in [Sources -> Meme] /\ \A d \in Sources : MemeRowOK(d) /\ meme[d] \in Meme
  BY RowsConsistent DEF MemeIInv
<1>2. meme' = [meme EXCEPT ![c] = [meme[c] EXCEPT !.idle = TRUE]] /\ candidate' = candidate /\ log' = log
  BY <1>1 DEF Memes!Idle
<1> DEFINE new == [meme[c] EXCEPT !.idle = TRUE]
<1>3. /\ new \in Meme /\ new.idle /\ new.state = meme[c].state
      /\ new.revision = meme[c].revision /\ new.pinned = meme[c].pinned
  BY <1>1 DEF Meme
<1> HIDE DEF new
<1>4. meme' \in [Sources -> Meme] /\ meme'[c] = new /\ \A d \in Sources : d # c => meme'[d] = meme[d]
  BY <1>1, <1>2, <1>3 DEF new
<1>5. ASSUME NEW d \in Sources PROVE MemeGrows(d) /\ MemeRowOK(d)' /\ meme'[d].state = meme[d].state
  <2>1. MemeRowOK(d) /\ meme[d].revision \in Nat
    BY <1>1 DEF Meme
  <2>2. CASE d = c
    BY <1>2, <1>3, <1>4, <2>1, <2>2 DEF MemeGrows, MemeRowOK
  <2>3. CASE d # c
    BY <1>2, <1>4, <2>1, <2>3 DEF MemeGrows, MemeRowOK
  <2>4. QED BY <2>2, <2>3
<1>6. QED BY <1>2, <1>4, <1>5 DEF MemeIInv

\* The orders that are carried out or refused, and the passing of days.
LEMMA PageSteps ==
  ASSUME MemeIInv,
         \/ \E o \in Owners : Memes!Change(o) \/ Memes!Switch(o) \/ Memes!Maintain(o) \/ Memes!Refuse(o)
         \/ \E c \in Memes!Sources : Memes!Idle(c)
  PROVE  MemeIInv'
<1>1. candidate' = candidate /\ decision' = decision
  BY DEF Memes!Change, Memes!Switch, Memes!Maintain, Memes!Refuse, Memes!Idle
<1>2. DOMAIN order' = Owners /\ \A o \in Owners : order'[o] = None \/ order'[o] = order[o]
  BY DEF MemeIInv, Memes!Change, Memes!Switch, Memes!Maintain, Memes!Refuse, Memes!Idle
<1>3. auto'.enabled \in BOOLEAN
  <2>1. auto' = auto \/ auto' = [enabled |-> ~auto.enabled, revision |-> auto.revision + 1]
    BY DEF Memes!Change, Memes!Switch, Memes!Maintain, Memes!Refuse, Memes!Idle
  <2>2. CASE auto' = auto
    BY <2>2 DEF MemeIInv
  <2>3. CASE auto' = [enabled |-> ~auto.enabled, revision |-> auto.revision + 1]
    <3>1. auto'.enabled = ~auto.enabled
      BY <2>3, Zenon
    <3>2. QED BY <3>1
  <2>4. QED BY <2>1, <2>2, <2>3
<1>4. /\ meme' \in [Sources -> Meme] /\ log' \in [Sources -> SUBSET Nat]
      /\ \A c \in Sources : MemeGrows(c) /\ MemeRowOK(c)'
  <2>1. CASE \E o \in Owners : Memes!Change(o)
    BY <2>1, ChangeWorks
  <2>2. CASE \E o \in Owners : Memes!Maintain(o)
    BY <2>2, MaintainWorks
  <2>3. CASE \E o \in Owners : Memes!Switch(o) \/ Memes!Refuse(o)
    BY <2>3, StoreFrame DEF Memes!Switch, Memes!Refuse
  <2>4. CASE \E c \in Memes!Sources : Memes!Idle(c)
    BY <2>4, SourceFacts, IdleWorks
  <2>5. QED BY <2>1, <2>2, <2>3, <2>4
<1>5. \A c \in Sources : meme[c].state # "none" => meme'[c].state # "none"
  BY <1>4 DEF MemeGrows
<1>6. DecisionInv'
  BY <1>1, <1>5, DecisionFrame DEF MemeIInv
<1>7. candidate' \in [Sources -> Memes!Outcomes]
  BY <1>1, RowsConsistent
<1>8. QED BY <1>2, <1>3, <1>4, <1>6, <1>7, MemesNext

\* Every step of the memes keeps the invariant.
LEMMA MemesStep == ASSUME MemeIInv, Memes!MemeNext \/ UNCHANGED memeVars PROVE MemeIInv'
<1>1. CASE \/ \E verb \in Memes!Verbs, c \in Memes!Sources : Memes!Admit(verb, c)
           \/ Memes!LeaveUndecided \/ Memes!CloseFence \/ UNCHANGED memeVars
  BY <1>1, LockSteps
<1>2. CASE Memes!Decide
  BY <1>2, DecideStep
<1>3. CASE \E o \in Owners : Memes!Order(o)
  BY <1>3, OrderStep
<1>4. CASE \/ \E o \in Owners : Memes!Change(o) \/ Memes!Switch(o) \/ Memes!Maintain(o) \/ Memes!Refuse(o)
           \/ \E c \in Memes!Sources : Memes!Idle(c)
  BY <1>4, PageSteps
<1>5. QED BY <1>1, <1>2, <1>3, <1>4 DEF Memes!MemeNext

-----------------------------------------------------------------------------
(* Theorems.                                                               *)

IInv == MemoryIInv /\ MemeIInv

\* The inductive invariant: both stores are well formed, and what is under way
\* in each still agrees with the rows, ids, candidates and revisions it read.
THEOREM Invariance == Spec => []IInv
<1>1. Init => IInv
  BY MemoryStart, MemesStart DEF Init, IInv
<1>2. IInv /\ [Next]_vars => IInv'
  <2> SUFFICES ASSUME IInv, [Next]_vars PROVE IInv'
    OBVIOUS
  <2>1. (MemoryNext \/ UNCHANGED memoryVars) /\ (Memes!MemeNext \/ UNCHANGED memeVars)
    BY DEF Next, vars
  <2>2. QED BY <2>1, MemoryStep, MemesStep DEF IInv
<1>3. QED BY <1>1, <1>2, PTL DEF Spec

\* Whatever requests, extractions and decisions meet, both stores stay well
\* formed (SharedBrainService over its SQLite repositories).
THEOREM StoresStayConsistent == Spec => []StoresConsistent
<1>1. IInv => StoresConsistent
  BY DEF IInv, MemoryIInv, MemeIInv, StoresConsistent
<1>2. QED BY <1>1, Invariance, PTL

\* A memory head names one content of the store (_advance_head, commit_candidate).
THEOREM OneContentPerHead == Spec => HeadNamesContents
<1>1. IInv /\ [Next]_vars => [memory' # memory => head' = head + 1]_memoryVars
  <2> SUFFICES ASSUME IInv, [Next]_vars, memory' # memory PROVE head' = head + 1
    OBVIOUS
  <2>1. MemoryNext
    BY DEF Next, vars, memoryVars
  <2>2. MemoryConsistent
    BY DEF IInv, MemoryIInv
  <2>3. CASE StoreCandidate
    BY <2>2, <2>3, Swapped DEF StoreCandidate
  <2>4. CASE \E u \in Users : WriteRequest(u)
    BY <2>2, <2>4, Swapped DEF WriteRequest
  <2>5. CASE ~StoreCandidate /\ ~\E u \in Users : WriteRequest(u)
    BY <2>1, <2>5 DEF MemoryNext, Deliver, ReadCandidate, StaleHead, AbandonCommit, CloseFence,
                      PruneEvents, Ask, ReadRequest, RefuseRequest
  <2>6. QED BY <2>3, <2>4, <2>5
<1>2. Spec => [][memory' # memory => head' = head + 1]_memoryVars
  BY <1>1, Invariance, PTL DEF Spec
<1>3. QED BY <1>2 DEF HeadNamesContents

\* Which request ended by a step that changed the store.
LEMMA WhoWrote ==
  ASSUME IInv, [Next]_vars, NEW u \in Users, request[u] # None, request'[u] = None, memory' # memory
  PROVE  WriteRequest(u)
<1>1. MemoryNext
  BY DEF Next, vars, memoryVars
<1>2. request \in [Users -> RequestRec \cup {None}]
  BY DEF IInv, MemoryIInv, RequestInv
<1>3. PICK v \in Users : WriteRequest(v)
  BY <1>1 DEF MemoryNext, Deliver, ReadCandidate, StoreCandidate, StaleHead, AbandonCommit, CloseFence,
              PruneEvents, Ask, ReadRequest, RefuseRequest
<1>4. request' = [request EXCEPT ![v] = None]
  BY <1>3 DEF WriteRequest
<1>5. v = u
  BY <1>2, <1>4
<1>6. QED BY <1>3, <1>5

\* A request that is carried out finds the rows it names with the content its
\* author saw (edit, merge, replace, revoke, delete and reset).
THEOREM RequestsApplyToWhatWasSeen == Spec => AppliesToWhatWasSeen
<1> DEFINE Body ==
      \A u \in Users :
          request[u] # None /\ request'[u] = None /\ memory' # memory =>
             /\ \A m \in DOMAIN request[u].seen : SameContent(memory[m], request[u].seen[m])
             /\ request[u].kind = "reset" => Rows = DOMAIN request[u].seen
<1>1. IInv /\ [Next]_vars => [Body]_memoryVars
  <2> SUFFICES ASSUME IInv, [Next]_vars, NEW u \in Users, request[u] # None, request'[u] = None,
                      memory' # memory
               PROVE  /\ \A m \in DOMAIN request[u].seen : SameContent(memory[m], request[u].seen[m])
                      /\ request[u].kind = "reset" => Rows = DOMAIN request[u].seen
    OBVIOUS
  <2>1. PICK r \in RequestRec :
            /\ r = request[u] /\ r # None /\ NamesOK(r) /\ SeenOK(r) /\ r.base # None
            /\ Writable(r) /\ SwapHead(r.base)
    BY WhoWrote, WrittenFacts DEF IInv
  <2>2. /\ \A m \in DOMAIN r.seen : SameContent(memory[m], r.seen[m])
        /\ r.kind = "reset" => Rows = DOMAIN r.seen
    BY <2>1, RequestMeetsWhatWasSeen DEF IInv, MemoryIInv
  <2>3. QED BY <2>1, <2>2
<1>2. Spec => [][Body]_memoryVars
  BY <1>1, Invariance, PTL DEF Spec
<1>3. QED BY <1>2 DEF AppliesToWhatWasSeen

\* A memory that was deleted does not come back.
LEMMA Forgotten == Spec => ForgottenStaysForgotten
<1> DEFINE Body == \A m \in Memories : memory[m].state = "deleted" => memory'[m].state = "deleted"
<1>1. IInv /\ [Next]_vars => [Body]_memoryVars
  <2> SUFFICES ASSUME IInv, [Next]_vars, NEW m \in Memories, memory[m].state = "deleted",
                      memory' # memory
               PROVE  memory'[m].state = "deleted"
    BY DEF memoryVars
  <2>1. MemoryNext /\ MemoryConsistent /\ CommitInv
    BY DEF Next, vars, memoryVars, IInv, MemoryIInv
  <2>2. CASE StoreCandidate
    BY <2>1, <2>2, StoreWorks, SameContentFields
       DEF Transaction, RowKept, RowRevised, RowDeleted, RowCreated, Exists
  <2>3. ASSUME NEW u \in Users, WriteRequest(u) PROVE memory'[m].state = "deleted"
    <3>1. Transaction
      BY <2>1, <2>3, WrittenFacts, RequestWorks DEF IInv
    <3>2. QED BY <3>1, SameContentFields
              DEF Transaction, RowKept, RowRevised, RowDeleted, RowCreated, Exists
  <2>4. CASE ~StoreCandidate /\ ~\E u \in Users : WriteRequest(u)
    BY <2>1, <2>4 DEF MemoryNext, Deliver, ReadCandidate, StaleHead, AbandonCommit, CloseFence,
                      PruneEvents, Ask, ReadRequest, RefuseRequest
  <2>5. QED BY <2>2, <2>3, <2>4
<1>2. Spec => [][Body]_memoryVars
  BY <1>1, Invariance, PTL DEF Spec
<1>3. QED BY <1>2 DEF ForgottenStaysForgotten

\* A decision about a candidate is final, and a meme is never made anew.
LEMMA Decided == Spec => Memes!DecisionsAreFinal
<1> DEFINE Body ==
      \A c \in Memes!Sources :
          /\ candidate[c] \in {"accepted", "rejected"} => candidate'[c] = candidate[c]
          /\ meme[c].state # "none" => meme'[c].revision >= meme[c].revision
<1>1. IInv /\ [Next]_vars => [Body]_(Memes!memeVars)
  <2> SUFFICES ASSUME IInv, [Next]_vars, NEW c \in Sources
               PROVE  /\ candidate[c] \in {"accepted", "rejected"} => candidate'[c] = candidate[c]
                      /\ meme[c].state # "none" => meme'[c].revision >= meme[c].revision
    BY SourceFacts
  <2>1. MemeIInv /\ (Memes!MemeNext \/ UNCHANGED memeVars)
    BY DEF Next, vars, IInv
  <2>2. meme[c].revision \in Nat
    BY <2>1 DEF MemeIInv, Meme
  <2>3. CASE Memes!Decide
    <3>1. meme'[c].revision \in Nat
      BY <2>1, <2>3, DecideWorks DEF Meme
    <3>2. QED BY <2>1, <2>2, <2>3, <3>1, DecideWorks DEF MemeGrows
  <2>4. CASE ~Memes!Decide
    <3>1. candidate' = candidate
      BY <2>1, <2>4 DEF Memes!MemeNext, memeVars, Memes!Admit, Memes!LeaveUndecided, Memes!CloseFence,
         Memes!Order, Memes!Change, Memes!Switch, Memes!Maintain, Memes!Refuse, Memes!Idle
    <3>2. meme' \in [Sources -> Meme] /\ MemeGrows(c)
      <4>1. CASE \E o \in Owners : Memes!Change(o)
        BY <2>1, <4>1, ChangeWorks
      <4>2. CASE \E o \in Owners : Memes!Maintain(o)
        BY <2>1, <4>2, MaintainWorks
      <4>3. CASE \E d \in Memes!Sources : Memes!Idle(d)
        BY <2>1, <4>3, SourceFacts, IdleWorks
      <4>4. CASE /\ ~\E o \in Owners : Memes!Change(o) \/ Memes!Maintain(o)
                 /\ ~\E d \in Memes!Sources : Memes!Idle(d)
        <5>1. meme' = meme
          BY <2>1, <2>4, <4>4 DEF Memes!MemeNext, memeVars, Memes!Admit, Memes!LeaveUndecided,
             Memes!CloseFence, Memes!Order, Memes!Switch, Memes!Refuse
        <5>2. QED BY <2>1, <2>2, <5>1 DEF MemeGrows, MemeIInv
      <4>5. QED BY <4>1, <4>2, <4>3, <4>4
    <3>3. meme'[c].revision \in Nat
      BY <3>2 DEF Meme
    <3>4. QED BY <2>2, <3>1, <3>2, <3>3 DEF MemeGrows
  <2>5. QED BY <2>3, <2>4
<1>2. Spec => [][Body]_(Memes!memeVars)
  BY <1>1, Invariance, PTL DEF Spec
<1>3. QED BY <1>2 DEF Memes!DecisionsAreFinal

\* The maintenance spares a meme that was touched after it was listed.
LEMMA Spared == Spec => Memes!MaintenanceSparesKept
<1> DEFINE Body ==
      \A o \in Owners, c \in Memes!Sources :
          order[o] # None /\ order'[o] = None /\ order[o].action = "maintain"
             /\ meme[c].state # "archived" /\ meme'[c].state = "archived"
          => meme[c].state = "active" /\ meme[c].idle /\ ~meme[c].pinned
<1>1. IInv /\ [Next]_vars => [Body]_(Memes!memeVars)
  <2> SUFFICES ASSUME IInv, [Next]_vars, NEW o \in Owners, NEW c \in Sources,
                      order[o] # None, order'[o] = None, order[o].action = "maintain",
                      meme[c].state # "archived", meme'[c].state = "archived"
               PROVE  meme[c].state = "active" /\ meme[c].idle /\ ~meme[c].pinned
    BY SourceFacts
  <2>1. MemeIInv /\ (Memes!MemeNext \/ UNCHANGED memeVars)
    BY DEF Next, vars, IInv
  <2>2. order' # order /\ meme' # meme
    OBVIOUS
  <2>3. PICK p \in Owners : Memes!Change(p) \/ Memes!Maintain(p)
    BY <2>1, <2>2 DEF Memes!MemeNext, memeVars, Memes!Admit, Memes!Decide, Memes!LeaveUndecided,
       Memes!CloseFence, Memes!Order, Memes!Switch, Memes!Refuse, Memes!Idle
  <2>4. order' = [order EXCEPT ![p] = None] /\ DOMAIN order = Owners
    BY <2>1, <2>3 DEF Memes!Change, Memes!Maintain, MemeIInv
  <2>5. p = o
    BY <2>4
  <2>6. ~Memes!Change(p)
    <3>1. "maintain" \notin PageActions
      BY DEF PageActions
    <3>2. QED BY <2>5, <3>1, ActionFacts DEF Memes!Change
  <2>7. QED BY <2>1, <2>3, <2>6, MaintainWorks
<1>2. Spec => [][Body]_(Memes!memeVars)
  BY <1>1, Invariance, PTL DEF Spec
<1>3. QED BY <1>2 DEF Memes!MaintenanceSparesKept

\* People decide what stays: a memory they forgot is not extracted again from
\* its candidate, a decision about a meme candidate is final, and the
\* maintenance spares a meme its owner touched.
THEOREM PeopleHaveTheLastWord == Spec => PeopleDecide
BY Forgotten, Decided, Spared DEF PeopleDecide, OwnersDecide

=============================================================================
