----------------------- MODULE RealtimeIntake_proofs ------------------------
(***************************************************************************)
(* Proofs about RealtimeIntake, for any inputs, connections, scenarios and *)
(* capacities.                                                             *)
(***************************************************************************)
EXTENDS RealtimeIntake, FiniteSetTheorems, SequenceTheorems, TLAPS

-----------------------------------------------------------------------------
(* Greatest and least numbers.                                             *)

Less == {p \in Nat \X Nat : p[1] < p[2]}

\* A set of numbers that is not empty has a least one.
LEMMA MinExists ==
  ASSUME NEW S \in SUBSET Nat, S # {}
  PROVE  Min(S) \in S /\ \A x \in S : Min(S) <= x
<1>1. IsWellFoundedOn(Less, Nat)
  BY NatLessThanWellFounded DEF OpToRel, Less
<1>2. PICK m \in S : \A n \in S : ~(<<n, m>> \in Less)
  BY <1>1, WFMin
<1>3. ASSUME NEW n \in S PROVE m <= n
  <2>1. n \in Nat /\ m \in Nat
    OBVIOUS
  <2>2. n < m => <<n, m>> \in Less
    BY <2>1 DEF Less
  <2>3. QED BY <1>2, <2>1, <2>2
<1>4. QED BY <1>3 DEF Min

\* One that is bounded as well has a greatest one.
LEMMA MaxExists ==
  ASSUME NEW S \in SUBSET Nat, S # {}, NEW b \in Nat, \A x \in S : x <= b
  PROVE  Max(S) \in S /\ \A x \in S : x <= Max(S)
<1> DEFINE B == {n \in Nat : \A x \in S : x <= n}
<1>1. B \in SUBSET Nat /\ B # {}
  OBVIOUS
<1>2. Min(B) \in B /\ \A n \in B : Min(B) <= n
  BY <1>1, MinExists
<1>3. Min(B) \in S
  <2>1. SUFFICES ASSUME Min(B) \notin S PROVE FALSE
    OBVIOUS
  <2>2. Min(B) \in Nat /\ \A x \in S : x <= Min(B) /\ x # Min(B)
    BY <1>2, <2>1
  <2>3. Min(B) - 1 \in B
    <3>1. PICK x \in S : TRUE
      OBVIOUS
    <3>2. x \in Nat /\ x < Min(B)
      BY <2>2, <3>1
    <3>3. Min(B) - 1 \in Nat
      BY <2>2, <3>2
    <3>4. \A y \in S : y <= Min(B) - 1
      BY <2>2, <3>3
    <3>5. QED BY <3>3, <3>4
  <2>4. QED BY <1>2, <2>2, <2>3
<1>4. \E m \in S : \A y \in S : m >= y
  BY <1>2, <1>3
<1>5. QED BY <1>4 DEF Max

-----------------------------------------------------------------------------
(* The ledger.                                                             *)

Fine(l) ==
    /\ l \in LedgerRec
    /\ \A p, q \in DOMAIN l.seen : l.seen[p].id = l.seen[q].id => p = q

\* What is remembered, entry by entry.
LEMMA EntriesTyped ==
  ASSUME NEW l \in LedgerRec
  PROVE  /\ l.seen \in Seq(EntryRec) /\ DOMAIN l.seen = 1..Len(l.seen) /\ Len(l.seen) \in Nat
         /\ Entries(l) \subseteq EntryRec
         /\ \A e : e \in Entries(l) <=> \E p \in DOMAIN l.seen : l.seen[p] = e
BY DEF LedgerRec, Entries, ToSet

\* Forgetting an input removes its entry and no other.
LEMMA ForgetFacts ==
  ASSUME NEW l, Fine(l), NEW i
  PROVE  /\ Fine(Forget(l, i))
         /\ Entries(Forget(l, i)) = {e \in Entries(l) : e.id # i}
         /\ Forget(l, i).floor = l.floor /\ Forget(l, i).pending = l.pending
         /\ Len(Forget(l, i).seen) <= Len(l.seen)
         /\ Tracked(l, i) => Len(Forget(l, i).seen) = Len(l.seen) - 1
<1>0. l \in LedgerRec
  BY DEF Fine
<1>1. CASE ~Tracked(l, i)
  BY <1>0, <1>1, EntriesTyped DEF Forget, Tracked
<1>2. CASE Tracked(l, i)
  <2> DEFINE s == l.seen
             n == Place(l, i)
             t == RemoveAt(s, n)
             f == Forget(l, i)
  <2>1. s \in Seq(EntryRec) /\ Len(s) \in Nat /\ DOMAIN s = 1..Len(s)
    BY <1>0, EntriesTyped
  <2>2. n \in 1..Len(s) /\ s[n].id = i
    <3>1. \E p \in DOMAIN s : s[p].id = i
      BY <1>0, <1>2, EntriesTyped DEF Tracked
    <3>2. QED BY <2>1, <3>1 DEF Place
  <2>3. f = [l EXCEPT !.seen = t]
    BY <1>2 DEF Forget
  <2> HIDE DEF n, s, f
  <2>4. /\ SubSeq(s, 1, n-1) \in Seq(EntryRec) /\ Len(SubSeq(s, 1, n-1)) = n - 1
        /\ \A p \in 1..n-1 : SubSeq(s, 1, n-1)[p] = s[p]
    BY <2>1, <2>2, SubSeqProperties
  <2>5. /\ SubSeq(s, n+1, Len(s)) \in Seq(EntryRec) /\ Len(SubSeq(s, n+1, Len(s))) = Len(s) - n
        /\ \A p \in 1..Len(s)-n : SubSeq(s, n+1, Len(s))[p] = s[p + n]
    <3>1. CASE n = Len(s)
      BY <2>1, <2>2, <3>1
    <3>2. CASE n < Len(s)
      <4>1. n + 1 \in Int /\ Len(s) \in Int /\ n + 1 <= Len(s) /\ \A p \in n+1..Len(s) : s[p] \in EntryRec
        BY <2>1, <2>2, <3>2
      <4>2. /\ SubSeq(s, n+1, Len(s)) \in Seq(EntryRec)
            /\ Len(SubSeq(s, n+1, Len(s))) = Len(s) - (n + 1) + 1
            /\ \A p \in 1..Len(s)-(n+1)+1 : SubSeq(s, n+1, Len(s))[p] = s[n + 1 + p - 1]
        BY <4>1, SubSeqProperties
      <4>3. Len(s) - (n + 1) + 1 = Len(s) - n
        BY <2>1, <2>2
      <4>4. ASSUME NEW p \in 1..Len(s)-n PROVE n + 1 + p - 1 = p + n
        BY <2>1, <2>2
      <4>5. QED BY <4>2, <4>3, <4>4
    <3>3. n = Len(s) \/ n < Len(s)
      <4>1. Len(s) \in Nat /\ n \in 1..Len(s)
        BY <2>1, <2>2
      <4> HIDE DEF t
      <4>2. QED BY ONLY <4>1
    <3>4. QED BY <3>1, <3>2, <3>3
  <2>6. /\ t \in Seq(EntryRec) /\ Len(t) = Len(s) - 1 /\ DOMAIN t = 1..Len(s)-1
        /\ \A p \in 1..n-1 : t[p] = s[p]
        /\ \A p \in n..Len(s)-1 : t[p] = s[p+1]
    <3> DEFINE a == SubSeq(s, 1, n-1)
               b == SubSeq(s, n+1, Len(s))
    <3>1. t = a \o b
      BY DEF RemoveAt
    <3> HIDE DEF a, b, t
    <3>2. a \in Seq(EntryRec) /\ b \in Seq(EntryRec) /\ Len(a) = n - 1 /\ Len(b) = Len(s) - n
      BY <2>4, <2>5 DEF a, b
    <3>3. /\ t \in Seq(EntryRec) /\ Len(t) = Len(a) + Len(b)
          /\ \A p \in 1..Len(a)+Len(b) : t[p] = IF p <= Len(a) THEN a[p] ELSE b[p - Len(a)]
      BY <3>1, <3>2, ConcatProperties
    <3>4. Len(a) + Len(b) = Len(s) - 1
      BY <2>1, <2>2, <3>2
    <3>5. ASSUME NEW p \in 1..n-1 PROVE t[p] = s[p]
      <4>1. p \in 1..Len(a)+Len(b) /\ p <= Len(a)
        BY <2>1, <2>2, <3>2
      <4>2. a[p] = s[p]
        BY <2>4 DEF a
      <4>3. QED BY <3>3, <4>1, <4>2
    <3>6. ASSUME NEW p \in n..Len(s)-1 PROVE t[p] = s[p+1]
      <4>1. p \in 1..Len(a)+Len(b) /\ ~(p <= Len(a)) /\ p - Len(a) \in 1..Len(s)-n /\ p - Len(a) + n = p + 1
        BY <2>1, <2>2, <3>2
      <4>2. b[p - Len(a)] = s[p + 1]
        BY <2>5, <4>1 DEF b
      <4>3. QED BY <3>3, <4>1, <4>2
    <3>7. Len(t) = Len(s) - 1 /\ DOMAIN t = 1..Len(s)-1
      BY <3>3, <3>4
    <3>8. QED BY <3>3, <3>5, <3>6, <3>7
  <2> HIDE DEF t
  <2>7. l.seen = s /\ \A p, q \in 1..Len(s) : s[p].id = s[q].id => p = q
    BY <2>1 DEF Fine, s
  <2>8. f \in LedgerRec /\ f.seen = t /\ f.floor = l.floor /\ f.pending = l.pending
    BY <1>0, <2>3, <2>6 DEF LedgerRec
  <2>9. \A p, q \in 1..Len(s)-1 : t[p].id = t[q].id => p = q
    <3>1. ASSUME NEW p \in 1..Len(s)-1, NEW q \in 1..Len(s)-1, t[p].id = t[q].id PROVE p = q
      BY <2>1, <2>2, <2>6, <2>7, <3>1
    <3>2. QED BY <3>1
  <2>10. \A e : (\E p \in 1..Len(s)-1 : t[p] = e) <=> (\E p \in 1..Len(s) : s[p] = e) /\ e.id # i
    <3>1. ASSUME NEW p \in 1..Len(s)-1 PROVE \E q \in 1..Len(s) : s[q] = t[p] /\ s[q].id # i
      BY <2>1, <2>2, <2>6, <2>7
    <3>2. ASSUME NEW p \in 1..Len(s), s[p].id # i PROVE \E q \in 1..Len(s)-1 : t[q] = s[p]
      <4>1. CASE p < n
        BY <2>1, <2>2, <2>6, <4>1
      <4>2. CASE p > n
        <5>1. p - 1 \in n..Len(s)-1 /\ p - 1 + 1 = p
          BY <2>1, <2>2, <4>2
        <5>2. t[p-1] = s[p]
          BY <2>6, <5>1
        <5>3. QED BY <2>2, <5>1, <5>2
      <4>3. QED BY <2>1, <2>2, <3>2, <4>1, <4>2
    <3>3. QED BY <3>1, <3>2
  <2>11. Entries(f) = {e \in Entries(l) : e.id # i}
    <3>1. \A e : e \in Entries(f) <=> \E p \in 1..Len(s)-1 : t[p] = e
      BY <2>6, <2>8, EntriesTyped
    <3>2. \A e : e \in Entries(l) <=> \E p \in 1..Len(s) : s[p] = e
      BY <1>0, <2>1, <2>7, EntriesTyped
    <3>3. QED BY <2>10, <3>1, <3>2
  <2>12. Len(t) <= Len(s) /\ Fine(f)
    BY <2>1, <2>6, <2>8, <2>9 DEF Fine
  <2>13. QED BY <2>6, <2>7, <2>8, <2>11, <2>12 DEF f
<1>3. QED BY <1>1, <1>2

\* A new entry goes to the end.
LEMMA AppendFacts ==
  ASSUME NEW l, Fine(l), NEW e \in EntryRec, ~Tracked(l, e.id)
  PROVE  LET g == [l EXCEPT !.seen = Append(@, e)] IN
         /\ Fine(g) /\ Entries(g) = Entries(l) \cup {e}
         /\ g.floor = l.floor /\ g.pending = l.pending
         /\ Len(g.seen) = Len(l.seen) + 1
<1> DEFINE s == l.seen
           t == Append(s, e)
           g == [l EXCEPT !.seen = Append(@, e)]
<1>1. l \in LedgerRec /\ s \in Seq(EntryRec) /\ Len(s) \in Nat /\ DOMAIN s = 1..Len(s)
  BY EntriesTyped DEF Fine
<1>2. /\ t \in Seq(EntryRec) /\ Len(t) = Len(s) + 1 /\ DOMAIN t = 1..Len(s)+1
      /\ \A p \in 1..Len(s) : t[p] = s[p]
      /\ t[Len(s)+1] = e
  BY <1>1
<1> HIDE DEF t
<1>3. g \in LedgerRec /\ g.seen = t /\ g.floor = l.floor /\ g.pending = l.pending
  BY <1>1, <1>2 DEF LedgerRec, t
<1> HIDE DEF g
<1>4. \A p \in 1..Len(s) : s[p].id # e.id
  BY <1>1, EntriesTyped DEF Tracked
<1>5. \A p, q \in 1..Len(s)+1 : t[p].id = t[q].id => p = q
  <2>1. \A p, q \in 1..Len(s) : s[p].id = s[q].id => p = q
    BY <1>1 DEF Fine
  <2>2. \A p \in 1..Len(s)+1 : p \in 1..Len(s) \/ p = Len(s)+1
    BY <1>1
  <2>3. QED BY <1>2, <1>4, <2>1, <2>2
<1>6. Entries(g) = Entries(l) \cup {e}
  <2>1. \A x : x \in Entries(g) <=> \E p \in 1..Len(s)+1 : t[p] = x
    BY <1>2, <1>3, EntriesTyped
  <2>2. \A x : x \in Entries(l) <=> \E p \in 1..Len(s) : s[p] = x
    BY <1>1, EntriesTyped
  <2>3. \A p : p \in 1..Len(s)+1 <=> p \in 1..Len(s) \/ p = Len(s)+1
    BY <1>1
  <2>4. QED BY <1>2, <2>1, <2>2, <2>3
<1>7. Fine(g)
  BY <1>2, <1>3, <1>5 DEF Fine
<1>8. QED BY <1>2, <1>3, <1>6, <1>7 DEF g

\* An entry is found by its id.
LEMMA EntryFound ==
  ASSUME NEW l, Fine(l), NEW i, Tracked(l, i)
  PROVE  /\ EntryOf(l, i) \in Entries(l) /\ EntryOf(l, i).id = i
         /\ \A e \in Entries(l) : e.id = i => e = EntryOf(l, i)
<1>1. EntryOf(l, i) \in Entries(l) /\ EntryOf(l, i).id = i
  BY DEF Tracked, EntryOf
<1>2. \A e, f \in Entries(l) : e.id = f.id => e = f
  BY EntriesTyped DEF Fine
<1>3. QED BY <1>1, <1>2

\* A repetition changes the order alone.
LEMMA TouchFacts ==
  ASSUME NEW l, Fine(l), NEW i, Tracked(l, i)
  PROVE  /\ Fine(Touch(l, i)) /\ Entries(Touch(l, i)) = Entries(l)
         /\ Touch(l, i).floor = l.floor /\ Touch(l, i).pending = l.pending
         /\ Len(Touch(l, i).seen) = Len(l.seen)
<1> DEFINE f == Forget(l, i)
           e == EntryOf(l, i)
<1>1. /\ Fine(f) /\ Entries(f) = {x \in Entries(l) : x.id # i}
      /\ f.floor = l.floor /\ f.pending = l.pending
      /\ Len(f.seen) = Len(l.seen) - 1
  BY ForgetFacts
<1>2. e \in Entries(l) /\ e.id = i /\ \A x \in Entries(l) : x.id = i => x = e
  BY EntryFound
<1>3. e \in EntryRec /\ Len(l.seen) \in Nat
  BY <1>2, EntriesTyped DEF Fine
<1>4. Touch(l, i) = [f EXCEPT !.seen = Append(@, e)]
  BY DEF Touch
<1> HIDE DEF f, e
<1>5. ~Tracked(f, e.id)
  BY <1>1, <1>2 DEF Tracked
<1>6. /\ Fine(Touch(l, i)) /\ Entries(Touch(l, i)) = Entries(f) \cup {e}
      /\ Touch(l, i).floor = f.floor /\ Touch(l, i).pending = f.pending
      /\ Len(Touch(l, i).seen) = Len(f.seen) + 1
  BY <1>1, <1>3, <1>4, <1>5, AppendFacts
<1>7. Entries(f) \cup {e} = Entries(l)
  BY <1>1, <1>2
<1>8. QED BY <1>1, <1>3, <1>6, <1>7

\* The newest timestamp is above what is remembered and above the floor.
LEMMA NewestFacts ==
  ASSUME NEW l, Fine(l), NEW k \in Kinds,
         NEW b \in Nat, \A e \in Entries(l) : e.id <= b
  PROVE  /\ Newest(l, k) \in Nat /\ l.floor[k] <= Newest(l, k)
         /\ \A e \in Entries(l) : e.kind = k => e.id <= Newest(l, k)
<1> DEFINE S == {e.id : e \in {x \in Entries(l) : x.kind = k}} \cup {l.floor[k]}
<1>1. l.floor[k] \in Nat
  BY DEF Fine, LedgerRec
<1>2. \A e \in Entries(l) : e.id \in Nat
  BY EntriesTyped, ConnAssumption DEF Fine, EntryRec
<1>3. S \in SUBSET Nat /\ S # {}
  BY <1>1, <1>2
<1>4. PICK n \in Nat : \A x \in S : x <= n
  <2>1. CASE b <= l.floor[k]
    <3>1. \A x \in S : x <= l.floor[k]
      BY <1>1, <1>2, <2>1
    <3>2. QED BY <1>1, <3>1
  <2>2. CASE l.floor[k] < b
    <3>1. \A x \in S : x <= b
      BY <1>1, <1>2, <2>2
    <3>2. QED BY <3>1
  <2>3. QED BY <1>1, <2>1, <2>2
<1>5. Max(S) \in S /\ \A x \in S : x <= Max(S)
  BY <1>3, <1>4, MaxExists
<1>6. Newest(l, k) = Max(S)
  BY DEF Newest
<1>7. QED BY <1>3, <1>5, <1>6

\* One eviction: an accepted entry that nobody waits for, with its timestamp
\* left as a floor.
LEMMA EvictFacts ==
  ASSUME NEW l, Fine(l), Forgettable(l) # {}
  PROVE  LET f == ForgetOldest(l) IN
         /\ Fine(f) /\ Len(f.seen) = Len(l.seen) - 1 /\ f.pending = l.pending
         /\ \A k \in Kinds : l.floor[k] <= f.floor[k]
         /\ \E d \in Entries(l) :
               /\ d.accepted /\ d.id # l.pending
               /\ Entries(f) = {e \in Entries(l) : e.id # d.id}
               /\ d.id <= f.floor[d.kind]
<1>0. /\ l \in LedgerRec /\ DOMAIN l.seen = 1..Len(l.seen) /\ l.floor \in [Kinds -> Nat]
      /\ Entries(l) \subseteq EntryRec
  BY EntriesTyped DEF Fine, LedgerRec
<1> DEFINE p == Min(Forgettable(l))
           d == l.seen[p]
           g == Forget(l, d.id)
           f == ForgetOldest(l)
           m == Max({g.floor[d.kind], d.id})
<1>1. p \in Forgettable(l)
  <2>1. Forgettable(l) \in SUBSET Nat
    BY <1>0 DEF Forgettable
  <2>2. QED BY <2>1, MinExists
<1>2. d \in Entries(l) /\ d.accepted /\ d.id # l.pending
  BY <1>0, <1>1, EntriesTyped DEF Forgettable
<1>3. d.id \in Nat /\ d.kind \in Kinds
  BY <1>0, <1>2, ConnAssumption DEF EntryRec
<1>4. /\ Fine(g) /\ Entries(g) = {e \in Entries(l) : e.id # d.id}
      /\ g.floor = l.floor /\ g.pending = l.pending /\ Len(g.seen) = Len(l.seen) - 1
  BY <1>2, ForgetFacts DEF Tracked
<1>5. f = [g EXCEPT !.floor[d.kind] = Max({@, d.id})]
  BY DEF ForgetOldest
<1> HIDE DEF p, d, g, f
<1>6. m \in Nat /\ l.floor[d.kind] <= m /\ d.id <= m
  <2> DEFINE T == {l.floor[d.kind], d.id}
  <2>1. T \in SUBSET Nat /\ T # {} /\ l.floor[d.kind] + d.id \in Nat
        /\ \A x \in T : x <= l.floor[d.kind] + d.id
    BY <1>0, <1>3
  <2>2. Max(T) \in T /\ \A x \in T : x <= Max(T)
    BY <2>1, MaxExists
  <2>3. m = Max(T)
    BY <1>4
  <2>4. QED BY <2>1, <2>2, <2>3
<1>7. f = [g EXCEPT !.floor = [g.floor EXCEPT ![d.kind] = m]]
  BY <1>5
<1> HIDE DEF m
<1>8. [g.floor EXCEPT ![d.kind] = m] \in [Kinds -> Nat]
  BY <1>0, <1>3, <1>4, <1>6
<1>9. /\ f \in LedgerRec /\ f.seen = g.seen /\ f.pending = g.pending
      /\ f.floor = [g.floor EXCEPT ![d.kind] = m]
  BY <1>4, <1>7, <1>8 DEF Fine, LedgerRec
<1>10. Fine(f) /\ Entries(f) = Entries(g)
  BY <1>4, <1>9 DEF Fine, Entries
<1>11. \A k \in Kinds : l.floor[k] <= f.floor[k]
  BY <1>0, <1>3, <1>4, <1>6, <1>9
<1>12. d.id <= f.floor[d.kind]
  BY <1>0, <1>3, <1>4, <1>6, <1>9
<1>13. QED BY <1>2, <1>4, <1>9, <1>10, <1>11, <1>12 DEF f

\* At most one entry of l is left out of r.
OneDropped(l, r) == \E d : \A x \in Entries(l) : x \in Entries(r) \/ x.id = d

\* A reservation adds the input's entry, and evicts at most one that was
\* accepted, of a full ledger.
LEMMA ReserveFacts ==
  ASSUME NEW l, Fine(l), Len(l.seen) <= Capacity,
         NEW i \in Inputs, NEW k \in Kinds, NEW c \in Conns,
         NEW b \in Nat, \A x \in Entries(l) : x.id <= b,
         ~OutOfOrder(l, i, k), Reserve(l, i, k, c) # None
  PROVE  LET r == Reserve(l, i, k, c) IN
         /\ Fine(r) /\ Len(r.seen) <= Capacity
         /\ r.pending = IF k = "audio" THEN i ELSE l.pending
         /\ k = "audio" => l.pending = None
         /\ ~Tracked(l, i) /\ Entry(i, k, c) \in Entries(r)
         /\ \A x \in Entries(r) : x \in Entries(l) \/ x = Entry(i, k, c)
         /\ \A x \in Entries(l) :
              \/ x \in Entries(r)
              \/ /\ x.accepted /\ x.id # l.pending /\ x.id <= r.floor[x.kind]
                 /\ Len(l.seen) = Capacity
         /\ OneDropped(l, r)
         /\ \A j \in Kinds : l.floor[j] <= r.floor[j]
         /\ l.floor[k] <= i /\ \A x \in Entries(l) : x.kind = k => x.id <= i
<1> DEFINE e == Entry(i, k, c)
           g == [l EXCEPT !.seen = Append(@, e)]
           n == Remember(l, e)
           r == Reserve(l, i, k, c)
<1>0. /\ l \in LedgerRec /\ Len(l.seen) \in Nat /\ l.floor \in [Kinds -> Nat]
      /\ Entries(l) \subseteq EntryRec /\ Capacity \in Nat /\ i \in Nat
  BY EntriesTyped, BoundAssumption, ConnAssumption DEF Fine, LedgerRec
<1>1. ~Tracked(l, i) /\ (k = "audio" => l.pending = None) /\ ~(i < Newest(l, k))
  BY DEF OutOfOrder
<1>2. e \in EntryRec /\ e.id = i /\ e.accepted = FALSE
  BY DEF Entry, EntryRec
<1>3. /\ Fine(g) /\ Entries(g) = Entries(l) \cup {e}
      /\ g.floor = l.floor /\ g.pending = l.pending
      /\ Len(g.seen) = Len(l.seen) + 1
  <2>1. ~Tracked(l, e.id)
    BY <1>1, <1>2
  <2>2. QED BY <1>2, <2>1, AppendFacts
<1>4. n # None
  BY DEF Reserve
<1>5. n = IF ~Full(g) THEN g ELSE ForgetOldest(g)
  BY <1>4 DEF Remember
<1>6. Full(g) => Forgettable(g) # {}
  BY <1>4 DEF Remember
<1>7. Full(g) <=> Len(g.seen) > Capacity
  BY DEF Full
<1> HIDE DEF e, g, n
<1>8. /\ Fine(n) /\ Len(n.seen) <= Capacity /\ n.pending = l.pending
      /\ e \in Entries(n) /\ \A x \in Entries(n) : x \in Entries(l) \/ x = e
      /\ \A x \in Entries(l) :
           \/ x \in Entries(n)
           \/ /\ x.accepted /\ x.id # l.pending /\ x.id <= n.floor[x.kind]
              /\ Len(l.seen) = Capacity
      /\ OneDropped(l, n)
      /\ \A j \in Kinds : l.floor[j] <= n.floor[j]
  <2>1. CASE ~Full(g)
    <3>1. n = g
      BY <1>5, <2>1
    <3>2. Len(g.seen) <= Capacity
      BY <1>0, <1>3, <1>7, <2>1
    <3>3. \A j \in Kinds : l.floor[j] <= l.floor[j]
      BY <1>0
    <3>4. OneDropped(l, n)
      BY <1>3, <3>1 DEF OneDropped
    <3>5. QED BY <1>3, <3>1, <3>2, <3>3, <3>4
  <2>2. CASE Full(g)
    <3> DEFINE f == ForgetOldest(g)
    <3>1. /\ Fine(f) /\ Len(f.seen) = Len(g.seen) - 1 /\ f.pending = g.pending
          /\ \A j \in Kinds : g.floor[j] <= f.floor[j]
      BY <1>3, <1>6, <2>2, EvictFacts
    <3>2. PICK d \in Entries(g) :
             /\ d.accepted /\ d.id # g.pending
             /\ Entries(f) = {x \in Entries(g) : x.id # d.id}
             /\ d.id <= f.floor[d.kind]
      BY <1>3, <1>6, <2>2, EvictFacts
    <3>3. n = f
      BY <1>5, <2>2
    <3> HIDE DEF f
    <3>4. d # e /\ d \in Entries(l)
      BY <1>2, <1>3, <3>2
    <3>5. e.id # d.id
      BY <1>1, <1>2, <3>4 DEF Tracked
    <3>6. Len(l.seen) = Capacity /\ Len(f.seen) <= Capacity
      BY <1>0, <1>3, <1>7, <2>2, <3>1
    <3>7. \A x \in Entries(l) : x.id = d.id => x = d
      BY <1>3, <3>4, EntriesTyped DEF Fine
    <3>8. OneDropped(l, n)
      BY <1>3, <3>2, <3>3 DEF OneDropped
    <3>9. QED BY <1>3, <3>1, <3>2, <3>3, <3>4, <3>5, <3>6, <3>7, <3>8
  <2>3. QED BY <2>1, <2>2
<1>9. l.floor[k] <= i /\ \A x \in Entries(l) : x.kind = k => x.id <= i
  <2>1. Newest(l, k) \in Nat /\ l.floor[k] <= Newest(l, k)
        /\ \A x \in Entries(l) : x.kind = k => x.id <= Newest(l, k)
    BY NewestFacts
  <2>2. Newest(l, k) <= i
    BY <1>0, <1>1, <2>1
  <2>3. \A x \in Entries(l) : x.id \in Nat
    BY <1>0, ConnAssumption DEF EntryRec
  <2>4. QED BY <1>0, <2>1, <2>2, <2>3
<1>10. CASE k # "audio"
  <2>1. r = n
    BY <1>10 DEF Reserve, n, e
  <2>2. Fine(r) /\ Len(r.seen) <= Capacity /\ r.pending = l.pending
    BY <1>8, <2>1
  <2>3. QED BY <1>1, <1>8, <1>10, <1>9, <2>1, <2>2 DEF e
<1>11. CASE k = "audio"
  <2>1. r = [n EXCEPT !.pending = i]
    BY <1>4, <1>11 DEF Reserve, n, e
  <2>2. r \in LedgerRec /\ r.seen = n.seen /\ r.floor = n.floor /\ r.pending = i
    BY <1>8, <2>1 DEF Fine, LedgerRec
  <2>3. Fine(r) /\ Entries(r) = Entries(n)
    BY <1>8, <2>2 DEF Fine, Entries
  <2> HIDE DEF r
  <2>6. /\ Fine(r) /\ Len(r.seen) <= Capacity /\ r.pending = i
        /\ e \in Entries(r) /\ \A x \in Entries(r) : x \in Entries(l) \/ x = e
        /\ \A x \in Entries(l) :
             \/ x \in Entries(r)
             \/ /\ x.accepted /\ x.id # l.pending /\ x.id <= r.floor[x.kind]
                /\ Len(l.seen) = Capacity
        /\ OneDropped(l, r)
        /\ \A j \in Kinds : l.floor[j] <= r.floor[j]
    BY <1>8, <2>2, <2>3 DEF OneDropped
  <2>7. QED BY <1>1, <1>11, <1>9, <2>6 DEF r, e
<1>12. QED BY <1>10, <1>11

\* An accepted entry is the same entry with more receipts (_settle).
LEMMA AcceptedFacts ==
  ASSUME NEW e \in EntryRec, NEW stages \in SUBSET Stages
  PROVE  LET x == Accepted(e, stages) IN
         /\ x \in EntryRec /\ x.id = e.id /\ x.kind = e.kind /\ x.conn = e.conn
         /\ x.receipts = e.receipts \cup stages
<1>1. PICK R \in SUBSET Stages : R = e.receipts \cup stages
  BY DEF EntryRec
<1>2. Accepted(e, stages) = [e EXCEPT !.accepted = TRUE, !.receipts = R]
  BY <1>1 DEF Accepted
<1>3. [e EXCEPT !.accepted = TRUE, !.receipts = R] \in EntryRec
  BY DEF EntryRec
<1>4. QED BY <1>1, <1>2, <1>3 DEF EntryRec

\* A receipt is added to one entry.
LEMMA AcceptFacts ==
  ASSUME NEW l, Fine(l), NEW i, NEW stages \in SUBSET Stages
  PROVE  LET a == Accept(l, i, stages) IN
         /\ Fine(a) /\ Len(a.seen) = Len(l.seen) /\ a.floor = l.floor /\ a.pending = l.pending
         /\ \A x \in Entries(a) : x.id # i => x \in Entries(l)
         /\ \A x \in Entries(l) : x.id # i => x \in Entries(a)
         /\ \A x \in Entries(a) : x.id = i =>
              \E o \in Entries(l) : /\ o.id = i /\ x.kind = o.kind /\ x.conn = o.conn
                                    /\ x.receipts = o.receipts \cup stages
         /\ \A o \in Entries(l) : o.id = i =>
              \E x \in Entries(a) : x.id = i /\ x.kind = o.kind /\ x.conn = o.conn
<1> DEFINE s == l.seen
           t == [p \in DOMAIN s |-> IF s[p].id = i THEN Accepted(s[p], stages) ELSE s[p]]
           a == Accept(l, i, stages)
<1>1. /\ l \in LedgerRec /\ s \in Seq(EntryRec) /\ Len(s) \in Nat /\ DOMAIN s = 1..Len(s)
      /\ \A p \in 1..Len(s) : s[p] \in EntryRec
  BY EntriesTyped DEF Fine
<1>2. ASSUME NEW p \in 1..Len(s), s[p].id = i
      PROVE  /\ t[p] \in EntryRec /\ t[p].id = i
             /\ t[p].kind = s[p].kind /\ t[p].conn = s[p].conn
             /\ t[p].receipts = s[p].receipts \cup stages
  <2>1. t[p] = Accepted(s[p], stages)
    BY <1>1, <1>2
  <2>2. QED BY <1>1, <1>2, <2>1, AcceptedFacts
<1>3. \A p \in 1..Len(s) : s[p].id # i => t[p] = s[p]
  BY <1>1
<1>4. a = [l EXCEPT !.seen = t]
  BY DEF Accept
<1>5. DOMAIN t = 1..Len(s)
  BY <1>1
<1> HIDE DEF t, a
<1>6. \A p \in 1..Len(s) : t[p] \in EntryRec /\ t[p].id = s[p].id
  BY <1>1, <1>2, <1>3
<1>7. t \in Seq(EntryRec) /\ Len(t) = Len(s)
  <2>1. t \in [1..Len(s) -> EntryRec]
    <3>1. t = [p \in 1..Len(s) |-> t[p]]
      BY <1>1 DEF t
    <3>2. QED BY <1>6, <3>1
  <2>2. QED BY <1>1, <2>1
<1>8. a \in LedgerRec /\ a.seen = t /\ a.floor = l.floor /\ a.pending = l.pending
  BY <1>1, <1>4, <1>7 DEF LedgerRec
<1>9. Fine(a)
  BY <1>1, <1>5, <1>6, <1>8 DEF Fine
<1>10. \A x : x \in Entries(a) <=> \E p \in 1..Len(s) : t[p] = x
  BY <1>7, <1>8, EntriesTyped
<1>11. \A x : x \in Entries(l) <=> \E p \in 1..Len(s) : s[p] = x
  BY <1>1, EntriesTyped
<1>12. QED BY <1>2, <1>3, <1>6, <1>7, <1>8, <1>9, <1>10, <1>11 DEF a

\* Releasing an input frees the audio source and touches no entry.
LEMMA ReleaseFacts ==
  ASSUME NEW l, Fine(l), NEW i
  PROVE  LET r == Release(l, i) IN
         /\ Fine(r) /\ r.seen = l.seen /\ Entries(r) = Entries(l) /\ r.floor = l.floor
         /\ r.pending = IF l.pending = i THEN None ELSE l.pending
<1>1. l \in LedgerRec
  BY DEF Fine
<1> DEFINE r == Release(l, i)
<1>2. /\ r \in LedgerRec /\ r.seen = l.seen /\ r.floor = l.floor
      /\ r.pending = IF l.pending = i THEN None ELSE l.pending
  BY <1>1 DEF Release, LedgerRec
<1> HIDE DEF r
<1>3. Fine(r) /\ Entries(r) = Entries(l)
  BY <1>2 DEF Fine, Entries
<1>4. QED BY <1>2, <1>3 DEF r

\* The end of a connection forgets at most the audio that waits for its commit.
LEMMA ClearFacts ==
  ASSUME NEW l, Fine(l), NEW c
  PROVE  LET r == ClearConnection(l, c) IN
         /\ Fine(r) /\ r.floor = l.floor /\ Len(r.seen) <= Len(l.seen)
         /\ \/ r = l /\ ~(l.pending # None /\ SentOver(l, l.pending, c))
            \/ /\ l.pending # None /\ SentOver(l, l.pending, c)
               /\ r.pending = None /\ Entries(r) = {e \in Entries(l) : e.id # l.pending}
<1>1. l \in LedgerRec /\ Len(l.seen) \in Nat
  BY EntriesTyped DEF Fine
<1>2. CASE ~(l.pending # None /\ SentOver(l, l.pending, c))
  <2>1. ClearConnection(l, c) = l
    BY <1>2 DEF ClearConnection
  <2>2. QED BY <1>1, <1>2, <2>1
<1>3. CASE l.pending # None /\ SentOver(l, l.pending, c)
  <2> DEFINE f == Forget(l, l.pending)
             r == ClearConnection(l, c)
  <2>1. r = [f EXCEPT !.pending = None]
    BY <1>3 DEF ClearConnection
  <2>2. /\ Fine(f) /\ Entries(f) = {e \in Entries(l) : e.id # l.pending}
        /\ f.floor = l.floor /\ Len(f.seen) <= Len(l.seen)
    BY ForgetFacts
  <2> HIDE DEF f, r
  <2>3. r \in LedgerRec /\ r.seen = f.seen /\ r.floor = f.floor /\ r.pending = None
    BY <2>1, <2>2 DEF Fine, LedgerRec
  <2>4. Fine(r) /\ Entries(r) = Entries(f)
    BY <2>2, <2>3 DEF Fine, Entries
  <2>5. QED BY <1>3, <2>2, <2>3, <2>4 DEF r
<1>4. QED BY <1>2, <1>3

-----------------------------------------------------------------------------
(* Connections.                                                            *)

\* What a connection is made of.
LEMMA ConnTyped ==
  ASSUME conn \in [Conns -> ConnRec], NEW c \in Conns
  PROVE  /\ conn[c] \in ConnRec
         /\ conn[c].state \in {"none", "hello", "subscribed", "open", "closing", "gone"}
         /\ conn[c].inbox \in Seq(MessageRec) /\ conn[c].outbox \in Seq(AnswerRec)
         /\ conn[c].job \in JobRec /\ conn[c].queue \in Seq(0..MaxStatus)
         /\ conn[c].sent \in 0..MaxStatus
BY DEF ConnRec

\* A connection before its websocket, and a handler with nothing to do.
LEMMA NoConnTyped ==
  /\ NoConn \in ConnRec /\ NoJob \in JobRec
  /\ NoConn.inbox = <<>> /\ NoConn.outbox = <<>> /\ NoConn.job = NoJob /\ NoConn.queue = <<>>
  /\ NoConn.state = "none" /\ NoJob.at = "idle" /\ NoJob.input = 0
<1>1. NoJob \in JobRec
  BY DEF NoJob, JobRec
<1>2. NoConn \in ConnRec
  BY <1>1, BoundAssumption DEF NoConn, ConnRec
<1>3. QED BY <1>1, <1>2 DEF NoConn, NoJob

\* What acknowledging or rejecting a message sends back.
LEMMA AnswerTyped ==
  ASSUME NEW m \in MessageRec
  PROVE  /\ Ack(m) \in AnswerRec /\ Rejected(m) \in AnswerRec
         /\ Ack(m).type = "ack" /\ Ack(m).input = m.input /\ Ack(m).stage = m.stage
         /\ Rejected(m).type = "rejected"
BY DEF Ack, Rejected, AnswerRec, MessageRec

\* A handler's next stage leaves the rest of its connection alone.
LEMMA TurnFacts ==
  ASSUME conn \in [Conns -> ConnRec], NEW c \in Conns, NEW job \in JobRec, Turn(c, job)
  PROVE  /\ conn' \in [Conns -> ConnRec]
         /\ \A d \in Conns : d # c => conn'[d] = conn[d]
         /\ conn'[c].job = job /\ conn'[c].inbox = conn[c].inbox /\ conn'[c].outbox = conn[c].outbox
         /\ conn'[c].state = conn[c].state /\ conn'[c].queue = conn[c].queue
BY ConnTyped DEF Turn, ConnRec

\* A sequence stays one of its set when a member is appended.
LEMMA AppendTyped ==
  ASSUME NEW S, NEW s \in Seq(S), NEW x \in S PROVE Append(s, x) \in Seq(S)
OBVIOUS

\* Posting a message appends it to one inbox.
LEMMA PostFacts ==
  ASSUME conn \in [Conns -> ConnRec], NEW c \in Conns, NEW m \in MessageRec, Post(c, m)
  PROVE  /\ conn' \in [Conns -> ConnRec]
         /\ \A d \in Conns : d # c => conn'[d] = conn[d]
         /\ conn'[c].inbox = Append(conn[c].inbox, m) /\ conn'[c].outbox = conn[c].outbox
         /\ conn'[c].job = conn[c].job
         /\ conn'[c].state = conn[c].state /\ conn'[c].queue = conn[c].queue
<1>1. PICK q \in Seq(MessageRec) : q = Append(conn[c].inbox, m)
  BY ConnTyped, AppendTyped
<1>2. conn' = [conn EXCEPT ![c].inbox = q]
  BY <1>1 DEF Post
<1>3. QED BY <1>1, <1>2, ConnTyped DEF ConnRec

\* A handler that answers is done, and at most one answer is on its way.
LEMMA AnswerFacts ==
  ASSUME conn \in [Conns -> ConnRec], NEW c \in Conns, NEW m \in AnswerRec, Answer(c, m)
  PROVE  /\ conn' \in [Conns -> ConnRec]
         /\ \A d \in Conns : d # c => conn'[d] = conn[d]
         /\ conn'[c].job = NoJob /\ conn'[c].inbox = conn[c].inbox
         /\ conn'[c].outbox \in {conn[c].outbox, Append(conn[c].outbox, m)}
         /\ conn'[c].state = conn[c].state /\ conn'[c].queue = conn[c].queue
<1>1. PICK q \in Seq(AnswerRec) :
         /\ q = IF conn[c].state = "open" THEN Append(conn[c].outbox, m) ELSE conn[c].outbox
         /\ q \in {conn[c].outbox, Append(conn[c].outbox, m)}
  BY ConnTyped, AppendTyped
<1>2. PICK j \in JobRec : j = NoJob
  BY NoConnTyped
<1>3. conn' = [conn EXCEPT ![c].job = j, ![c].outbox = q]
  BY <1>1, <1>2 DEF Answer
<1>4. QED BY <1>1, <1>2, <1>3, ConnTyped DEF ConnRec

\* A message that is at hand leaves the inbox.
LEMMA AtHandFacts ==
  ASSUME conn \in [Conns -> ConnRec], NEW c \in Conns, AtHand(c)
  PROVE  /\ Incoming(c) \in MessageRec /\ Incoming(c) = conn[c].inbox[1]
         /\ 1 \in DOMAIN conn[c].inbox
         /\ Tail(conn[c].inbox) \in Seq(MessageRec)
         /\ \A p \in DOMAIN Tail(conn[c].inbox) :
              p + 1 \in DOMAIN conn[c].inbox /\ Tail(conn[c].inbox)[p] = conn[c].inbox[p+1]
         /\ conn[c].job = NoJob /\ conn[c].state \in {"open", "closing"}
BY ConnTyped DEF AtHand, Incoming

\* A message answered at once leaves the inbox; no handler begins.
LEMMA AnswerNowFacts ==
  ASSUME conn \in [Conns -> ConnRec], NEW c \in Conns, AtHand(c),
         NEW m \in AnswerRec, AnswerNow(c, m)
  PROVE  /\ conn' \in [Conns -> ConnRec]
         /\ \A d \in Conns : d # c => conn'[d] = conn[d]
         /\ conn'[c].job = conn[c].job /\ conn'[c].inbox = Tail(conn[c].inbox)
         /\ conn'[c].outbox \in {conn[c].outbox, Append(conn[c].outbox, m)}
         /\ conn'[c].state = conn[c].state /\ conn'[c].queue = conn[c].queue
<1>1. PICK q \in Seq(AnswerRec) :
         /\ q = IF conn[c].state = "open" THEN Append(conn[c].outbox, m) ELSE conn[c].outbox
         /\ q \in {conn[c].outbox, Append(conn[c].outbox, m)}
  BY ConnTyped, AppendTyped
<1>2. PICK t \in Seq(MessageRec) : t = Tail(conn[c].inbox)
  BY AtHandFacts
<1>3. conn' = [conn EXCEPT ![c].inbox = t, ![c].outbox = q]
  BY <1>1, <1>2 DEF AnswerNow
<1>4. QED BY <1>1, <1>2, <1>3, ConnTyped DEF ConnRec

\* A message taken up leaves the inbox for the handler.
LEMMA TakeUpFacts ==
  ASSUME conn \in [Conns -> ConnRec], NEW c \in Conns, AtHand(c),
         NEW at \in {"line", "observe", "push", "commit"}, TakeUp(c, at)
  PROVE  /\ conn' \in [Conns -> ConnRec]
         /\ \A d \in Conns : d # c => conn'[d] = conn[d]
         /\ conn'[c].job = [input |-> Incoming(c).input, at |-> at]
         /\ conn'[c].inbox = Tail(conn[c].inbox) /\ conn'[c].outbox = conn[c].outbox
         /\ conn'[c].state = conn[c].state /\ conn'[c].queue = conn[c].queue
<1>1. PICK t \in Seq(MessageRec) : t = Tail(conn[c].inbox)
  BY AtHandFacts
<1>2. PICK j \in JobRec : j = [input |-> Incoming(c).input, at |-> at]
  BY AtHandFacts DEF MessageRec, JobRec
<1>3. conn' = [conn EXCEPT ![c].inbox = t, ![c].job = j]
  BY <1>1, <1>2 DEF TakeUp
<1>4. QED BY <1>1, <1>2, <1>3, ConnTyped DEF ConnRec

-----------------------------------------------------------------------------
(* The invariant.                                                          *)

Live == session \in {"running", "stopping"}

\* Whether what was taken may still be asked for again.
Counting == session \in {"running", "stopping", "down"}

InboxHas(i) == \E c \in Conns : \E p \in DOMAIN conn[c].inbox : conn[c].inbox[p].input = i

\* An input's own message, not the commit of one already received.
MainAt(c, p, i) ==
    p \in DOMAIN conn[c].inbox /\ conn[c].inbox[p].input = i /\ ~CommitOnly(conn[c].inbox[p])

Serving(i) == \E c \in Conns : ~Job(c, "idle") /\ Input(c) = i

Unsurpassed(i) == \A j \in Inputs : Kind(j) = Kind(i) /\ j > i => taken[j] = 0

\* What may be taken: for the first time, or again after a full ledger has
\* dropped it.
FirstTime(i) == Topic # "network" => taken[i] = 0
Anew(i) == taken[i] = 0 \/ (Topic = "network" /\ i <= ledger.floor[Kind(i)])

\* All that is still to come is younger.
Behind(j) == \A i \in Inputs : told[i] \in {"unsent", "waiting"} \/ InboxHas(i) => i > j

TopicInv ==
    /\ Topic # "process" => session = "running"
    /\ session = "down" => /\ \A i \in Inputs : told[i] # "waiting"
                           /\ \A c \in Conns : conn[c].state \in {"none", "gone"}

ConnInv ==
    /\ link = None => ~ready
    /\ \A c \in Conns :
         /\ conn[c].state \in {"none", "gone"} => conn[c].inbox = <<>>
         /\ ~Job(c, "idle") => conn[c].state \in {"open", "closing"} /\ Input(c) \in Inputs
         /\ Job(c, "idle") => conn[c].job = NoJob
         /\ link = c => conn[c].state \in {"hello", "subscribed", "open"}

\* Inputs are sent in their order, and nothing is known of one not yet sent.
SentInv ==
    \A i \in Inputs :
      /\ tries[i] = 0 <=> told[i] = "unsent"
      /\ told[i] = "unsent" =>
           i \notin half /\ ~InboxHas(i) /\ ~Serving(i) /\ ~Tracked(ledger, i) /\ taken[i] = 0
      /\ tries[i] > 0 => i <= scenario.count
      /\ \A j \in Inputs : j < i /\ told[j] = "unsent" => told[i] = "unsent"
      /\ tries[i] = 2 => Topic = "network" /\ Kind(i) # "text" /\ ~TwoPhase(i)

\* What is sent once reaches the server as a stranger.
OnceInv ==
    \A i \in Inputs, c \in Conns, p \in Nat :
      tries[i] <= 1 /\ MainAt(c, p, i) =>
        /\ taken[i] = 0 /\ ~Tracked(ledger, i) /\ ~Serving(i)
        /\ \A d \in Conns, q \in Nat : MainAt(d, q, i) => d = c /\ q = p

\* What was taken keeps older inputs out.
CoveredInv ==
    Counting => \A j \in Inputs : taken[j] > 0 =>
        Tracked(ledger, j) \/ j <= ledger.floor[Kind(j)] \/ Behind(j)

\* Receipts are true; a reserved audio source is waited for.
LedgerInv ==
    /\ Fine(ledger)
    /\ \A e \in Entries(ledger) :
         /\ e.kind = Kind(e.id)
         /\ \A r \in e.receipts : e.kind # "audio" \/ r = "committed" => taken[e.id] > 0
    /\ ledger.pending # None =>
         /\ Kind(ledger.pending) = "audio" /\ Anew(ledger.pending)
         /\ Unsurpassed(ledger.pending)
    /\ ~Live => ledger.seen = <<>> /\ ledger.pending = None

\* The entry of what a handler serves is its own and stays.
Kept(c) ==
    /\ \E e \in Entries(ledger) :
         e.id = Input(c) /\ e.conn = c /\ (Kind(Input(c)) # "audio" => ~e.accepted)
    /\ Kind(Input(c)) = "audio" => ledger.pending = Input(c)

JobOK(c) ==
    ~Job(c, "idle") =>
      /\ Job(c, "line") => Kind(Input(c)) = "text" /\ (taken[Input(c)] = 0 => Unsurpassed(Input(c)))
      /\ Job(c, "observe") => Kind(Input(c)) # "audio" /\ taken[Input(c)] > 0
      /\ Job(c, "push") \/ Job(c, "commit") =>
           Kind(Input(c)) = "audio" /\ FirstTime(Input(c)) /\ Unsurpassed(Input(c))
      /\ Live => Kept(c)
      /\ \A d \in Conns : d # c /\ ~Job(d, "idle") =>
           Input(d) # Input(c) /\ (Kind(Input(c)) = "audio" => Kind(Input(d)) # "audio")

JobInv == \A c \in Conns : JobOK(c)

\* Who stands in line for the room, and with what.
LineInv ==
    /\ \A p \in DOMAIN line :
         \/ line[p].writer = Viewer /\ line[p].event = Viewer
         \/ /\ line[p].writer \in Conns /\ line[p].event \in Inputs
            /\ conn[line[p].writer].job = [input |-> line[p].event, at |-> "line"]
            /\ line[p].written <=> taken[line[p].event] > 0
    /\ \A c \in Conns : Job(c, "line") => InLine(c)
    /\ \A p, q \in DOMAIN line : p < q =>
         /\ line[p].writer # line[q].writer
         /\ line[p].event # Viewer /\ line[q].event # Viewer => line[p].event < line[q].event
    /\ ~active => line = <<>>

RoomInv ==
    /\ \A p \in DOMAIN rows : rows[p].sequence = p
    /\ line # <<>> /\ line[1].written => rows # <<>> /\ rows[Len(rows)].event = line[1].event
    /\ active <=> session \in {"running", "stopping", "closing"}
    /\ RoomMatchesLog

Accounted(i) == i \in batch.delta \cup batch.tick \cup lost \/ heard[i] > 0

\* An acknowledgement is true.
AckOK(m) ==
    m.type = "ack" =>
      /\ Kind(m.input) # "audio" \/ m.stage = "committed" => taken[m.input] > 0
      /\ Topic = "batch" /\ Kind(m.input) = "text" => Accounted(m.input)

AckInv ==
    /\ \A c \in Conns : \A p \in DOMAIN conn[c].outbox : AckOK(conn[c].outbox[p])
    /\ \A i \in Inputs : told[i] = "acked" /\ Topic = "batch" /\ Kind(i) = "text" => Accounted(i)

\* A handler that took its input has not triggered an observation with it yet.
Owed(c) ==
    /\ Input(c) \in Inputs
    /\ Job(c, "observe") \/ (Job(c, "line") /\ taken[Input(c)] > 0)

\* Where inputs may be taken again, observations are counted against that.
CountInv ==
    /\ ~batch.on /\ ~batch.ticking /\ batch.delta = {} /\ lost = {}
    /\ \A i \in Inputs : heard[i] <= taken[i]
    /\ \A c \in Conns : Owed(c) => heard[Input(c)] < taken[Input(c)]

\* Elsewhere each input triggers once, in one place.
AccountsInv ==
    \A i \in Inputs :
      /\ heard[i] <= 1 /\ taken[i] <= 1
      /\ Accounted(i) \/ i \in batch.processed =>
           taken[i] > 0 /\ \A c \in Conns : (Job(c, "idle") \/ Input(c) # i)
      /\ i \in batch.delta => i \notin batch.tick /\ i \notin lost /\ heard[i] = 0
      /\ i \in batch.tick => i \notin lost /\ heard[i] = 0
      /\ i \in lost => heard[i] = 0

TriggerInv ==
    /\ ~batch.ticking => batch.tick = {}
    /\ batch.ticking => Live
    /\ Topic = "network" => CountInv
    /\ Topic # "network" => AccountsInv

FlightInv == TopicInv /\ ConnInv /\ SentInv /\ OnceInv /\ CoveredInv
WorkInv == LedgerInv /\ JobInv /\ PendingIsAttended
RoomsInv == LineInv /\ RoomInv
IInv == TypeOK /\ FlightInv /\ WorkInv /\ RoomsInv /\ AckInv /\ TriggerInv

-----------------------------------------------------------------------------
(* Messages in flight.                                                     *)

\* What every step does that neither submits a new input nor ends the process.
\* F is the input whose service begins.
Onward(F) ==
    /\ scenario' = scenario
    /\ \A i \in Inputs :
         \/ tries'[i] = tries[i]
         \/ /\ tries[i] = 1 /\ tries'[i] = 2
            /\ Topic = "network" /\ Kind(i) # "text" /\ ~TwoPhase(i)
    /\ \A c \in Conns : \E k \in Nat : \A p \in DOMAIN conn'[c].inbox :
         \/ p + k \in DOMAIN conn[c].inbox /\ conn'[c].inbox[p] = conn[c].inbox[p + k]
         \/ LET m == conn'[c].inbox[p] IN
            told[m.input] = "waiting" /\ (CommitOnly(m) \/ tries'[m.input] = 2)
    /\ \A i \in Inputs : told'[i] = told[i] \/ (told[i] = "waiting" /\ told'[i] # "unsent" /\ told'[i] # "waiting")
    /\ half' \subseteq half \cup {i \in Inputs : told[i] # "unsent"}
    /\ \A i \in Inputs : Serving(i)' => Serving(i) \/ i \in F
    /\ \A i \in Inputs : Tracked(ledger, i)' => Tracked(ledger, i) \/ i \in F
    /\ \A i \in F : told[i] # "unsent" /\ \A c \in Conns, p \in Nat : tries[i] <= 1 => ~MainAt(c, p, i)'
    /\ \A i \in Inputs :
         \/ taken'[i] = taken[i]
         \/ /\ taken'[i] > 0 /\ (i \in F \/ Serving(i))
            /\ Counting' => Tracked(ledger, i)'
    /\ Counting' =>
         /\ Counting
         /\ \A i \in Inputs : Tracked(ledger, i) =>
              \/ Tracked(ledger, i)' \/ taken'[i] = 0
              \/ i <= ledger'.floor[Kind(i)]
         /\ \A k \in Kinds : ledger.floor[k] <= ledger'.floor[k]

\* An onward step keeps what is known of the inputs sent and not sent.
LEMMA SentKeeps ==
  ASSUME TypeOK, TypeOK', SentInv, NEW F \in SUBSET Inputs, Onward(F) PROVE SentInv'
<1>1. /\ tries \in [Inputs -> 0..2] /\ tries' \in [Inputs -> 0..2]
  BY DEF TypeOK
<1>4. ASSUME NEW i \in Inputs PROVE told'[i] = "unsent" <=> told[i] = "unsent"
  BY DEF Onward
<1>5. ASSUME NEW i \in Inputs, InboxHas(i)' PROVE InboxHas(i) \/ told[i] = "waiting"
  BY <1>5 DEF Onward, InboxHas
<1>6. ASSUME NEW i \in Inputs PROVE tries'[i] = 0 <=> told'[i] = "unsent"
  BY <1>1, <1>4 DEF Onward, SentInv
<1>7. ASSUME NEW i \in Inputs, told'[i] = "unsent"
      PROVE  i \notin half' /\ ~InboxHas(i)' /\ ~Serving(i)' /\ ~Tracked(ledger, i)' /\ taken'[i] = 0
  <2>1. /\ told[i] = "unsent" /\ i \notin F /\ i \notin half /\ ~InboxHas(i) /\ ~Serving(i)
        /\ ~Tracked(ledger, i) /\ taken[i] = 0
    BY <1>4, <1>7 DEF SentInv, Onward
  <2>2. QED BY <1>5, <2>1 DEF Onward
<1>8. ASSUME NEW i \in Inputs PROVE tries'[i] > 0 => i <= scenario'.count
  BY <1>1 DEF Onward, SentInv
<1>9. ASSUME NEW i \in Inputs, tries'[i] = 2
      PROVE  (Topic = "network" /\ Kind(i) # "text" /\ ~TwoPhase(i))'
  BY <1>1, <1>9 DEF Onward, SentInv, Topic, Kind, TwoPhase
<1>10. QED BY <1>4, <1>6, <1>7, <1>8, <1>9 DEF SentInv

\* It keeps an input sent once a stranger until its service begins.
LEMMA OnceKeeps ==
  ASSUME TypeOK, TypeOK', OnceInv, NEW F \in SUBSET Inputs, Onward(F) PROVE OnceInv'
<1>1. /\ tries \in [Inputs -> 0..2] /\ tries' \in [Inputs -> 0..2]
  BY DEF TypeOK
<1>2. PICK k \in [Conns -> Nat] : \A c \in Conns : \A p \in DOMAIN conn'[c].inbox :
         \/ p + k[c] \in DOMAIN conn[c].inbox /\ conn'[c].inbox[p] = conn[c].inbox[p + k[c]]
         \/ LET m == conn'[c].inbox[p] IN
            told[m.input] = "waiting" /\ (CommitOnly(m) \/ tries'[m.input] = 2)
  <2> DEFINE P(c, n) == \A p \in DOMAIN conn'[c].inbox :
         \/ p + n \in DOMAIN conn[c].inbox /\ conn'[c].inbox[p] = conn[c].inbox[p + n]
         \/ LET m == conn'[c].inbox[p] IN
            told[m.input] = "waiting" /\ (CommitOnly(m) \/ tries'[m.input] = 2)
  <2>1. \A c \in Conns : \E n \in Nat : P(c, n)
    BY DEF Onward
  <2> HIDE DEF P
  <2>2. [c \in Conns |-> CHOOSE n \in Nat : P(c, n)] \in [Conns -> Nat]
    BY <2>1
  <2>3. \A c \in Conns : P(c, [d \in Conns |-> CHOOSE n \in Nat : P(d, n)][c])
    BY <2>1
  <2>4. QED BY <2>2, <2>3 DEF P
<1>3. ASSUME NEW i \in Inputs, NEW c \in Conns, NEW p \in Nat, tries'[i] <= 1, MainAt(c, p, i)'
      PROVE  MainAt(c, p + k[c], i) /\ tries[i] <= 1
  <2>1. tries[i] <= 1
    BY <1>1, <1>3 DEF Onward
  <2>2. ~CommitOnly(conn'[c].inbox[p])
    BY <1>3 DEF MainAt, CommitOnly, TwoPhase, Kind, Onward
  <2>3. /\ p \in DOMAIN conn'[c].inbox /\ conn'[c].inbox[p].input = i /\ tries'[i] # 2
    BY <1>3 DEF MainAt
  <2>4. p + k[c] \in DOMAIN conn[c].inbox /\ conn'[c].inbox[p] = conn[c].inbox[p + k[c]]
    BY <1>2, <2>2, <2>3
  <2>5. QED BY <2>1, <2>2, <2>3, <2>4 DEF MainAt
<1>4. ASSUME NEW i \in Inputs, NEW c \in Conns, NEW p \in Nat, tries'[i] <= 1, MainAt(c, p, i)'
      PROVE  /\ taken'[i] = 0 /\ ~Tracked(ledger, i)' /\ ~Serving(i)'
             /\ \A d \in Conns, q \in Nat : MainAt(d, q, i)' => d = c /\ q = p
  <2>1. MainAt(c, p + k[c], i) /\ tries[i] <= 1 /\ p + k[c] \in Nat
    BY <1>3, <1>4
  <2>2. /\ taken[i] = 0 /\ ~Tracked(ledger, i) /\ ~Serving(i)
        /\ \A d \in Conns, q \in Nat : MainAt(d, q, i) => d = c /\ q = p + k[c]
    BY <2>1 DEF OnceInv
  <2>3. i \notin F
    BY <1>4, <2>1 DEF Onward
  <2>4. taken'[i] = 0 /\ ~Tracked(ledger, i)' /\ ~Serving(i)'
    BY <2>2, <2>3 DEF Onward
  <2>5. ASSUME NEW d \in Conns, NEW q \in Nat, MainAt(d, q, i)' PROVE d = c /\ q = p
    <3>1. MainAt(d, q + k[d], i) /\ q + k[d] \in Nat
      BY <1>3, <1>4, <2>5
    <3>2. d = c /\ q + k[d] = p + k[c]
      BY <2>2, <3>1
    <3>3. QED BY <3>2
  <2>6. QED BY <2>4, <2>5
<1>5. QED BY <1>4 DEF OnceInv

\* It keeps older inputs out behind what was taken.
LEMMA CoveredKeeps ==
  ASSUME TypeOK, TypeOK', CoveredInv, NEW F \in SUBSET Inputs, Onward(F) PROVE CoveredInv'
<1>1. /\ ledger.floor \in [Kinds -> Nat] /\ ledger'.floor \in [Kinds -> Nat]
      /\ \A i \in Inputs : Kind(i) \in Kinds /\ Kind(i)' = Kind(i) /\ i \in Nat
  BY ScenarioAssumption, ConnAssumption DEF TypeOK, LedgerRec, Kind, Onward
<1>2. ASSUME NEW j \in Inputs, Behind(j) PROVE Behind(j)'
  <2>1. ASSUME NEW i \in Inputs, InboxHas(i)' PROVE InboxHas(i) \/ told[i] = "waiting"
    BY <2>1 DEF Onward, InboxHas
  <2>2. QED BY <1>2, <2>1 DEF Behind, Onward
<1>3. ASSUME Counting', NEW j \in Inputs, taken'[j] > 0
      PROVE  (Tracked(ledger, j) \/ j <= ledger.floor[Kind(j)] \/ Behind(j))'
  <2>1. CASE taken'[j] # taken[j]
    BY <1>3, <2>1 DEF Onward
  <2>2. CASE taken'[j] = taken[j]
    <3>1. Tracked(ledger, j) \/ j <= ledger.floor[Kind(j)] \/ Behind(j)
      BY <1>3, <2>2 DEF CoveredInv, Onward
    <3>2. CASE Tracked(ledger, j)
      BY <1>1, <1>3, <3>2 DEF Onward
    <3>3. CASE j <= ledger.floor[Kind(j)]
      BY <1>1, <1>3, <3>3 DEF Onward
    <3>4. QED BY <1>2, <3>1, <3>2, <3>3
  <2>3. QED BY <2>1, <2>2
<1>4. QED BY <1>3 DEF CoveredInv

\* So an onward step keeps all that is said of messages in flight.
LEMMA FlightKeeps ==
  ASSUME TypeOK, TypeOK', FlightInv, TopicInv', ConnInv', NEW F \in SUBSET Inputs, Onward(F)
  PROVE  FlightInv'
BY SentKeeps, OnceKeeps, CoveredKeeps DEF FlightInv

-----------------------------------------------------------------------------
(* What a step leaves alone.                                               *)

\* Acknowledgements that were true remain so.
LEMMA AckKeeps ==
  ASSUME AckInv, scenario' = scenario,
         \A i \in Inputs : taken[i] > 0 => taken'[i] > 0,
         \A i \in Inputs : Accounted(i) => Accounted(i)',
         conn \in [Conns -> ConnRec], conn' \in [Conns -> ConnRec],
         \A c \in Conns : \A p \in DOMAIN conn'[c].outbox :
           \/ AckOK(conn[c].outbox[p])'
           \/ \E q \in DOMAIN conn[c].outbox : conn'[c].outbox[p] = conn[c].outbox[q],
         \A i \in Inputs : told'[i] = "acked" => told[i] = "acked"
                             \/ (Topic = "batch" /\ Kind(i) = "text" => Accounted(i))
  PROVE  AckInv'
<1>1. Topic' = Topic /\ \A i \in Inputs : Kind(i)' = Kind(i)
  BY DEF Topic, Kind
<1>2. ASSUME NEW c \in Conns, NEW p \in DOMAIN conn'[c].outbox PROVE AckOK(conn[c].outbox[p])'
  <2>1. CASE \E q \in DOMAIN conn[c].outbox : conn'[c].outbox[p] = conn[c].outbox[q]
    <3>1. PICK q \in DOMAIN conn[c].outbox : conn'[c].outbox[p] = conn[c].outbox[q]
      BY <2>1
    <3>2. PICK m \in AnswerRec : m = conn[c].outbox[q]
      BY ConnTyped
    <3>3. m.type = "ack" => m.input \in Inputs
      BY <3>2 DEF AnswerRec
    <3>4. AckOK(m)
      BY <3>2 DEF AckInv
    <3>5. AckOK(m)'
      BY <1>1, <3>3, <3>4 DEF AckOK
    <3>6. m = conn'[c].outbox[p]
      BY <3>1, <3>2
    <3>7. QED BY <3>5, <3>6 DEF AckOK, Kind, Topic, Accounted
  <2>2. QED BY <2>1
<1>3. ASSUME NEW i \in Inputs, told'[i] = "acked", Topic' = "batch", Kind(i)' = "text"
      PROVE  Accounted(i)'
  BY <1>1, <1>3 DEF AckInv
<1>4. QED BY <1>2, <1>3 DEF AckInv

\* Handlers whose jobs and ledger are left alone stay as they are.
LEMMA JobsKeep ==
  ASSUME JobInv, UNCHANGED <<scenario, taken>>,
         \A c \in Conns : conn'[c].job = conn[c].job,
         Live' => Live /\ ledger' = ledger
  PROVE  JobInv'
<1>1. \A c \in Conns : Input(c)' = Input(c) /\ \A at : Job(c, at)' <=> Job(c, at)
  BY DEF Input, Job
<1>2. \A i : Kind(i)' = Kind(i) /\ (Unsurpassed(i)' <=> Unsurpassed(i)) /\ (FirstTime(i)' <=> FirstTime(i))
  BY DEF Kind, Unsurpassed, FirstTime, Topic
<1>3. \A c \in Conns : Live' => (Kept(c)' <=> Kept(c))
  BY <1>1, <1>2 DEF Kept
<1>4. ASSUME NEW c \in Conns PROVE JobOK(c)'
  <2>1. JobOK(c)
    BY DEF JobInv
  <2>2. QED BY <1>1, <1>2, <1>3, <2>1 DEF JobOK
<1>5. QED BY <1>4 DEF JobInv

\* So does the ledger.
LEMMA LedgerKeeps ==
  ASSUME LedgerInv, UNCHANGED <<scenario, taken, ledger>>, Live' <=> Live
  PROVE  LedgerInv'
BY DEF LedgerInv, Fine, Kind, Unsurpassed, Anew, Topic

\* So do the room and its line.
LEMMA RoomsKeep ==
  ASSUME RoomsInv, UNCHANGED <<taken, roomVars>>,
         \A c \in Conns : conn'[c].job = conn[c].job,
         session' \in {"running", "stopping", "closing"} <=> session \in {"running", "stopping", "closing"}
  PROVE  RoomsInv'
<1>1. LineInv'
  <2>1. \A c \in Conns : Job(c, "line")' <=> Job(c, "line")
    BY DEF Job
  <2>2. \A c \in Conns : InLine(c)' <=> InLine(c)
    BY DEF InLine, roomVars
  <2>3. line' = line /\ active' = active
    BY DEF roomVars
  <2>4. QED BY <2>1, <2>2, <2>3 DEF LineInv, RoomsInv
<1>2. RoomInv'
  BY DEF RoomInv, RoomsInv, RoomMatchesLog, roomVars
<1>3. QED BY <1>1, <1>2 DEF RoomsInv

\* So is a reserved source, while its connections stay open.
LEMMA AttendedKeeps ==
  ASSUME PendingIsAttended, UNCHANGED <<scenario, ledger>>,
         \A c \in Conns : /\ conn'[c].job = conn[c].job
                          /\ conn[c].state \in {"open", "closing"} => conn'[c].state \in {"open", "closing"}
  PROVE  PendingIsAttended'
<1>1. \A i : TwoPhase(i)' <=> TwoPhase(i)
  BY DEF TwoPhase, Kind
<1>2. \A c \in Conns : SentOver(ledger, ledger.pending, c)' <=> SentOver(ledger, ledger.pending, c)
  BY DEF SentOver
<1>3. NoJob' = NoJob
  BY DEF NoJob
<1>4. QED BY <1>1, <1>2, <1>3 DEF PendingIsAttended

\* Steps that neither serve nor take anything.
Quiet ==
    /\ UNCHANGED <<scenario, tries, half, ledger, session, taken, roomVars>>
    /\ \A c \in Conns :
         /\ conn'[c].job = conn[c].job
         /\ conn[c].state \in {"open", "closing"} => conn'[c].state \in {"open", "closing"}
         /\ \E k \in Nat : \A p \in DOMAIN conn'[c].inbox :
              p + k \in DOMAIN conn[c].inbox /\ conn'[c].inbox[p] = conn[c].inbox[p + k]
         /\ \A p \in DOMAIN conn'[c].outbox :
              \/ AckOK(conn[c].outbox[p])'
              \/ \E q \in DOMAIN conn[c].outbox : conn'[c].outbox[p] = conn[c].outbox[q]
    /\ \A i \in Inputs :
         \/ told'[i] = told[i]
         \/ told[i] = "waiting" /\ told'[i] \in {"refused", "timeout", "closed"}
         \/ /\ told[i] = "waiting" /\ told'[i] = "acked"
            /\ Topic = "batch" /\ Kind(i) = "text" => Accounted(i)
    /\ \A i \in Inputs : Accounted(i) => Accounted(i)'

\* A quiet step keeps the invariant.
LEMMA QuietKeeps ==
  ASSUME IInv, TypeOK', TopicInv', ConnInv', TriggerInv', Quiet
  PROVE  IInv'
<1>1. /\ TypeOK /\ FlightInv /\ LedgerInv /\ JobInv /\ PendingIsAttended /\ RoomsInv /\ AckInv
  BY DEF IInv, WorkInv
<1>2. FlightInv'
  <2>1. \A i \in Inputs : (Serving(i)' <=> Serving(i)) /\ (Tracked(ledger, i)' <=> Tracked(ledger, i))
    BY DEF Quiet, Serving, Input, Job, Tracked, Entries
  <2>2. Counting' <=> Counting
    BY DEF Quiet, Counting
  <2>3. ledger.floor \in [Kinds -> Nat]
    BY <1>1 DEF TypeOK, LedgerRec
  <2>4. \A k \in Kinds : ledger.floor[k] <= ledger'.floor[k]
    BY <2>3 DEF Quiet
  <2>5. \A c \in Conns : \E k \in Nat : \A p \in DOMAIN conn'[c].inbox :
          p + k \in DOMAIN conn[c].inbox /\ conn'[c].inbox[p] = conn[c].inbox[p + k]
    BY DEF Quiet
  <2>6. \A i \in Inputs : told'[i] = told[i] \/ (told[i] = "waiting" /\ told'[i] # "unsent" /\ told'[i] # "waiting")
    BY DEF Quiet
  <2>7. Onward({})
    BY <2>1, <2>2, <2>4, <2>5, <2>6 DEF Onward, Quiet
  <2>8. QED BY <1>1, <2>7, FlightKeeps
<1>3. Live' <=> Live
  BY DEF Live, Quiet
<1>4. LedgerInv' /\ JobInv' /\ PendingIsAttended' /\ RoomsInv'
  BY <1>1, <1>3, LedgerKeeps, JobsKeep, AttendedKeeps, RoomsKeep DEF Quiet
<1>5. AckInv'
  BY <1>1, AckKeeps DEF Quiet, TypeOK
<1>6. QED BY <1>2, <1>4, <1>5 DEF IInv, WorkInv

\* Steps that touch no trigger keep the batch's account of them.
LEMMA TriggerStays ==
  ASSUME TriggerInv, UNCHANGED <<scenario, taken, heard, lost, batch>>, Live => Live',
         \A c \in Conns : conn'[c].job = conn[c].job
  PROVE  TriggerInv'
<1>1. Topic' = Topic /\ \A i : Accounted(i)' <=> Accounted(i)
  BY DEF Topic, Accounted
<1>2. \A c \in Conns : /\ Input(c)' = Input(c) /\ (Owed(c)' <=> Owed(c))
                       /\ Job(c, "idle")' <=> Job(c, "idle")
  BY DEF Job, Input, Owed
<1>3. (CountInv => CountInv') /\ (AccountsInv => AccountsInv')
  BY <1>1, <1>2 DEF CountInv, AccountsInv
<1>4. QED BY <1>1, <1>3 DEF TriggerInv

LEMMA TriggerKeeps ==
  ASSUME TriggerInv, UNCHANGED <<scenario, session, taken, heard, lost, batch>>,
         \A c \in Conns : conn'[c].job = conn[c].job
  PROVE  TriggerInv'
BY TriggerStays DEF Live

\* Types of a step that touches only the desktop and the connections.
LEMMA TypesKeep ==
  ASSUME TypeOK,
         UNCHANGED <<scenario, half, session, status, ledger, batch, taken, heard, lost, roomVars>>,
         told' \in [Inputs -> {"unsent", "waiting", "acked", "refused", "timeout", "closed"}],
         tries' \in [Inputs -> 0..2],
         link' \in Conns \cup {None}, ready' \in BOOLEAN, view' \in 0..MaxStatus,
         conn' \in [Conns -> ConnRec], \A c \in Conns : Len(conn'[c].queue) <= QueueCapacity
  PROVE  TypeOK'
<1>1. RoomTypeOK'
  BY DEF TypeOK, RoomTypeOK, roomVars
<1>2. QED BY <1>1 DEF TypeOK

\* A quiet step of one connection.
LEMMA QuietOne ==
  ASSUME IInv, TypeOK', TopicInv', ConnInv', NEW c \in Conns,
         UNCHANGED <<scenario, tries, half, ledger, session, taken, heard, lost, batch, roomVars>>,
         \A d \in Conns : d # c => conn'[d] = conn[d],
         conn'[c].job = conn[c].job,
         conn[c].state \in {"open", "closing"} => conn'[c].state \in {"open", "closing"},
         NEW k \in Nat,
         \A p \in DOMAIN conn'[c].inbox :
            p + k \in DOMAIN conn[c].inbox /\ conn'[c].inbox[p] = conn[c].inbox[p + k],
         \A p \in DOMAIN conn'[c].outbox :
            \/ AckOK(conn[c].outbox[p])'
            \/ \E q \in DOMAIN conn[c].outbox : conn'[c].outbox[p] = conn[c].outbox[q],
         \A i \in Inputs :
            \/ told'[i] = told[i]
            \/ told[i] = "waiting" /\ told'[i] \in {"refused", "timeout", "closed"}
            \/ /\ told[i] = "waiting" /\ told'[i] = "acked"
               /\ Topic = "batch" /\ Kind(i) = "text" => Accounted(i)
  PROVE  IInv'
<1>1. \A d \in Conns : conn'[d].job = conn[d].job
  OBVIOUS
<1>2. TriggerInv'
  BY <1>1, TriggerKeeps DEF IInv
<1>3. \A i \in Inputs : Accounted(i) => Accounted(i)'
  BY DEF Accounted
<1>4. ASSUME NEW d \in Conns
      PROVE  \E n \in Nat : \A p \in DOMAIN conn'[d].inbox :
               p + n \in DOMAIN conn[d].inbox /\ conn'[d].inbox[p] = conn[d].inbox[p + n]
  <2>1. CASE d = c
    BY <2>1
  <2>2. CASE d # c
    <3>1. conn[d].inbox \in Seq(MessageRec)
      BY ConnTyped DEF IInv, TypeOK
    <3>2. \A p \in DOMAIN conn[d].inbox : p + 0 = p
      BY <3>1
    <3>3. QED BY <2>2, <3>2
  <2>3. QED BY <2>1, <2>2
<1>5. ASSUME NEW d \in Conns, NEW p \in DOMAIN conn'[d].outbox
      PROVE  \/ AckOK(conn[d].outbox[p])'
             \/ \E q \in DOMAIN conn[d].outbox : conn'[d].outbox[p] = conn[d].outbox[q]
  OBVIOUS
<1>6. Quiet
  BY <1>1, <1>3, <1>4, <1>5 DEF Quiet
<1>7. QED BY <1>2, <1>6, QuietKeeps

\* And of a timer or the environment, at no connection.
LEMMA QuietElsewhere ==
  ASSUME IInv, TypeOK', TriggerInv',
         UNCHANGED <<scenario, told, tries, half, link, ready, conn, ledger, session, taken, roomVars>>,
         \A i \in Inputs : Accounted(i) => Accounted(i)'
  PROVE  IInv'
<1>1. TopicInv'
  BY DEF IInv, FlightInv, TopicInv, Topic
<1>2. ConnInv'
  BY DEF IInv, FlightInv, ConnInv, Job, Input, NoJob
<1>3. \A d \in Conns : \E n \in Nat : \A p \in DOMAIN conn'[d].inbox :
               p + n \in DOMAIN conn[d].inbox /\ conn'[d].inbox[p] = conn[d].inbox[p + n]
  <2>1. ASSUME NEW d \in Conns PROVE \A p \in DOMAIN conn'[d].inbox :
               p + 0 \in DOMAIN conn[d].inbox /\ conn'[d].inbox[p] = conn[d].inbox[p + 0]
    BY ConnTyped DEF IInv, TypeOK
  <2>2. QED BY <2>1
<1>4. Quiet
  BY <1>3 DEF Quiet
<1>5. QED BY <1>1, <1>2, <1>4, QuietKeeps

\* An inbox left alone holds its messages at their places.
LEMMA SameInbox ==
  ASSUME conn \in [Conns -> ConnRec], NEW c \in Conns, conn'[c].inbox = conn[c].inbox
  PROVE  \A p \in DOMAIN conn'[c].inbox :
           p + 0 \in DOMAIN conn[c].inbox /\ conn'[c].inbox[p] = conn[c].inbox[p + 0]
<1>1. \A p \in DOMAIN conn[c].inbox : p + 0 = p
  BY ConnTyped
<1>2. QED BY <1>1

-----------------------------------------------------------------------------
(* The desktop and the statuses.                                           *)

\* Dialling: the desktop opens its next websocket (connect).
LEMMA DialKeeps == ASSUME IInv, Dial PROVE IInv'
<1>1. PICK c \in Conns :
        /\ link = None /\ session # "down" /\ conn[c].state = "none" /\ link' = c
        /\ conn' = [conn EXCEPT ![c].state = "hello"] /\ ready' = FALSE
        /\ UNCHANGED <<scenario, told, tries, half, view, ledger, session, status, batch,
                       taken, heard, lost, roomVars>>
  BY DEF Dial, history
<1>2. TypeOK /\ TopicInv /\ ConnInv
  BY DEF IInv, FlightInv
<1>3. conn \in [Conns -> ConnRec] /\ conn[c] \in ConnRec
  BY <1>2 DEF TypeOK
<1>4. /\ conn' \in [Conns -> ConnRec] /\ \A d \in Conns : d # c => conn'[d] = conn[d]
      /\ conn'[c].state = "hello" /\ conn'[c].inbox = conn[c].inbox
      /\ conn'[c].outbox = conn[c].outbox /\ conn'[c].job = conn[c].job
      /\ conn'[c].queue = conn[c].queue
  BY <1>1, <1>3 DEF ConnRec
<1>5. TypeOK'
  BY <1>1, <1>2, <1>4, TypesKeep DEF TypeOK
<1>6. TopicInv'
  BY <1>1, <1>2 DEF TopicInv, Topic
<1>7. ConnInv'
  <2>1. None \notin Conns
    BY NoneAssumption, ConnAssumption
  <2>2. Job(c, "idle")
    BY <1>1, <1>2 DEF ConnInv
  <2>3. QED BY <1>1, <1>2, <1>4, <2>1, <2>2 DEF ConnInv, Job, Input, NoJob
<1>8. \A p \in DOMAIN conn'[c].inbox :
        p + 0 \in DOMAIN conn[c].inbox /\ conn'[c].inbox[p] = conn[c].inbox[p + 0]
  BY <1>3, <1>4, SameInbox
<1>9. QED BY <1>1, <1>4, <1>5, <1>6, <1>7, <1>8, QuietOne

\* A network failure: every call under way fails (handleClose).
LEMMA DropKeeps == ASSUME IInv, Drop PROVE IInv'
<1>0. PICK c \in Conns : link = c
  BY DEF IInv, TypeOK, Drop
<1>1. PICK n \in 0..Len(conn[c].inbox) :
        /\ link = c
        /\ conn' = [conn EXCEPT ![c].state = "closing", ![c].outbox = <<>>,
                                ![c].inbox = SubSeq(@, 1, n)]
        /\ told' = Unanswered(told) /\ link' = None /\ ready' = FALSE
        /\ UNCHANGED <<scenario, tries, half, view, ledger, session, status, batch,
                       taken, heard, lost, roomVars>>
  BY <1>0 DEF Drop, history
<1>2. TypeOK /\ TopicInv /\ ConnInv
  BY DEF IInv, FlightInv
<1>3. conn \in [Conns -> ConnRec] /\ conn[c] \in ConnRec
  BY <1>1, <1>2 DEF TypeOK
<1>4. PICK q \in Seq(MessageRec) :
        /\ q = SubSeq(conn[c].inbox, 1, n)
        /\ \A p \in DOMAIN q : p \in DOMAIN conn[c].inbox /\ q[p] = conn[c].inbox[p]
  <2> DEFINE b == conn[c].inbox
  <2>1. b \in Seq(MessageRec) /\ Len(b) \in Nat /\ n \in Int /\ 1 \in Int /\ 0 <= n /\ n <= Len(b)
    BY <1>3, ConnTyped
  <2>2. \A p \in 1..n : b[p] \in MessageRec
    BY <2>1
  <2> HIDE DEF b
  <2>3. /\ SubSeq(b, 1, n) \in Seq(MessageRec)
        /\ Len(SubSeq(b, 1, n)) = IF 1 <= n THEN n - 1 + 1 ELSE 0
        /\ \A p \in 1..n-1+1 : SubSeq(b, 1, n)[p] = b[1 + p - 1]
    BY <2>1, <2>2, SubSeqProperties
  <2>4. DOMAIN SubSeq(b, 1, n) = 1..n
    BY <2>1, <2>3
  <2>5. \A p \in 1..n : p \in DOMAIN b /\ SubSeq(b, 1, n)[p] = b[p]
    BY <2>1, <2>3
  <2>6. QED BY <2>3, <2>4, <2>5 DEF b
<1>5. PICK o \in Seq(AnswerRec) : o = <<>>
  <2>1. <<>> \in Seq(AnswerRec)
    OBVIOUS
  <2>2. QED BY <2>1, Zenon
<1>6. conn' = [conn EXCEPT ![c].state = "closing", ![c].outbox = o, ![c].inbox = q]
  BY <1>1, <1>4, <1>5
<1>7. /\ conn' \in [Conns -> ConnRec] /\ \A d \in Conns : d # c => conn'[d] = conn[d]
      /\ conn'[c].state = "closing" /\ conn'[c].inbox = q
      /\ conn'[c].outbox = o /\ conn'[c].job = conn[c].job
      /\ conn'[c].queue = conn[c].queue
  BY <1>3, <1>6 DEF ConnRec
<1>8. /\ told' \in [Inputs -> {"unsent", "waiting", "acked", "refused", "timeout", "closed"}]
      /\ \A i \in Inputs : told'[i] = told[i] \/ (told[i] = "waiting" /\ told'[i] = "closed")
      /\ \A i \in Inputs : told'[i] # "waiting"
  BY <1>1, <1>2 DEF TypeOK, Unanswered
<1>9. TypeOK'
  BY <1>1, <1>2, <1>7, <1>8, TypesKeep DEF TypeOK
<1>10. session # "down"
  BY <1>1, <1>2, <1>3 DEF TopicInv, ConnInv
<1>11. TopicInv'
  BY <1>1, <1>2, <1>10 DEF TopicInv, Topic
<1>12. ConnInv'
  <2>1. None \notin Conns
    BY NoneAssumption, ConnAssumption
  <2>2. QED BY <1>1, <1>2, <1>7, <2>1 DEF ConnInv, Job, Input, NoJob
<1>13. \A p \in DOMAIN conn'[c].inbox :
         p + 0 \in DOMAIN conn[c].inbox /\ conn'[c].inbox[p] = conn[c].inbox[p + 0]
  <2>1. \A p \in DOMAIN q : p + 0 = p
    OBVIOUS
  <2>2. QED BY <1>4, <1>7, <2>1
<1>14. \A p \in DOMAIN conn'[c].outbox :
         \/ AckOK(conn[c].outbox[p])'
         \/ \E x \in DOMAIN conn[c].outbox : conn'[c].outbox[p] = conn[c].outbox[x]
  BY <1>5, <1>7
<1>15. \A i \in Inputs :
         \/ told'[i] = told[i]
         \/ told[i] = "waiting" /\ told'[i] \in {"refused", "timeout", "closed"}
         \/ /\ told[i] = "waiting" /\ told'[i] = "acked"
            /\ Topic = "batch" /\ Kind(i) = "text" => Accounted(i)
  BY <1>8
<1>16. conn[c].state \in {"open", "closing"} => conn'[c].state \in {"open", "closing"}
  BY <1>7
<1>17. UNCHANGED <<scenario, tries, half, ledger, session, taken, heard, lost, batch, roomVars>>
  BY <1>1
<1>18. 0 \in Nat /\ conn'[c].job = conn[c].job /\ \A d \in Conns : d # c => conn'[d] = conn[d]
  BY <1>7
<1>19. QED BY <1>9, <1>11, <1>12, <1>13, <1>14, <1>15, <1>16, <1>17, <1>18, QuietOne

\* Of what a step that takes nothing leaves alone, the messages in flight apart.
LEMMA BooksKeep ==
  ASSUME IInv, TypeOK', FlightInv', TriggerInv',
         UNCHANGED <<scenario, ledger, session, taken, roomVars>>,
         \A c \in Conns :
           /\ conn'[c].job = conn[c].job
           /\ conn[c].state \in {"open", "closing"} => conn'[c].state \in {"open", "closing"},
         \A c \in Conns : \A p \in DOMAIN conn'[c].outbox :
           \/ AckOK(conn[c].outbox[p])'
           \/ \E q \in DOMAIN conn[c].outbox : conn'[c].outbox[p] = conn[c].outbox[q],
         \A i \in Inputs : told'[i] = "acked" => told[i] = "acked"
                             \/ (Topic = "batch" /\ Kind(i) = "text" => Accounted(i)),
         \A i \in Inputs : Accounted(i) => Accounted(i)'
  PROVE  IInv'
<1>1. /\ TypeOK /\ LedgerInv /\ JobInv /\ PendingIsAttended /\ RoomsInv /\ AckInv
  BY DEF IInv, WorkInv
<1>2. Live' <=> Live
  BY DEF Live
<1>3. UNCHANGED <<scenario, taken, ledger>> /\ UNCHANGED <<scenario, taken>>
      /\ UNCHANGED <<taken, roomVars>> /\ UNCHANGED <<scenario, ledger>> /\ scenario' = scenario
  OBVIOUS
<1>4. LedgerInv'
  BY <1>1, <1>2, <1>3, LedgerKeeps
<1>5. JobInv'
  BY <1>1, <1>2, <1>3, JobsKeep
<1>6. PendingIsAttended' 
  BY <1>1, <1>3, AttendedKeeps 
<1>7. RoomsInv'
  BY <1>1, <1>3, RoomsKeep
<1>8. conn \in [Conns -> ConnRec] /\ conn' \in [Conns -> ConnRec]
  BY <1>1 DEF TypeOK
<1>9. \A i \in Inputs : taken[i] > 0 => taken'[i] > 0
  OBVIOUS
<1>10. AckInv'
  BY <1>1, <1>3, <1>8, <1>9, AckKeeps
<1>11. QED BY <1>4, <1>5, <1>6, <1>7, <1>10 DEF IInv, WorkInv

\* A message that the desktop posts at the end of an inbox.
LEMMA PostedOnward ==
  ASSUME TypeOK, NEW m \in MessageRec, told[m.input] = "waiting",
         conn' \in [Conns -> ConnRec],
         NEW c \in Conns, conn'[c].inbox = Append(conn[c].inbox, m),
         \A d \in Conns : d # c => conn'[d].inbox = conn[d].inbox,
         CommitOnly(m) \/ tries'[m.input] = 2
  PROVE  \A d \in Conns : \E k \in Nat : \A p \in DOMAIN conn'[d].inbox :
           \/ p + k \in DOMAIN conn[d].inbox /\ conn'[d].inbox[p] = conn[d].inbox[p + k]
           \/ LET x == conn'[d].inbox[p] IN
              told[x.input] = "waiting" /\ (CommitOnly(x) \/ tries'[x.input] = 2)
<1>1. ASSUME NEW d \in Conns, NEW p \in DOMAIN conn'[d].inbox
      PROVE  \/ p + 0 \in DOMAIN conn[d].inbox /\ conn'[d].inbox[p] = conn[d].inbox[p + 0]
             \/ LET x == conn'[d].inbox[p] IN
                told[x.input] = "waiting" /\ (CommitOnly(x) \/ tries'[x.input] = 2)
  <2>1. conn[d].inbox \in Seq(MessageRec) /\ conn'[d].inbox \in Seq(MessageRec)
    BY ConnTyped DEF TypeOK, ConnRec
  <2>2. p \in Nat /\ p + 0 = p
    BY <1>1, <2>1
  <2>3. CASE d # c
    BY <1>1, <2>2, <2>3
  <2>4. CASE d = c
    <3>1. \/ p \in DOMAIN conn[c].inbox /\ conn'[c].inbox[p] = conn[c].inbox[p]
          \/ conn'[c].inbox[p] = m
      BY <1>1, <2>1, <2>4
    <3>2. CASE conn'[c].inbox[p] = m
      BY <2>4, <3>2
    <3>3. QED BY <2>2, <2>4, <3>1, <3>2
  <2>5. QED BY <2>3, <2>4
<1>2. QED BY <1>1

\* The message an input is sent with.
LEMMA AwaitedTyped ==
  ASSUME NEW i \in Inputs PROVE Message(i) \in MessageRec /\ Message(i).input = i
BY DEF Message, Awaited, MessageRec, Stages

\* A call whose acknowledgement does not come in time, resent once or failed.
LEMMA TimeoutKeeps == ASSUME IInv, NEW i \in Inputs, AckTimeout(i) PROVE IInv'
<1>1. TypeOK /\ TopicInv /\ ConnInv /\ FlightInv /\ TriggerInv
  BY DEF IInv, FlightInv
<1>2. /\ Topic = "network" /\ told[i] = "waiting"
      /\ UNCHANGED <<scenario, half, link, ready, view, ledger, session, status, batch,
                     taken, heard, lost, roomVars>>
  BY DEF AckTimeout, history
<1>3. CASE told' = [told EXCEPT ![i] = "timeout"] /\ tries' = tries /\ conn' = conn
  <2>1. TypeOK'
    BY <1>1, <1>2, <1>3, TypesKeep DEF TypeOK
  <2>2. TopicInv' /\ ConnInv'
    BY <1>1, <1>2, <1>3 DEF TopicInv, ConnInv, Topic, Job, Input, NoJob, TypeOK
  <2>3. TriggerInv'
    BY <1>1, <1>2, <1>3, TriggerKeeps
  <2>4. \A d \in Conns : \E n \in Nat : \A p \in DOMAIN conn'[d].inbox :
          p + n \in DOMAIN conn[d].inbox /\ conn'[d].inbox[p] = conn[d].inbox[p + n]
    BY <1>1, <1>3, SameInbox DEF TypeOK
  <2>5. \A j \in Inputs : Accounted(j) => Accounted(j)'
    BY <1>2 DEF Accounted
  <2>6. \A j \in Inputs : told'[j] = told[j] \/ (told[j] = "waiting" /\ told'[j] \in {"refused", "timeout", "closed"})
    BY <1>1, <1>2, <1>3 DEF TypeOK
  <2>7. Quiet
    BY <1>2, <1>3, <2>4, <2>5, <2>6 DEF Quiet
  <2>8. QED BY <2>1, <2>2, <2>3, <2>7, QuietKeeps
<1>4. CASE /\ Kind(i) # "text" /\ ~TwoPhase(i) /\ tries[i] = 1
           /\ tries' = [tries EXCEPT ![i] = 2]
           /\ Post(link, Message(i)) /\ told' = told
  <2>0. /\ tries \in [Inputs -> 0..2] /\ conn \in [Conns -> ConnRec]
        /\ link \in Conns \cup {None} /\ None \notin Conns
    BY <1>1, NoneAssumption, ConnAssumption DEF TypeOK
  <2>1. tries' \in [Inputs -> 0..2] /\ tries'[i] = 2 /\ \A j \in Inputs : j # i => tries'[j] = tries[j]
    BY <1>4, <2>0
  <2>3. PICK m \in MessageRec : m = Message(i)
    BY AwaitedTyped
  <2>4. m.input = i
    BY <2>3, AwaitedTyped
  <2>5. /\ conn' \in [Conns -> ConnRec]
        /\ \A d \in Conns : /\ conn'[d].job = conn[d].job /\ conn'[d].state = conn[d].state
                            /\ conn'[d].outbox = conn[d].outbox /\ conn'[d].queue = conn[d].queue
        /\ \A d \in Conns : conn[d].state \in {"none", "gone"} => conn'[d].inbox = conn[d].inbox
        /\ \A d \in Conns : \E k \in Nat : \A p \in DOMAIN conn'[d].inbox :
             \/ p + k \in DOMAIN conn[d].inbox /\ conn'[d].inbox[p] = conn[d].inbox[p + k]
             \/ LET x == conn'[d].inbox[p] IN
                told[x.input] = "waiting" /\ (CommitOnly(x) \/ tries'[x.input] = 2)
    <3>1. CASE link = None
      <4>1. conn' = conn
        BY <1>4, <2>0, <3>1 DEF Post
      <4>2. QED BY <2>0, <4>1, SameInbox
    <3>2. CASE link \in Conns
      <4>1. PICK c \in Conns : link = c
        BY <3>2
      <4>2. Post(c, m)
        BY <1>4, <2>3, <4>1 DEF Post
      <4>3. /\ conn' \in [Conns -> ConnRec]
            /\ \A d \in Conns : d # c => conn'[d] = conn[d]
            /\ conn'[c].inbox = Append(conn[c].inbox, m) /\ conn'[c].outbox = conn[c].outbox
            /\ conn'[c].job = conn[c].job
            /\ conn'[c].state = conn[c].state /\ conn'[c].queue = conn[c].queue
        BY <2>0, <4>2, PostFacts
      <4>4. \A d \in Conns : \E k \in Nat : \A p \in DOMAIN conn'[d].inbox :
             \/ p + k \in DOMAIN conn[d].inbox /\ conn'[d].inbox[p] = conn[d].inbox[p + k]
             \/ LET x == conn'[d].inbox[p] IN
                told[x.input] = "waiting" /\ (CommitOnly(x) \/ tries'[x.input] = 2)
        BY <1>1, <1>2, <2>1, <2>4, <4>3, PostedOnward
      <4>5. conn[c].state \notin {"none", "gone"}
        BY <1>1, <4>1 DEF ConnInv
      <4>6. QED BY <4>3, <4>4, <4>5
    <3>3. QED BY <2>0, <3>1, <3>2
  <2>6. TypeOK'
    BY <1>1, <1>2, <1>4, <2>1, <2>5, TypesKeep DEF TypeOK
  <2>7. TopicInv'
    BY <1>1, <1>2, <1>4, <2>5 DEF TopicInv, Topic
  <2>8. ConnInv'
    BY <1>1, <1>2, <2>5 DEF ConnInv, Job, Input, NoJob
  <2>9. TriggerInv'
    BY <1>1, <1>2, <2>5, TriggerKeeps
  <2>10. Onward({})
    <3>1. \A j \in Inputs : (Serving(j)' <=> Serving(j)) /\ (Tracked(ledger, j)' <=> Tracked(ledger, j))
      BY <1>2, <2>5 DEF Serving, Input, Job, Tracked, Entries
    <3>2. Counting' <=> Counting
      BY <1>2 DEF Counting
    <3>3. \A k \in Kinds : ledger.floor[k] <= ledger'.floor[k]
      BY <1>1, <1>2 DEF TypeOK, LedgerRec
    <3>4. \A j \in Inputs :
            \/ tries'[j] = tries[j]
            \/ /\ tries[j] = 1 /\ tries'[j] = 2
               /\ Topic = "network" /\ Kind(j) # "text" /\ ~TwoPhase(j)
      BY <1>2, <1>4, <2>1
    <3>5. QED BY <1>2, <1>4, <2>5, <3>1, <3>2, <3>3, <3>4 DEF Onward
  <2>11. FlightInv'
    BY <1>1, <2>6, <2>7, <2>8, <2>10, FlightKeeps
  <2>12. \A j \in Inputs : Accounted(j) => Accounted(j)'
    BY <1>2 DEF Accounted
  <2>13. UNCHANGED <<scenario, ledger, session, taken, roomVars>>
    BY <1>2
  <2>14. QED BY <1>4, <2>5, <2>6, <2>9, <2>11, <2>12, <2>13, BooksKeep
<1>5. QED BY <1>3, <1>4 DEF AckTimeout

\* The desktop takes the first answer of its connection.
LEMMA HeadTaken ==
  ASSUME conn \in [Conns -> ConnRec], NEW c \in Conns, conn[c].outbox # <<>>
  PROVE  /\ Head(conn[c].outbox) \in AnswerRec /\ Tail(conn[c].outbox) \in Seq(AnswerRec)
         /\ 1 \in DOMAIN conn[c].outbox /\ Head(conn[c].outbox) = conn[c].outbox[1]
         /\ \A p \in DOMAIN Tail(conn[c].outbox) :
              p + 1 \in DOMAIN conn[c].outbox
              /\ Tail(conn[c].outbox)[p] = conn[c].outbox[p + 1]
BY ConnTyped

\* Reading from a connection's outbox leaves the rest of it alone.
LEMMA OutboxFacts ==
  ASSUME conn \in [Conns -> ConnRec], NEW c \in Conns, NEW r \in Seq(AnswerRec),
         conn' = [conn EXCEPT ![c].outbox = r]
  PROVE  /\ conn' \in [Conns -> ConnRec] /\ \A d \in Conns : d # c => conn'[d] = conn[d]
         /\ conn'[c].state = conn[c].state /\ conn'[c].inbox = conn[c].inbox
         /\ conn'[c].outbox = r /\ conn'[c].job = conn[c].job
         /\ conn'[c].queue = conn[c].queue
BY ConnTyped DEF ConnRec

\* Whatever the desktop receives, it only learns what was true.
LEMMA ReceiveQuiet ==
  ASSUME IInv, NEW c \in Conns, link = c, conn[c].outbox # <<>>,
         conn' = [conn EXCEPT ![c].outbox = Tail(conn[c].outbox)],
         ready' \in BOOLEAN, view' \in 0..MaxStatus,
         told' \in [Inputs -> {"unsent", "waiting", "acked", "refused", "timeout", "closed"}],
         \A i \in Inputs :
            \/ told'[i] = told[i]
            \/ told[i] = "waiting" /\ told'[i] \in {"refused", "timeout", "closed"}
            \/ /\ told[i] = "waiting" /\ told'[i] = "acked"
               /\ Topic = "batch" /\ Kind(i) = "text" => Accounted(i),
         UNCHANGED <<scenario, half, tries, link, ledger, session, status, batch, taken, heard,
                     lost, roomVars>>
  PROVE  IInv'
<1>1. TypeOK /\ TopicInv /\ ConnInv
  BY DEF IInv, FlightInv
<1>2. conn \in [Conns -> ConnRec]
  BY <1>1 DEF TypeOK
<1>3. PICK r \in Seq(AnswerRec) : r = Tail(conn[c].outbox)
  BY <1>2, HeadTaken
<1>4. conn' = [conn EXCEPT ![c].outbox = r]
  BY <1>3
<1>5. /\ conn' \in [Conns -> ConnRec] /\ \A d \in Conns : d # c => conn'[d] = conn[d]
      /\ conn'[c].state = conn[c].state /\ conn'[c].inbox = conn[c].inbox
      /\ conn'[c].outbox = r /\ conn'[c].job = conn[c].job
      /\ conn'[c].queue = conn[c].queue
  BY <1>2, <1>4, OutboxFacts
<1>6. TypeOK'
  BY <1>1, <1>5, TypesKeep DEF TypeOK
<1>7. TopicInv'
  BY <1>1, <1>5 DEF TopicInv, Topic
<1>8. ConnInv'
  <2>1. None \notin Conns
    BY NoneAssumption, ConnAssumption
  <2>2. QED BY <1>1, <1>5, <2>1 DEF ConnInv, Job, Input, NoJob
<1>9. \A p \in DOMAIN conn'[c].inbox :
        p + 0 \in DOMAIN conn[c].inbox /\ conn'[c].inbox[p] = conn[c].inbox[p + 0]
  BY <1>2, <1>5, SameInbox
<1>10. \A p \in DOMAIN conn'[c].outbox :
         \/ AckOK(conn[c].outbox[p])'
         \/ \E q \in DOMAIN conn[c].outbox : conn'[c].outbox[p] = conn[c].outbox[q]
  BY <1>2, <1>3, <1>5, HeadTaken
<1>11. QED BY <1>5, <1>6, <1>7, <1>8, <1>9, <1>10, QuietOne

\* The desktop receives an answer or a status (handleMessage).
LEMMA ReceiveKeeps == ASSUME IInv, Receive PROVE IInv'
<1>0. PICK c \in Conns : link = c
  BY DEF IInv, TypeOK, Receive
<1>1. TypeOK /\ TopicInv /\ ConnInv /\ FlightInv /\ TriggerInv /\ AckInv
  BY DEF IInv, FlightInv
<1>2. conn \in [Conns -> ConnRec]
      /\ told \in [Inputs -> {"unsent", "waiting", "acked", "refused", "timeout", "closed"}]
      /\ ready \in BOOLEAN /\ view \in 0..MaxStatus
  BY <1>1 DEF TypeOK
<1>3. /\ conn[c].outbox # <<>>
      /\ UNCHANGED <<scenario, tries, link, ledger, session, status, batch, taken, heard, lost,
                     roomVars>>
  BY <1>0 DEF Receive, history
<1>4. PICK m \in AnswerRec : m = Head(conn[c].outbox)
  BY <1>2, <1>3, HeadTaken
<1>5. PICK rest \in Seq(AnswerRec) : rest = Tail(conn[c].outbox)
  BY <1>2, <1>3, HeadTaken
<1>6. CASE m.type = "status"
  <2>1. /\ ready' = TRUE /\ view' = m.revision /\ told' = told /\ half' = half
        /\ conn' = [conn EXCEPT ![c].outbox = Tail(conn[c].outbox)]
    BY <1>0, <1>4, <1>6 DEF Receive, HearStatus
  <2>2. m.revision \in 0..MaxStatus
    BY <1>6 DEF AnswerRec
  <2>3. \A i \in Inputs : told'[i] = told[i]
    BY <2>1
  <2>4. told' \in [Inputs -> {"unsent", "waiting", "acked", "refused", "timeout", "closed"}]
    BY <1>2, <2>1
  <2>5. ready' \in BOOLEAN /\ view' \in 0..MaxStatus
    BY <2>1, <2>2
  <2>6. QED BY <1>0, <1>3, <2>1, <2>3, <2>4, <2>5, ReceiveQuiet
<1>7. CASE m.type # "status"
  <2>0. m.input \in Inputs
    BY <1>7 DEF AnswerRec
  <2> DEFINE i == m.input
  <2>1. HearAnswer(m, rest) /\ ready' = ready /\ view' = view
    BY <1>0, <1>4, <1>5, <1>7 DEF Receive
  <2>2. CASE /\ conn' = [conn EXCEPT ![c].outbox = rest] /\ told' = told /\ half' = half
    <3>1. \A j \in Inputs : told'[j] = told[j]
      BY <2>2
    <3>2. conn' = [conn EXCEPT ![c].outbox = Tail(conn[c].outbox)]
      BY <1>5, <2>2
    <3>3. UNCHANGED <<scenario, half, tries, link, ledger, session, status, batch, taken, heard,
                     lost, roomVars>>
      BY <1>3, <2>2
    <3>4. ready' \in BOOLEAN /\ view' \in 0..MaxStatus
      BY <1>2, <2>1
    <3>5. told' \in [Inputs -> {"unsent", "waiting", "acked", "refused", "timeout", "closed"}]
      BY <1>2, <2>2
    <3>6. QED BY <1>0, <1>3, <3>1, <3>2, <3>3, <3>4, <3>5, ReceiveQuiet
  <2>3. CASE /\ told[i] = "waiting"
             /\ m.type = "ack" => m.stage = Awaited(i) /\ (TwoPhase(i) => i \in half)
             /\ told' = [told EXCEPT ![i] = IF m.type = "ack" THEN "acked" ELSE "refused"]
             /\ conn' = [conn EXCEPT ![c].outbox = rest] /\ half' = half
    <3>1. AckOK(m)
      BY <1>0, <1>1, <1>2, <1>3, <1>4, HeadTaken DEF AckInv
    <3>2. m.type = "ack" => (Topic = "batch" /\ Kind(i) = "text" => Accounted(i))
      BY <3>1 DEF AckOK
    <3>3. ASSUME NEW j \in Inputs
          PROVE  \/ told'[j] = told[j]
                 \/ told[j] = "waiting" /\ told'[j] \in {"refused", "timeout", "closed"}
                 \/ /\ told[j] = "waiting" /\ told'[j] = "acked"
                    /\ Topic = "batch" /\ Kind(j) = "text" => Accounted(j)
      BY <1>2, <2>0, <2>3, <3>2
    <3>4. conn' = [conn EXCEPT ![c].outbox = Tail(conn[c].outbox)]
      BY <1>5, <2>3
    <3>5. UNCHANGED <<scenario, half, tries, link, ledger, session, status, batch, taken, heard,
                     lost, roomVars>>
      BY <1>3, <2>3
    <3>6. ready' \in BOOLEAN /\ view' \in 0..MaxStatus
      BY <1>2, <2>1
    <3>7. told' \in [Inputs -> {"unsent", "waiting", "acked", "refused", "timeout", "closed"}]
      BY <1>2, <2>0, <2>3
    <3>8. QED BY <1>0, <1>3, <3>3, <3>4, <3>5, <3>6, <3>7, ReceiveQuiet
  <2>4. CASE /\ told[i] = "waiting" /\ TwoPhase(i)
             /\ half' = half \cup {i} /\ told' = told
             /\ conn' = [conn EXCEPT ![c].outbox = rest,
                           ![c].inbox = Append(@, [input |-> i, stage |-> "committed"])]
    <3>1. PICK x \in MessageRec : x = [input |-> i, stage |-> "committed"]
      BY <2>0 DEF MessageRec, Stages
    <3>2. x.input = i /\ x.stage = "committed" /\ CommitOnly(x)
      BY <2>4, <3>1 DEF CommitOnly
    <3>3. PICK q \in Seq(MessageRec) : q = Append(conn[c].inbox, x)
      BY <1>2, ConnTyped, AppendTyped
    <3>4. conn' = [conn EXCEPT ![c].outbox = rest, ![c].inbox = q]
      BY <2>4, <3>1, <3>3
    <3>5. /\ conn' \in [Conns -> ConnRec] /\ \A d \in Conns : d # c => conn'[d] = conn[d]
          /\ conn'[c].state = conn[c].state /\ conn'[c].inbox = Append(conn[c].inbox, x)
          /\ conn'[c].outbox = rest /\ conn'[c].job = conn[c].job
          /\ conn'[c].queue = conn[c].queue
      BY <1>2, <3>3, <3>4, ConnTyped DEF ConnRec
    <3>6. TypeOK'
      <4>1. RoomTypeOK'
        BY <1>1, <1>3 DEF TypeOK, RoomTypeOK, roomVars
      <4>2. half' \subseteq Inputs /\ \A d \in Conns : Len(conn'[d].queue) <= QueueCapacity
        BY <1>1, <2>0, <2>4, <3>5 DEF TypeOK
      <4>3. QED BY <1>1, <1>3, <2>1, <2>4, <3>5, <4>1, <4>2 DEF TypeOK
    <3>7. TopicInv'
      BY <1>1, <1>3, <2>4, <3>5 DEF TopicInv, Topic
    <3>8. ConnInv'
      <4>1. None \notin Conns
        BY NoneAssumption, ConnAssumption
      <4>2. QED BY <1>0, <1>1, <1>3, <3>5, <4>1 DEF ConnInv, Job, Input, NoJob
    <3>9. \A d \in Conns : conn'[d].job = conn[d].job /\ conn'[d].state = conn[d].state
      BY <3>5
    <3>10. TriggerInv'
      BY <1>1, <1>3, <3>9, TriggerKeeps
    <3>11. \A d \in Conns : \E k \in Nat : \A p \in DOMAIN conn'[d].inbox :
             \/ p + k \in DOMAIN conn[d].inbox /\ conn'[d].inbox[p] = conn[d].inbox[p + k]
             \/ LET y == conn'[d].inbox[p] IN
                told[y.input] = "waiting" /\ (CommitOnly(y) \/ tries'[y.input] = 2)
      <4>1. \A d \in Conns : d # c => conn'[d].inbox = conn[d].inbox
        BY <3>5
      <4>2. told[x.input] = "waiting"
        BY <2>4, <3>2
      <4>3. QED BY <1>1, <3>2, <3>5, <4>1, <4>2, PostedOnward
    <3>12. Onward({})
      <4>1. \A j \in Inputs : (Serving(j)' <=> Serving(j)) /\ (Tracked(ledger, j)' <=> Tracked(ledger, j))
        BY <1>3, <3>9 DEF Serving, Input, Job, Tracked, Entries
      <4>2. Counting' <=> Counting
        BY <1>3 DEF Counting
      <4>3. \A k \in Kinds : ledger.floor[k] <= ledger'.floor[k]
        BY <1>1, <1>3 DEF TypeOK, LedgerRec
      <4>4. half' \subseteq half \cup {j \in Inputs : told[j] # "unsent"}
        BY <2>0, <2>4
      <4>5. QED BY <1>3, <2>4, <3>11, <4>1, <4>2, <4>3, <4>4 DEF Onward
    <3>13. FlightInv'
      BY <1>1, <3>6, <3>7, <3>8, <3>12, FlightKeeps
    <3>14. \A j \in Inputs : Accounted(j) => Accounted(j)'
      BY <1>3 DEF Accounted
    <3>15. \A d \in Conns : \A p \in DOMAIN conn'[d].outbox :
             \/ AckOK(conn[d].outbox[p])'
             \/ \E y \in DOMAIN conn[d].outbox : conn'[d].outbox[p] = conn[d].outbox[y]
      <4>1. ASSUME NEW p \in DOMAIN rest PROVE \E y \in DOMAIN conn[c].outbox : rest[p] = conn[c].outbox[y]
        <5>1. p \in DOMAIN Tail(conn[c].outbox)
          BY <1>5
        <5>2. p + 1 \in DOMAIN conn[c].outbox /\ Tail(conn[c].outbox)[p] = conn[c].outbox[p + 1]
          BY <1>2, <1>3, <5>1, HeadTaken
        <5>3. QED BY <1>5, <5>2
      <4>2. ASSUME NEW d \in Conns, NEW p \in DOMAIN conn'[d].outbox
            PROVE  \E y \in DOMAIN conn[d].outbox : conn'[d].outbox[p] = conn[d].outbox[y]
        <5>1. CASE d = c
          BY <3>5, <4>1, <5>1
        <5>2. CASE d # c
          BY <3>5, <5>2
        <5>3. QED BY <5>1, <5>2
      <4>3. QED BY <4>2
    <3>16. \A j \in Inputs : told'[j] = "acked" => told[j] = "acked"
                             \/ (Topic = "batch" /\ Kind(j) = "text" => Accounted(j))
      BY <2>4
    <3>17. UNCHANGED <<scenario, ledger, session, taken, roomVars>>
      BY <1>3
    <3>18. QED BY <3>6, <3>9, <3>10, <3>13, <3>14, <3>15, <3>16, <3>17, BooksKeep
  <2>5. QED BY <1>0, <2>1, <2>2, <2>3, <2>4 DEF HearAnswer
<1>8. QED BY <1>6, <1>7

\* The places of an appended sequence: the old ones and the new one.
LEMMA AppendPlaces ==
  ASSUME NEW S, NEW s \in Seq(S), NEW x \in S, NEW p \in DOMAIN Append(s, x)
  PROVE  \/ p \in DOMAIN s /\ Append(s, x)[p] = s[p]
         \/ p = Len(s) + 1 /\ Append(s, x)[p] = x
OBVIOUS

\* A new input: nothing is known of it yet, and it is younger than the others.
LEMMA SubmitKeeps == ASSUME IInv, NEW i \in Inputs, Submit(i) PROVE IInv'
<1>1. /\ TypeOK /\ TopicInv /\ ConnInv /\ SentInv /\ OnceInv /\ CoveredInv
      /\ TriggerInv
  BY DEF IInv, FlightInv
<1>2. PICK c \in Conns : link = c
  BY <1>1 DEF Submit, ConnInv, TypeOK
<1>3. /\ i <= scenario.count /\ told[i] = "unsent"
      /\ \A j \in Inputs : j < i => told[j] # "unsent"
      /\ told' = [told EXCEPT ![i] = "waiting"] /\ tries' = [tries EXCEPT ![i] = 1]
      /\ Post(c, Message(i))
      /\ UNCHANGED <<scenario, half, link, ready, view, ledger, session, status, batch,
                     taken, heard, lost, roomVars>>
  BY <1>2 DEF Submit, history
<1>4. /\ tries \in [Inputs -> 0..2] /\ conn \in [Conns -> ConnRec]
      /\ told \in [Inputs -> {"unsent", "waiting", "acked", "refused", "timeout", "closed"}]
  BY <1>1 DEF TypeOK
<1>5. /\ tries' \in [Inputs -> 0..2] /\ tries'[i] = 1
      /\ \A j \in Inputs : j # i => tries'[j] = tries[j]
  BY <1>3, <1>4
<1>6. /\ told' \in [Inputs -> {"unsent", "waiting", "acked", "refused", "timeout", "closed"}]
      /\ told'[i] = "waiting" /\ \A j \in Inputs : j # i => told'[j] = told[j]
  BY <1>3, <1>4
<1>7. PICK m \in MessageRec : m = Message(i) /\ m.input = i
  BY AwaitedTyped
<1>8. /\ conn' \in [Conns -> ConnRec]
      /\ \A d \in Conns : d # c => conn'[d] = conn[d]
      /\ conn'[c].inbox = Append(conn[c].inbox, m) /\ conn'[c].outbox = conn[c].outbox
      /\ conn'[c].job = conn[c].job
      /\ conn'[c].state = conn[c].state /\ conn'[c].queue = conn[c].queue
  BY <1>3, <1>4, <1>7, PostFacts
<1>9. \A d \in Conns : /\ conn'[d].job = conn[d].job /\ conn'[d].state = conn[d].state
                       /\ conn'[d].outbox = conn[d].outbox /\ conn'[d].queue = conn[d].queue
  BY <1>8
<1>10. TypeOK'
  <2>1. \A d \in Conns : Len(conn'[d].queue) <= QueueCapacity
    BY <1>1, <1>9 DEF TypeOK
  <2>2. link' \in Conns \cup {None} /\ ready' \in BOOLEAN /\ view' \in 0..MaxStatus
    BY <1>1, <1>3 DEF TypeOK
  <2>3. QED BY <1>1, <1>3, <1>5, <1>6, <1>8, <2>1, <2>2, TypesKeep
<1>11. session # "down"
  BY <1>1, <1>2 DEF TopicInv, ConnInv
<1>12. TopicInv'
  BY <1>1, <1>3, <1>11 DEF TopicInv, Topic
<1>13. ConnInv'
  <2>1. \A d \in Conns : conn[d].state \in {"none", "gone"} => conn'[d].inbox = conn[d].inbox
    BY <1>1, <1>2, <1>8 DEF ConnInv
  <2>2. QED BY <1>1, <1>3, <1>9, <2>1 DEF ConnInv, Job, Input, NoJob
<1>14. /\ i \notin half /\ ~InboxHas(i) /\ ~Serving(i) /\ ~Tracked(ledger, i) /\ taken[i] = 0
  BY <1>1, <1>3 DEF SentInv
\* What is found in an inbox was there, or is the new message.
<1>15. ASSUME NEW d \in Conns, NEW p \in DOMAIN conn'[d].inbox
       PROVE  \/ p \in DOMAIN conn[d].inbox /\ conn'[d].inbox[p] = conn[d].inbox[p]
              \/ d = c /\ p = Len(conn[c].inbox) + 1 /\ conn'[d].inbox[p] = m
  <2>1. CASE d # c
    BY <1>8, <2>1
  <2>2. CASE d = c
    <3>1. PICK s \in Seq(MessageRec) : s = conn[c].inbox
      BY <1>4, ConnTyped
    <3>2. conn'[d].inbox = Append(s, m)
      BY <1>8, <2>2, <3>1
    <3>3. p \in DOMAIN Append(s, m)
      BY <1>15, <3>2
    <3>4. \/ p \in DOMAIN s /\ Append(s, m)[p] = s[p]
          \/ p = Len(s) + 1 /\ Append(s, m)[p] = m
      BY <3>3, AppendPlaces
    <3>5. QED BY <2>2, <3>1, <3>2, <3>4
  <2>3. QED BY <2>1, <2>2
<1>16. ASSUME NEW j \in Inputs, InboxHas(j)' PROVE InboxHas(j) \/ j = i
  <2>1. PICK d \in Conns : \E p \in DOMAIN conn'[d].inbox : conn'[d].inbox[p].input = j
    BY <1>16 DEF InboxHas
  <2>2. QED BY <1>7, <1>15, <2>1 DEF InboxHas
<1>17. /\ \A j \in Inputs : (Serving(j)' <=> Serving(j)) /\ (Tracked(ledger, j)' <=> Tracked(ledger, j))
       /\ (Counting' <=> Counting) /\ Topic' = Topic
       /\ \A j : Kind(j)' = Kind(j) /\ (TwoPhase(j)' <=> TwoPhase(j))
  BY <1>3, <1>9 DEF Serving, Input, Job, Tracked, Entries, Counting, Topic, Kind, TwoPhase
<1>18. SentInv'
  <2>1. ASSUME NEW j \in Inputs PROVE tries'[j] = 0 <=> told'[j] = "unsent"
    BY <1>1, <1>5, <1>6 DEF SentInv
  <2>2. ASSUME NEW j \in Inputs, told'[j] = "unsent"
        PROVE  j \notin half' /\ ~InboxHas(j)' /\ ~Serving(j)' /\ ~Tracked(ledger, j)' /\ taken'[j] = 0
    <3>1. j # i /\ told[j] = "unsent"
      BY <1>6, <2>2
    <3>2. /\ j \notin half /\ ~InboxHas(j) /\ ~Serving(j) /\ ~Tracked(ledger, j) /\ taken[j] = 0
      BY <1>1, <3>1 DEF SentInv
    <3>3. QED BY <1>3, <1>16, <1>17, <3>1, <3>2
  <2>3. ASSUME NEW j \in Inputs PROVE tries'[j] > 0 => j <= scenario'.count
    BY <1>1, <1>3, <1>5 DEF SentInv
  <2>4. ASSUME NEW j \in Inputs, NEW k \in Inputs, k < j, told'[k] = "unsent" PROVE told'[j] = "unsent"
    <3>1. k # i /\ told[k] = "unsent"
      BY <1>6, <2>4
    <3>2. told[j] = "unsent"
      BY <1>1, <2>4, <3>1 DEF SentInv
    <3>3. j # i
      BY <1>3, <2>4, <3>1
    <3>4. QED BY <1>6, <3>2, <3>3
  <2>5. ASSUME NEW j \in Inputs, tries'[j] = 2
        PROVE  (Topic = "network" /\ Kind(j) # "text" /\ ~TwoPhase(j))'
    <3>1. j # i /\ tries[j] = 2
      BY <1>5, <2>5
    <3>2. Topic = "network" /\ Kind(j) # "text" /\ ~TwoPhase(j)
      BY <1>1, <3>1 DEF SentInv
    <3>6. QED BY <1>17, <3>2
  <2>6. QED BY <2>1, <2>2, <2>3, <2>4, <2>5 DEF SentInv
<1>19. OnceInv'
  <2>1. ASSUME NEW j \in Inputs, NEW d \in Conns, NEW p \in Nat, MainAt(d, p, j)'
        PROVE  \/ MainAt(d, p, j) /\ j # i
               \/ j = i /\ d = c /\ p = Len(conn[c].inbox) + 1
    <3>1. /\ p \in DOMAIN conn'[d].inbox /\ conn'[d].inbox[p].input = j
          /\ ~CommitOnly(conn'[d].inbox[p])
      BY <1>17, <2>1 DEF MainAt, CommitOnly
    <3>2. CASE p \in DOMAIN conn[d].inbox /\ conn'[d].inbox[p] = conn[d].inbox[p]
      <4>1. MainAt(d, p, j)
        BY <3>1, <3>2 DEF MainAt
      <4>2. InboxHas(j)
        BY <3>1, <3>2 DEF InboxHas
      <4>3. QED BY <1>14, <4>1, <4>2
    <3>3. QED BY <1>7, <1>15, <3>1, <3>2
  <2>2. ASSUME NEW j \in Inputs, NEW d \in Conns, NEW p \in Nat, tries'[j] <= 1, MainAt(d, p, j)'
        PROVE  /\ taken'[j] = 0 /\ ~Tracked(ledger, j)' /\ ~Serving(j)'
               /\ \A e \in Conns, q \in Nat : MainAt(e, q, j)' => e = d /\ q = p
    <3>1. CASE j = i
      BY <1>3, <1>14, <1>17, <2>1, <2>2, <3>1
    <3>2. CASE j # i
      <4>1. MainAt(d, p, j) /\ tries[j] <= 1
        BY <1>5, <2>1, <2>2, <3>2
      <4>2. /\ taken[j] = 0 /\ ~Tracked(ledger, j) /\ ~Serving(j)
            /\ \A e \in Conns, q \in Nat : MainAt(e, q, j) => e = d /\ q = p
        BY <1>1, <4>1 DEF OnceInv
      <4>3. QED BY <1>3, <1>17, <2>1, <3>2, <4>2
    <3>3. QED BY <3>1, <3>2
  <2>3. QED BY <2>2 DEF OnceInv
<1>21. CoveredInv'
  <2>1. ASSUME NEW j \in Inputs, Behind(j) PROVE Behind(j)'
    <3>1. i > j
      BY <1>3, <2>1 DEF Behind
    <3>2. QED BY <1>6, <1>16, <2>1, <3>1 DEF Behind
  <2>2. QED BY <1>1, <1>3, <1>17, <2>1 DEF CoveredInv
<1>22. FlightInv'
  BY <1>12, <1>13, <1>18, <1>19, <1>21 DEF FlightInv
<1>23. TriggerInv'
  BY <1>1, <1>3, <1>9, TriggerKeeps
<1>24. \A j \in Inputs : Accounted(j) => Accounted(j)'
  BY <1>3 DEF Accounted
<1>25. UNCHANGED <<scenario, ledger, session, taken, roomVars>>
  BY <1>3
<1>26. \A j \in Inputs : told'[j] = "acked" => told[j] = "acked"
  BY <1>6
<1>27. QED BY <1>9, <1>10, <1>22, <1>23, <1>24, <1>25, <1>26, BooksKeep

\* What a handler says at the end of its outbox is true.
LEMMA SaidFacts ==
  ASSUME conn \in [Conns -> ConnRec], NEW c \in Conns, NEW m \in AnswerRec, AckOK(m)',
         conn'[c].outbox \in {conn[c].outbox, Append(conn[c].outbox, m)}
  PROVE  \A p \in DOMAIN conn'[c].outbox :
           \/ AckOK(conn[c].outbox[p])'
           \/ \E q \in DOMAIN conn[c].outbox : conn'[c].outbox[p] = conn[c].outbox[q]
<1>1. PICK s \in Seq(AnswerRec) : s = conn[c].outbox
  BY ConnTyped
<1>2. ASSUME NEW p \in DOMAIN conn'[c].outbox
      PROVE  \/ AckOK(conn[c].outbox[p])'
             \/ \E q \in DOMAIN conn[c].outbox : conn'[c].outbox[p] = conn[c].outbox[q]
  <2>1. CASE conn'[c].outbox = conn[c].outbox
    BY <1>2, <2>1
  <2>2. CASE conn'[c].outbox = Append(s, m)
    <3>1. p \in DOMAIN Append(s, m)
      BY <1>2, <2>2
    <3>2. \/ p \in DOMAIN s /\ Append(s, m)[p] = s[p]
          \/ p = Len(s) + 1 /\ Append(s, m)[p] = m
      BY <3>1, AppendPlaces
    <3>3. CASE Append(s, m)[p] = m
      <4>1. conn'[c].outbox[p] = m
        BY <2>2, <3>3
      <4>2. QED BY <4>1 DEF AckOK, Kind, Topic, Accounted
    <3>4. QED BY <1>1, <2>2, <3>2, <3>3
  <2>3. QED BY <1>1, <2>1, <2>2
<1>3. QED BY <1>2

\* Only an acknowledgement claims anything.
LEMMA NoAckOK == ASSUME NEW m, m.type # "ack" PROVE AckOK(m)'
BY DEF AckOK

\* A quiet step of a connection that nobody was told anything by.
LEMMA QuietHandler ==
  ASSUME IInv, NEW c \in Conns,
         UNCHANGED <<scenario, told, tries, half, link, ready, view, ledger, session, status,
                     batch, taken, heard, lost, roomVars>>,
         conn' \in [Conns -> ConnRec],
         \A d \in Conns : d # c => conn'[d] = conn[d],
         Len(conn'[c].queue) <= QueueCapacity,
         conn'[c].job = conn[c].job,
         conn[c].state \in {"open", "closing"} => conn'[c].state \in {"open", "closing"},
         conn[c].state \notin {"none", "gone"} /\ conn'[c].state \notin {"none", "gone"},
         conn[c].state \in {"hello", "subscribed", "open"} =>
            conn'[c].state \in {"hello", "subscribed", "open"},
         NEW k \in Nat,
         \A p \in DOMAIN conn'[c].inbox :
            p + k \in DOMAIN conn[c].inbox /\ conn'[c].inbox[p] = conn[c].inbox[p + k],
         \A p \in DOMAIN conn'[c].outbox :
            \/ AckOK(conn[c].outbox[p])'
            \/ \E q \in DOMAIN conn[c].outbox : conn'[c].outbox[p] = conn[c].outbox[q]
  PROVE  IInv'
<1>1. TypeOK /\ TopicInv /\ ConnInv
  BY DEF IInv, FlightInv
<1>2. TypeOK'
  <2>1. \A d \in Conns : Len(conn'[d].queue) <= QueueCapacity
    BY <1>1 DEF TypeOK
  <2>2. /\ told' \in [Inputs -> {"unsent", "waiting", "acked", "refused", "timeout", "closed"}]
        /\ tries' \in [Inputs -> 0..2]
        /\ link' \in Conns \cup {None} /\ ready' \in BOOLEAN /\ view' \in 0..MaxStatus
    BY <1>1 DEF TypeOK
  <2>3. QED BY <1>1, <2>1, <2>2, TypesKeep
<1>3. TopicInv'
  <2>1. session = "down" => FALSE
    BY <1>1 DEF TopicInv
  <2>2. QED BY <1>1, <2>1 DEF TopicInv, Topic
<1>4. ConnInv'
  BY <1>1 DEF ConnInv, Job, Input, NoJob
<1>5. \A i \in Inputs : told'[i] = told[i]
  OBVIOUS
<1>6. QED BY <1>2, <1>3, <1>4, <1>5, QuietOne

\* The server takes the desktop's hello.
LEMMA SubscribeKeeps == ASSUME IInv, NEW c \in Conns, Subscribe(c) PROVE IInv'
<1>1. TypeOK /\ conn \in [Conns -> ConnRec] /\ conn[c] \in ConnRec
  BY DEF IInv, TypeOK
<1>2. /\ conn[c].state = "hello" /\ conn' = [conn EXCEPT ![c].state = "subscribed"]
      /\ UNCHANGED <<scenario, told, tries, half, link, ready, view, ledger, session, status,
                     batch, taken, heard, lost, roomVars>>
  BY DEF Subscribe, client, history
<1>3. /\ conn' \in [Conns -> ConnRec] /\ \A d \in Conns : d # c => conn'[d] = conn[d]
      /\ conn'[c].state = "subscribed" /\ conn'[c].inbox = conn[c].inbox
      /\ conn'[c].outbox = conn[c].outbox /\ conn'[c].job = conn[c].job
      /\ conn'[c].queue = conn[c].queue
  BY <1>1, <1>2 DEF ConnRec
<1>4. \A p \in DOMAIN conn'[c].inbox :
        p + 0 \in DOMAIN conn[c].inbox /\ conn'[c].inbox[p] = conn[c].inbox[p + 0]
  BY <1>1, <1>3, SameInbox
<1>5. Len(conn'[c].queue) <= QueueCapacity
  BY <1>1, <1>3 DEF TypeOK
<1>6. QED BY <1>2, <1>3, <1>4, <1>5, QuietHandler

\* It answers with the first status, and the connection is open.
LEMMA WelcomeKeeps == ASSUME IInv, NEW c \in Conns, Welcome(c) PROVE IInv'
<1>1. TypeOK /\ conn \in [Conns -> ConnRec] /\ conn[c] \in ConnRec /\ status \in 0..MaxStatus
  BY DEF IInv, TypeOK
<1>2. PICK m \in AnswerRec : m = [type |-> "status", revision |-> status]
  BY <1>1 DEF AnswerRec
<1>3. m.type # "ack"
  BY <1>2
<1>4. PICK q \in Seq(AnswerRec) : q = Append(conn[c].outbox, m)
  BY <1>1, ConnTyped, AppendTyped
<1>5. /\ conn[c].state = "subscribed"
      /\ conn' = [conn EXCEPT ![c].state = "open", ![c].sent = status, ![c].outbox = q]
      /\ UNCHANGED <<scenario, told, tries, half, link, ready, view, ledger, session, status,
                     batch, taken, heard, lost, roomVars>>
  BY <1>2, <1>4 DEF Welcome, client, history
<1>6. /\ conn' \in [Conns -> ConnRec] /\ \A d \in Conns : d # c => conn'[d] = conn[d]
      /\ conn'[c].state = "open" /\ conn'[c].inbox = conn[c].inbox
      /\ conn'[c].outbox = q /\ conn'[c].job = conn[c].job
      /\ conn'[c].queue = conn[c].queue
  BY <1>1, <1>4, <1>5 DEF ConnRec
<1>7. \A p \in DOMAIN conn'[c].inbox :
        p + 0 \in DOMAIN conn[c].inbox /\ conn'[c].inbox[p] = conn[c].inbox[p + 0]
  BY <1>1, <1>6, SameInbox
<1>8. Len(conn'[c].queue) <= QueueCapacity
  BY <1>1, <1>6 DEF TypeOK
<1>9. \A p \in DOMAIN conn'[c].outbox :
        \/ AckOK(conn[c].outbox[p])'
        \/ \E x \in DOMAIN conn[c].outbox : conn'[c].outbox[p] = conn[c].outbox[x]
  <2>1. AckOK(m)'
    BY <1>3, NoAckOK
  <2>2. conn'[c].outbox \in {conn[c].outbox, Append(conn[c].outbox, m)}
    BY <1>4, <1>6
  <2>3. QED BY <1>1, <2>1, <2>2, SaidFacts
<1>10. QED BY <1>5, <1>6, <1>7, <1>8, <1>9, QuietHandler

\* A message the ledger refuses is rejected at once.
LEMMA RefusedKeeps == ASSUME IInv, NEW c \in Conns, ServeRefused(c) PROVE IInv'
<1>1. TypeOK /\ conn \in [Conns -> ConnRec]
  BY DEF IInv, TypeOK
<1>2. AtHand(c)
  BY DEF ServeRefused
<1>3. PICK x \in MessageRec : x = Incoming(c)
  BY <1>1, <1>2, AtHandFacts
<1>4. PICK m \in AnswerRec : m = Rejected(x) /\ m.type # "ack"
  BY AnswerTyped
<1>5. /\ AnswerNow(c, m)
      /\ UNCHANGED <<scenario, told, tries, half, link, ready, view, ledger, session, status,
                     batch, taken, heard, lost, roomVars>>
  BY <1>3, <1>4 DEF ServeRefused, client, history
<1>6. /\ conn' \in [Conns -> ConnRec]
      /\ \A d \in Conns : d # c => conn'[d] = conn[d]
      /\ conn'[c].job = conn[c].job /\ conn'[c].inbox = Tail(conn[c].inbox)
      /\ conn'[c].outbox \in {conn[c].outbox, Append(conn[c].outbox, m)}
      /\ conn'[c].state = conn[c].state /\ conn'[c].queue = conn[c].queue
  BY <1>1, <1>2, <1>5, AnswerNowFacts
<1>7. conn[c].state \in {"open", "closing"}
  BY <1>1, <1>2, AtHandFacts
<1>8. \A p \in DOMAIN conn'[c].inbox :
        p + 1 \in DOMAIN conn[c].inbox /\ conn'[c].inbox[p] = conn[c].inbox[p + 1]
  BY <1>1, <1>2, <1>6, AtHandFacts
<1>9. Len(conn'[c].queue) <= QueueCapacity
  BY <1>1, <1>6 DEF TypeOK
<1>10. \A p \in DOMAIN conn'[c].outbox :
        \/ AckOK(conn[c].outbox[p])'
        \/ \E q \in DOMAIN conn[c].outbox : conn'[c].outbox[p] = conn[c].outbox[q]
  <2>1. AckOK(m)'
    BY <1>4, NoAckOK
  <2>2. QED BY <1>1, <1>6, <2>1, SaidFacts
<1>11. conn[c].state \notin {"none", "gone"} /\ conn'[c].state \notin {"none", "gone"}
  BY <1>6, <1>7
<1>12. 1 \in Nat
  OBVIOUS
<1>13. QED BY <1>5, <1>6, <1>8, <1>9, <1>10, <1>11, <1>12, QuietHandler

\* Taking the head of a sequence.
LEMMA HeadTail ==
  ASSUME NEW S, NEW s \in Seq(S), s # <<>>
  PROVE  Head(s) \in S /\ Tail(s) \in Seq(S) /\ Len(Tail(s)) = Len(s) - 1
OBVIOUS

\* A length is a natural number.
LEMMA LenNat == ASSUME NEW S, NEW s \in Seq(S) PROVE Len(s) \in Nat
OBVIOUS

\* The status task forwards the oldest status of its queue.
LEMMA ForwardKeeps == ASSUME IInv, NEW c \in Conns, ForwardStatus(c) PROVE IInv'
<1>1. TypeOK /\ conn \in [Conns -> ConnRec] /\ conn[c] \in ConnRec
  BY DEF IInv, TypeOK
<1>2. /\ conn[c].state = "open" /\ conn[c].queue # <<>>
      /\ UNCHANGED <<scenario, told, tries, half, link, ready, view, ledger, session, status,
                     batch, taken, heard, lost, roomVars>>
  BY DEF ForwardStatus, client, history
<1>3. conn[c].queue \in Seq(0..MaxStatus)
  BY <1>1, ConnTyped
<1>4. PICK r \in 0..MaxStatus : r = Head(conn[c].queue)
  BY <1>2, <1>3, HeadTail
<1>5. PICK t \in Seq(0..MaxStatus) : t = Tail(conn[c].queue) /\ Len(t) <= QueueCapacity
  <2>1. Tail(conn[c].queue) \in Seq(0..MaxStatus) /\ Len(Tail(conn[c].queue)) = Len(conn[c].queue) - 1
    <3>1. PICK s \in Seq(0..MaxStatus) : s = conn[c].queue
      BY <1>3
    <3>2. QED BY <1>2, <3>1, HeadTail
  <2>2. Len(conn[c].queue) <= QueueCapacity /\ Len(conn[c].queue) \in Nat /\ QueueCapacity \in Nat
    BY <1>1, <1>3, BoundAssumption, LenNat DEF TypeOK
  <2>3. PICK n \in Nat, b \in Nat : n = Len(conn[c].queue) /\ b = QueueCapacity
    BY <2>2
  <2>4. n - 1 <= b
    BY <2>2, <2>3
  <2>5. QED BY <2>1, <2>3, <2>4
<1>6. PICK m \in AnswerRec : m = [type |-> "status", revision |-> r]
  BY DEF AnswerRec
<1>7. m.type # "ack"
  BY <1>6
<1>8. PICK q \in Seq(AnswerRec) : q = Append(conn[c].outbox, m)
  BY <1>1, ConnTyped, AppendTyped
<1>9. /\ conn' \in [Conns -> ConnRec] /\ \A d \in Conns : d # c => conn'[d] = conn[d]
      /\ conn'[c].state = "open" /\ conn'[c].inbox = conn[c].inbox
      /\ conn'[c].outbox \in {conn[c].outbox, q} /\ conn'[c].job = conn[c].job
      /\ conn'[c].queue = t
  <2>1. CASE conn' = [conn EXCEPT ![c].queue = t, ![c].sent = r, ![c].outbox = q]
    BY <1>1, <1>2, <1>4, <1>5, <1>8, <2>1 DEF ConnRec
  <2>2. CASE conn' = [conn EXCEPT ![c].queue = t]
    BY <1>1, <1>2, <1>5, <2>2 DEF ConnRec
  <2>3. QED BY <1>4, <1>5, <1>6, <1>8, <2>1, <2>2 DEF ForwardStatus
<1>10. \A p \in DOMAIN conn'[c].inbox :
        p + 0 \in DOMAIN conn[c].inbox /\ conn'[c].inbox[p] = conn[c].inbox[p + 0]
  BY <1>1, <1>9, SameInbox
<1>11. Len(conn'[c].queue) <= QueueCapacity
  BY <1>5, <1>9
<1>12. \A p \in DOMAIN conn'[c].outbox :
        \/ AckOK(conn[c].outbox[p])'
        \/ \E x \in DOMAIN conn[c].outbox : conn'[c].outbox[p] = conn[c].outbox[x]
  <2>1. AckOK(m)'
    BY <1>7, NoAckOK
  <2>2. conn'[c].outbox \in {conn[c].outbox, Append(conn[c].outbox, m)}
    BY <1>8, <1>9
  <2>3. QED BY <1>1, <2>1, <2>2, SaidFacts
<1>13. QED BY <1>2, <1>9, <1>10, <1>11, <1>12, QuietHandler

\* A connection with another status queue.
LEMMA QueueFacts ==
  ASSUME NEW r \in ConnRec, NEW q \in Seq(0..MaxStatus)
  PROVE  LET s == [r EXCEPT !.queue = q] IN
         /\ s \in ConnRec /\ s.queue = q
         /\ s.state = r.state /\ s.inbox = r.inbox /\ s.outbox = r.outbox /\ s.job = r.job
BY DEF ConnRec

\* A full queue drops its oldest status for the newest, and never grows beyond.
LEMMA PutLatestFacts ==
  ASSUME NEW q \in Seq(0..MaxStatus), Len(q) <= QueueCapacity, NEW x \in 0..MaxStatus
  PROVE  PutLatest(q, x) \in Seq(0..MaxStatus) /\ Len(PutLatest(q, x)) <= QueueCapacity
<1>1. PICK b \in Nat \ {0} : b = QueueCapacity
  BY BoundAssumption
<1>2. CASE Len(q) = QueueCapacity
  <2>1. q # <<>>
    BY <1>1, <1>2
  <2>2. PICK t \in Seq(0..MaxStatus) : t = Tail(q) /\ Len(t) = Len(q) - 1
    BY <2>1, HeadTail
  <2>3. Append(t, x) \in Seq(0..MaxStatus) /\ Len(Append(t, x)) = Len(t) + 1
    BY AppendTyped
  <2>4. Len(t) \in Nat /\ Len(q) \in Nat
    BY LenNat
  <2>5. Len(t) + 1 = Len(q)
    BY <2>2, <2>4
  <2>6. QED BY <1>2, <2>2, <2>3, <2>5 DEF PutLatest
<1>3. CASE Len(q) # QueueCapacity
  <2>1. Append(q, x) \in Seq(0..MaxStatus) /\ Len(Append(q, x)) = Len(q) + 1
    BY AppendTyped
  <2>2. PICK n \in Nat : n = Len(q)
    BY LenNat
  <2>3. n + 1 <= b
    BY <1>1, <1>3, <2>2
  <2>4. QED BY <1>1, <1>3, <2>1, <2>2, <2>3 DEF PutLatest
<1>4. QED BY <1>2, <1>3

\* A status is put on the queues of all subscribers.
LEMMA PublishKeeps == ASSUME IInv, PublishStatus PROVE IInv'
<1>1. TypeOK /\ TopicInv /\ ConnInv /\ TriggerInv /\ conn \in [Conns -> ConnRec]
  BY DEF IInv, FlightInv, TypeOK
<1>2. /\ status < MaxStatus /\ status' = status + 1
      /\ UNCHANGED <<scenario, told, tries, half, link, ready, view, ledger, session, batch,
                     taken, heard, lost, roomVars>>
  BY DEF PublishStatus, client, history
<1>3. status' \in 0..MaxStatus
  BY <1>1, <1>2, BoundAssumption DEF TypeOK
<1>4. ASSUME NEW d \in Conns
      PROVE  /\ conn'[d] \in ConnRec /\ Len(conn'[d].queue) <= QueueCapacity
             /\ conn'[d].state = conn[d].state /\ conn'[d].inbox = conn[d].inbox
             /\ conn'[d].outbox = conn[d].outbox /\ conn'[d].job = conn[d].job
  <2>1. conn[d] \in ConnRec /\ conn[d].queue \in Seq(0..MaxStatus)
    BY <1>1, ConnTyped
  <2>2. Len(conn[d].queue) <= QueueCapacity
    BY <1>1 DEF TypeOK
  <2>3. PICK x \in 0..MaxStatus : x = status'
    BY <1>3
  <2>4. PICK q \in Seq(0..MaxStatus) : q = PutLatest(conn[d].queue, x) /\ Len(q) <= QueueCapacity
    BY <2>1, <2>2, PutLatestFacts
  <2>5. conn'[d] = [conn[d] EXCEPT !.queue = q] \/ conn'[d] = conn[d]
    BY <2>3, <2>4 DEF PublishStatus
  <2>6. PICK r \in ConnRec : r = conn[d]
    BY <2>1
  <2>7. CASE conn'[d] = [r EXCEPT !.queue = q]
    BY <2>4, <2>6, <2>7, QueueFacts
  <2>8. QED BY <2>1, <2>2, <2>5, <2>6, <2>7
<1>5. conn' \in [Conns -> ConnRec]
  <2>1. conn' = [d \in Conns |-> conn'[d]]
    BY DEF PublishStatus
  <2>2. QED BY <1>4, <2>1
<1>6. TypeOK'
  <2>1. RoomTypeOK'
    BY <1>1, <1>2 DEF TypeOK, RoomTypeOK, roomVars
  <2>2. QED BY <1>1, <1>2, <1>3, <1>4, <1>5, <2>1 DEF TypeOK
<1>7. TopicInv'
  BY <1>1, <1>2, <1>4 DEF TopicInv, Topic
<1>8. ConnInv'
  BY <1>1, <1>2, <1>4 DEF ConnInv, Job, Input, NoJob
<1>9. TriggerInv'
  BY <1>1, <1>2, <1>4, TriggerKeeps
<1>10. \A d \in Conns : \E n \in Nat : \A p \in DOMAIN conn'[d].inbox :
         p + n \in DOMAIN conn[d].inbox /\ conn'[d].inbox[p] = conn[d].inbox[p + n]
  BY <1>1, <1>4, SameInbox
<1>11. \A j \in Inputs : Accounted(j) => Accounted(j)'
  BY <1>2 DEF Accounted
<1>12. \A d \in Conns : \A p \in DOMAIN conn'[d].outbox :
         \E q \in DOMAIN conn[d].outbox : conn'[d].outbox[p] = conn[d].outbox[q]
  BY <1>4
<1>13. Quiet
  BY <1>2, <1>4, <1>10, <1>11, <1>12 DEF Quiet
<1>14. QED BY <1>6, <1>7, <1>8, <1>9, <1>13, QuietKeeps

-----------------------------------------------------------------------------
(* The timer of the window batch, and the mode.                            *)

\* Types of a step that touches only the batch.
LEMMA BatchTypes ==
  ASSUME TypeOK, batch' \in Batch, heard' \in [Inputs -> Nat], lost' \subseteq Inputs,
         UNCHANGED <<scenario, told, tries, half, link, ready, view, conn, ledger, session,
                     status, taken, roomVars>>
  PROVE  TypeOK'
<1>1. RoomTypeOK'
  BY DEF TypeOK, RoomTypeOK, roomVars
<1>2. QED BY <1>1 DEF TypeOK

\* Where a batch is at work, each input triggers once.
LEMMA BatchWorks ==
  ASSUME TriggerInv, batch.on \/ batch.ticking \/ batch.delta # {}
  PROVE  Topic # "network" /\ AccountsInv
BY DEF TriggerInv, CountInv

\* The batch timer takes what was triggered since the last tick.
LEMMA TakeTickKeeps == ASSUME IInv, TakeTick PROVE IInv'
<1>1. TypeOK /\ TriggerInv /\ batch \in Batch /\ Topic # "network" /\ AccountsInv
  BY BatchWorks DEF IInv, TypeOK, TakeTick
<1>2. /\ Accepting /\ ~batch.ticking
      /\ UNCHANGED <<scenario, told, tries, half, link, ready, view, conn, ledger, session,
                     status, taken, heard, lost, roomVars>>
  BY DEF TakeTick, client, history
<1>3. /\ batch' \in Batch /\ batch'.on = batch.on /\ batch'.ticking /\ batch'.tick = batch.delta
      /\ batch'.delta = {} /\ batch'.processed = batch.processed \cup batch.delta
  BY <1>1 DEF TakeTick, TakeDelta, Batch
<1>4. TypeOK'
  BY <1>1, <1>2, <1>3, BatchTypes DEF TypeOK
<1>5. batch.tick = {}
  BY <1>1, <1>2 DEF TriggerInv
<1>6. \A i \in Inputs : Accounted(i)' <=> Accounted(i)
  BY <1>2, <1>3, <1>5 DEF Accounted
<1>7. TriggerInv'
  <2>1. Live'
    BY <1>2 DEF Live, Accepting
  <2>2. ASSUME NEW i \in Inputs
        PROVE  /\ heard'[i] <= 1 /\ taken'[i] <= 1
               /\ Accounted(i)' \/ i \in batch'.processed =>
                    taken'[i] > 0 /\ \A c \in Conns : (Job(c, "idle") \/ Input(c) # i)'
               /\ i \in batch'.delta => i \notin batch'.tick /\ i \notin lost' /\ heard'[i] = 0
               /\ i \in batch'.tick => i \notin lost' /\ heard'[i] = 0
               /\ i \in lost' => heard'[i] = 0
    BY <1>1, <1>2, <1>3, <1>6 DEF AccountsInv, Accounted, Job, Input
  <2>3. QED BY <1>1, <1>2, <1>3, <2>1, <2>2 DEF TriggerInv, AccountsInv, Topic
<1>8. QED BY <1>2, <1>4, <1>6, <1>7, QuietElsewhere

\* The tick's triggers are submitted.
LEMMA SubmitTickKeeps == ASSUME IInv, SubmitTick PROVE IInv'
<1>1. /\ TypeOK /\ TriggerInv /\ batch \in Batch /\ heard \in [Inputs -> Nat] /\ lost \subseteq Inputs
      /\ Topic # "network" /\ AccountsInv
  BY BatchWorks DEF IInv, TypeOK, SubmitTick
<1>2. /\ batch.ticking
      /\ UNCHANGED <<scenario, told, tries, half, link, ready, view, conn, ledger, session,
                     status, taken, roomVars>>
  BY DEF SubmitTick, client
<1>3. /\ batch' \in Batch /\ batch'.on = batch.on /\ ~batch'.ticking /\ batch'.tick = {}
      /\ batch'.delta = batch.delta /\ batch'.processed = batch.processed
  BY <1>1 DEF SubmitTick, Ticked, Batch
<1>4. \/ /\ lost' = lost
         /\ heard' = [i \in Inputs |-> IF i \in batch.tick THEN heard[i] + 1 ELSE heard[i]]
      \/ lost' = lost \cup batch.tick /\ heard' = heard
  BY DEF SubmitTick, Submitted
<1>5. lost' \subseteq Inputs /\ heard' \in [Inputs -> Nat]
  BY <1>1, <1>4 DEF Batch
<1>6. TypeOK'
  BY <1>1, <1>2, <1>3, <1>5, BatchTypes
<1>7. \A i \in Inputs : Accounted(i)' <=> Accounted(i)
  BY <1>1, <1>3, <1>4 DEF Accounted
<1>8. TriggerInv'
  <2>2. ASSUME NEW i \in Inputs
        PROVE  /\ heard'[i] <= 1 /\ taken'[i] <= 1
               /\ Accounted(i)' \/ i \in batch'.processed =>
                    taken'[i] > 0 /\ \A c \in Conns : (Job(c, "idle") \/ Input(c) # i)'
               /\ i \in batch'.delta => i \notin batch'.tick /\ i \notin lost' /\ heard'[i] = 0
               /\ i \in batch'.tick => i \notin lost' /\ heard'[i] = 0
               /\ i \in lost' => heard'[i] = 0
    BY <1>1, <1>2, <1>3, <1>4, <1>7 DEF TriggerInv, AccountsInv, Job, Input
  <2>3. QED BY <1>1, <1>2, <1>3, <2>2 DEF TriggerInv, AccountsInv, Topic
<1>9. QED BY <1>2, <1>6, <1>7, <1>8, QuietElsewhere

\* The submission fails: its triggers wait for the next tick.
LEMMA TickFailsKeeps == ASSUME IInv, TickFails PROVE IInv'
<1>1. TypeOK /\ TriggerInv /\ batch \in Batch /\ Topic # "network" /\ AccountsInv
  BY BatchWorks DEF IInv, TypeOK, TickFails
<1>2. /\ batch.ticking
      /\ UNCHANGED <<scenario, told, tries, half, link, ready, view, conn, ledger, session,
                     status, taken, heard, lost, roomVars>>
  BY DEF TickFails, client, history
<1>3. batch' = RestoreDelta(batch)
  BY <1>1, <1>2 DEF TickFails, TriggerInv, Live
<1>4. /\ batch' \in Batch /\ batch'.on = batch.on /\ ~batch'.ticking /\ batch'.tick = {}
      /\ batch'.delta = batch.tick \cup batch.delta
      /\ batch'.processed = batch.processed \ batch.tick
  BY <1>1, <1>3 DEF RestoreDelta, Ticked, Batch
<1>5. TypeOK'
  BY <1>1, <1>2, <1>4, BatchTypes DEF TypeOK
<1>6. \A i \in Inputs : Accounted(i)' <=> Accounted(i)
  BY <1>2, <1>4 DEF Accounted
<1>7. TriggerInv'
  <2>2. ASSUME NEW i \in Inputs
        PROVE  /\ heard'[i] <= 1 /\ taken'[i] <= 1
               /\ Accounted(i)' \/ i \in batch'.processed =>
                    taken'[i] > 0 /\ \A c \in Conns : (Job(c, "idle") \/ Input(c) # i)'
               /\ i \in batch'.delta => i \notin batch'.tick /\ i \notin lost' /\ heard'[i] = 0
               /\ i \in batch'.tick => i \notin lost' /\ heard'[i] = 0
               /\ i \in lost' => heard'[i] = 0
    BY <1>1, <1>2, <1>4, <1>6 DEF TriggerInv, AccountsInv, Job, Input
  <2>3. QED BY <1>1, <1>2, <1>4, <2>2 DEF TriggerInv, AccountsInv, Topic
<1>8. QED BY <1>2, <1>5, <1>6, <1>7, QuietElsewhere

\* What still waits in a mode that no longer batches is discarded.
LEMMA DiscardKeeps == ASSUME IInv, DiscardBatch PROVE IInv'
<1>1. /\ TypeOK /\ TriggerInv /\ batch \in Batch /\ lost \subseteq Inputs /\ heard \in [Inputs -> Nat]
      /\ Topic # "network" /\ AccountsInv
  BY BatchWorks DEF IInv, TypeOK, DiscardBatch
<1>2. /\ lost' = lost \cup batch.delta
      /\ UNCHANGED <<scenario, told, tries, half, link, ready, view, conn, ledger, session,
                     status, taken, heard, roomVars>>
  BY DEF DiscardBatch, client
<1>3. /\ batch' \in Batch /\ batch'.on = batch.on /\ batch'.ticking = batch.ticking
      /\ batch'.tick = batch.tick
      /\ batch'.delta = {} /\ batch'.processed = batch.processed \cup batch.delta
  BY <1>1 DEF DiscardBatch, DiscardDelta, Batch
<1>4. TypeOK'
  <2>1. lost' \subseteq Inputs /\ heard' \in [Inputs -> Nat]
    BY <1>1, <1>2 DEF Batch
  <2>2. QED BY <1>1, <1>2, <1>3, <2>1, BatchTypes
<1>5. \A i \in Inputs : Accounted(i)' <=> Accounted(i)
  BY <1>2, <1>3 DEF Accounted
<1>6. TriggerInv'
  <2>2. ASSUME NEW i \in Inputs
        PROVE  /\ heard'[i] <= 1 /\ taken'[i] <= 1
               /\ Accounted(i)' \/ i \in batch'.processed =>
                    taken'[i] > 0 /\ \A c \in Conns : (Job(c, "idle") \/ Input(c) # i)'
               /\ i \in batch'.delta => i \notin batch'.tick /\ i \notin lost' /\ heard'[i] = 0
               /\ i \in batch'.tick => i \notin lost' /\ heard'[i] = 0
               /\ i \in lost' => heard'[i] = 0
    BY <1>1, <1>2, <1>3, <1>5 DEF AccountsInv, Accounted, Job, Input
  <2>3. QED BY <1>1, <1>2, <1>3, <2>2 DEF TriggerInv, AccountsInv, Live, Topic
<1>7. QED BY <1>2, <1>4, <1>5, <1>6, QuietElsewhere

\* A hot update switches the batch on or off.
LEMMA SwitchKeeps == ASSUME IInv, SwitchMode PROVE IInv'
<1>1. TypeOK /\ TriggerInv /\ batch \in Batch
  BY DEF IInv, TypeOK
<1>2. UNCHANGED <<scenario, told, tries, half, link, ready, view, conn, ledger, session,
                  status, taken, heard, lost, roomVars>>
  BY DEF SwitchMode, client, history
<1>3. /\ batch' \in Batch /\ batch'.ticking = batch.ticking /\ batch'.tick = batch.tick
      /\ batch'.delta = batch.delta /\ batch'.processed = batch.processed
  BY <1>1 DEF SwitchMode, Batch
<1>4. TypeOK'
  BY <1>1, <1>2, <1>3, BatchTypes DEF TypeOK
<1>5. \A i \in Inputs : Accounted(i)' <=> Accounted(i)
  BY <1>2, <1>3 DEF Accounted
<1>6. TriggerInv'
  <2>1. Topic # "network" /\ Topic' = Topic /\ AccountsInv
    BY <1>1, <1>2 DEF TriggerInv, SwitchMode, Topic
  <2>2. AccountsInv'
    BY <1>2, <1>3, <1>5, <2>1 DEF AccountsInv, Job, Input
  <2>3. QED BY <1>1, <1>2, <1>3, <2>1, <2>2 DEF TriggerInv, Live
<1>7. QED BY <1>2, <1>4, <1>5, <1>6, QuietElsewhere
-----------------------------------------------------------------------------
(* Service begins.                                                         *)

\* Whatever the ledger remembers was sent.
LEMMA TrackedSent ==
  ASSUME TypeOK, SentInv, Fine(ledger), NEW i, Tracked(ledger, i)
  PROVE  i \in Inputs /\ tries[i] > 0 /\ i <= scenario.count /\ scenario.count \in Nat
<1>1. ledger \in LedgerRec /\ tries \in [Inputs -> 0..2] /\ scenario.count \in Nat
  BY ScenarioAssumption DEF Fine, TypeOK
<1>2. i \in Inputs
  BY <1>1, EntriesTyped DEF Tracked, EntryRec
<1>3. tries[i] > 0
  BY <1>1, <1>2 DEF SentInv
<1>4. QED BY <1>1, <1>2, <1>3 DEF SentInv

\* The books of the entries, when the same ones remain.
LEMMA EntriesKeep ==
  ASSUME WorkInv, Fine(ledger)', Entries(ledger)' = Entries(ledger),
         UNCHANGED <<scenario, taken, session>>, Live,
         ledger'.pending = ledger.pending, ledger'.floor = ledger.floor,
         \A c \in Conns : conn'[c].job = conn[c].job,
         \A c \in Conns : conn[c].state \in {"open", "closing"} => conn'[c].state \in {"open", "closing"}
  PROVE  WorkInv'
<1>1. Live' /\ \A i : /\ Kind(i)' = Kind(i) /\ (TwoPhase(i)' <=> TwoPhase(i))
                       /\ (Unsurpassed(i)' <=> Unsurpassed(i))
                       /\ (FirstTime(i)' <=> FirstTime(i)) /\ (Anew(i)' <=> Anew(i))
  BY DEF Live, Kind, TwoPhase, Unsurpassed, FirstTime, Anew, Topic
<1>2. LedgerInv'
  BY <1>1 DEF WorkInv, LedgerInv
<1>3. \A c \in Conns : Input(c)' = Input(c) /\ \A at : Job(c, at)' <=> Job(c, at)
  BY DEF Input, Job
<1>4. JobInv'
  <2>1. \A c \in Conns : Kept(c)' <=> Kept(c)
    BY <1>1, <1>3 DEF Kept
  <2>2. ASSUME NEW c \in Conns PROVE JobOK(c)'
    <3>1. JobOK(c)
      BY DEF WorkInv, JobInv
    <3>2. QED BY <1>1, <1>3, <2>1, <3>1 DEF JobOK
  <2>3. QED BY <2>2 DEF JobInv
<1>5. PendingIsAttended'
  <2>1. \A c \in Conns : SentOver(ledger, ledger.pending, c)' <=> SentOver(ledger, ledger.pending, c)
    BY DEF SentOver
  <2>2. NoJob' = NoJob
    BY DEF NoJob
  <2>3. QED BY <1>1, <2>1, <2>2 DEF WorkInv, PendingIsAttended
<1>6. QED BY <1>2, <1>4, <1>5 DEF WorkInv

\* The first message of an inbox, taken off.
LEMMA TailShift ==
  ASSUME conn \in [Conns -> ConnRec], NEW c \in Conns, AtHand(c),
         conn'[c].inbox = Tail(conn[c].inbox), \A d \in Conns : d # c => conn'[d] = conn[d]
  PROVE  \A d \in Conns : \E k \in Nat : \A p \in DOMAIN conn'[d].inbox :
           p + k \in DOMAIN conn[d].inbox /\ conn'[d].inbox[p] = conn[d].inbox[p + k]
<1>1. ASSUME NEW d \in Conns
      PROVE  \E k \in Nat : \A p \in DOMAIN conn'[d].inbox :
               p + k \in DOMAIN conn[d].inbox /\ conn'[d].inbox[p] = conn[d].inbox[p + k]
  <2>1. CASE d = c
    <3>1. \A p \in DOMAIN conn'[c].inbox :
            p + 1 \in DOMAIN conn[c].inbox /\ conn'[c].inbox[p] = conn[c].inbox[p + 1]
      BY AtHandFacts
    <3>2. QED BY <2>1, <3>1
  <2>2. CASE d # c
    <3>1. conn'[d].inbox = conn[d].inbox
      BY <2>2
    <3>2. QED BY <3>1, SameInbox
  <2>3. QED BY <2>1, <2>2
<1>2. QED BY <1>1

\* The message at hand, when it is an input's own.
LEMMA MainAtHand ==
  ASSUME conn \in [Conns -> ConnRec], NEW c \in Conns, AtHand(c),
         NEW x \in MessageRec, x = Incoming(c), ~CommitOnly(x)
  PROVE  MainAt(c, 1, x.input) /\ InboxHas(x.input) /\ x.input \in Inputs
<1>1. 1 \in DOMAIN conn[c].inbox /\ x = conn[c].inbox[1]
  BY AtHandFacts
<1>2. QED BY <1>1 DEF MainAt, InboxHas, MessageRec

\* Types of a handler's step.
LEMMA HandlerTypes ==
  ASSUME TypeOK,
         UNCHANGED <<scenario, told, tries, half, link, ready, view, session, status>>,
         conn' \in [Conns -> ConnRec], \A c \in Conns : conn'[c].queue = conn[c].queue,
         Fine(ledger)', Len(ledger'.seen) <= Capacity, batch' \in Batch,
         taken' \in [Inputs -> Nat], heard' \in [Inputs -> Nat], lost' \subseteq Inputs, RoomTypeOK'
  PROVE  TypeOK'
<1>1. ledger' \in LedgerRec
  BY DEF Fine
<1>2. \A c \in Conns : Len(conn'[c].queue) <= QueueCapacity
  BY DEF TypeOK
<1>3. QED BY <1>1, <1>2 DEF TypeOK

\* Connections of a handler's step.
LEMMA HandlerConn ==
  ASSUME TopicInv, ConnInv, UNCHANGED <<scenario, told, link, ready, session>>,
         NEW c \in Conns, \A d \in Conns : d # c => conn'[d] = conn[d],
         conn'[c].state = conn[c].state, conn[c].state \in {"open", "closing"},
         conn'[c].job = NoJob \/ (conn'[c].job.at # "idle" /\ conn'[c].job.input \in Inputs)
  PROVE  TopicInv' /\ ConnInv' /\ session # "down"
<1>1. session # "down"
  BY DEF TopicInv
<1>2. TopicInv'
  BY <1>1 DEF TopicInv, Topic
<1>3. ConnInv'
  <2>1. ASSUME NEW d \in Conns
        PROVE  /\ conn'[d].state \in {"none", "gone"} => conn'[d].inbox = <<>>
               /\ ~Job(d, "idle")' => conn'[d].state \in {"open", "closing"} /\ Input(d)' \in Inputs
               /\ Job(d, "idle")' => conn'[d].job = NoJob'
               /\ link' = d => conn'[d].state \in {"hello", "subscribed", "open"}
    <3>1. CASE d # c
      BY <2>1, <3>1 DEF ConnInv, Job, Input, NoJob
    <3>2. CASE d = c
      BY <2>1, <3>2, NoConnTyped DEF ConnInv, Job, Input, NoJob
    <3>3. QED BY <3>1, <3>2
  <2>2. QED BY <2>1 DEF ConnInv
<1>4. QED BY <1>1, <1>2, <1>3

\* An input that has its receipt is answered from the ledger.
LEMMA AgainKeeps == ASSUME IInv, NEW c \in Conns, ServeAgain(c) PROVE IInv'
<1>1. /\ TypeOK /\ FlightInv /\ TopicInv /\ ConnInv /\ SentInv /\ OnceInv /\ WorkInv /\ LedgerInv
      /\ RoomsInv /\ AckInv /\ TriggerInv
  BY DEF IInv, FlightInv, WorkInv
<1>2. AtHand(c) /\ conn \in [Conns -> ConnRec] /\ Fine(ledger)
  BY <1>1 DEF ServeAgain, TypeOK, LedgerInv
<1>3. PICK x \in MessageRec : x = Incoming(c)
  BY <1>2, AtHandFacts
<1>4. PICK i \in Inputs : i = x.input
  BY DEF MessageRec
<1>5. PICK m \in AnswerRec : m = Ack(x) /\ m.type = "ack" /\ m.input = i /\ m.stage = x.stage
  BY <1>4, AnswerTyped
<1>6. /\ session = "running" /\ HasReceipt(ledger, i, x.stage)
      /\ ledger' = (IF CommitOnly(x) THEN ledger ELSE Touch(ledger, i))
      /\ AnswerNow(c, m)
      /\ UNCHANGED <<scenario, told, tries, half, link, ready, view, session, status, batch,
                     taken, heard, lost, roomVars>>
  BY <1>3, <1>4, <1>5 DEF ServeAgain, Accepting, client, history
<1>7. /\ conn' \in [Conns -> ConnRec]
      /\ \A d \in Conns : d # c => conn'[d] = conn[d]
      /\ conn'[c].job = conn[c].job /\ conn'[c].inbox = Tail(conn[c].inbox)
      /\ conn'[c].outbox \in {conn[c].outbox, Append(conn[c].outbox, m)}
      /\ conn'[c].state = conn[c].state /\ conn'[c].queue = conn[c].queue
  BY <1>2, <1>6, AnswerNowFacts
<1>8. conn[c].job = NoJob /\ conn[c].state \in {"open", "closing"}
  BY <1>2, AtHandFacts
<1>9. Tracked(ledger, i)
  BY <1>6 DEF HasReceipt
<1>10. /\ Fine(ledger)' /\ Entries(ledger)' = Entries(ledger) /\ ledger'.floor = ledger.floor
       /\ ledger'.pending = ledger.pending /\ Len(ledger'.seen) = Len(ledger.seen)
  <2>1. PICK l : l = ledger
    OBVIOUS
  <2>2. Fine(l) /\ Tracked(l, i)
    BY <1>2, <1>9, <2>1
  <2>3. /\ Fine(Touch(l, i)) /\ Entries(Touch(l, i)) = Entries(l)
        /\ Touch(l, i).floor = l.floor /\ Touch(l, i).pending = l.pending
        /\ Len(Touch(l, i).seen) = Len(l.seen)
    BY <2>2, TouchFacts
  <2>4. PICK r : r = Touch(l, i)
    OBVIOUS
  <2>5. ledger' = l \/ ledger' = r
    BY <1>6, <2>1, <2>4
  <2>6. CASE ledger' = l
    BY <1>2, <2>1, <2>6 DEF Fine, Entries
  <2>7. CASE ledger' = r
    BY <2>1, <2>3, <2>4, <2>7 DEF Fine, Entries
  <2>8. QED BY <2>5, <2>6, <2>7
<1>11. \A d \in Conns : conn'[d].job = conn[d].job /\ conn'[d].state = conn[d].state /\ conn'[d].queue = conn[d].queue
  BY <1>7
<1>12. TypeOK'
  <2>1. RoomTypeOK'
    BY <1>1, <1>6 DEF TypeOK, RoomTypeOK, roomVars
  <2>2. Len(ledger'.seen) <= Capacity
    BY <1>1, <1>10 DEF TypeOK
  <2>3. /\ batch' \in Batch /\ taken' \in [Inputs -> Nat] /\ heard' \in [Inputs -> Nat]
        /\ lost' \subseteq Inputs
    BY <1>1, <1>6 DEF TypeOK
  <2>4. QED BY <1>1, <1>6, <1>7, <1>10, <1>11, <2>1, <2>2, <2>3, HandlerTypes
<1>13. TopicInv' /\ ConnInv'
  BY <1>1, <1>6, <1>7, <1>8, HandlerConn
<1>14. FlightInv'
  <2>1. \A j \in Inputs : (Serving(j)' <=> Serving(j)) /\ (Tracked(ledger, j)' <=> Tracked(ledger, j))
    BY <1>10, <1>11 DEF Serving, Input, Job, Tracked
  <2>2. Counting' <=> Counting
    BY <1>6 DEF Counting
  <2>3. \A k \in Kinds : ledger.floor[k] <= ledger'.floor[k]
    BY <1>1, <1>10 DEF TypeOK, LedgerRec
  <2>4. \A d \in Conns : \E k \in Nat : \A p \in DOMAIN conn'[d].inbox :
           p + k \in DOMAIN conn[d].inbox /\ conn'[d].inbox[p] = conn[d].inbox[p + k]
    BY <1>2, <1>7, TailShift
  <2>5. Onward({})
    BY <1>6, <2>1, <2>2, <2>3, <2>4 DEF Onward
  <2>6. QED BY <1>1, <1>12, <1>13, <2>5, FlightKeeps
<1>15. WorkInv'
  <2>1. Live
    BY <1>6 DEF Live
  <2>2. UNCHANGED <<scenario, taken, session>>
    BY <1>6
  <2>3. \A d \in Conns : conn[d].state \in {"open", "closing"} => conn'[d].state \in {"open", "closing"}
    BY <1>11
  <2>4. QED BY <1>1, <1>10, <1>11, <2>1, <2>2, <2>3, EntriesKeep
<1>16. RoomsInv'
  BY <1>1, <1>6, <1>11, RoomsKeep
<1>17. TriggerInv'
  BY <1>1, <1>6, <1>11, TriggerKeeps
<1>18. \A j \in Inputs : Accounted(j) => Accounted(j)'
  BY <1>6 DEF Accounted
<1>19. AckOK(m)'
  <2>1. Kind(i) # "audio" \/ x.stage = "committed" => taken[i] > 0
    <3>1. PICK l : l = ledger
      OBVIOUS
    <3>2. EntryOf(l, i) \in Entries(l) /\ EntryOf(l, i).id = i
      BY <1>2, <1>9, <3>1, EntryFound
    <3>3. x.stage \in EntryOf(l, i).receipts
      BY <1>6, <3>1 DEF HasReceipt
    <3>4. PICK e \in Entries(ledger) : e.id = i /\ x.stage \in e.receipts
      BY <3>1, <3>2, <3>3
    <3>5. QED BY <1>1, <3>4 DEF LedgerInv
  <2>2. ~(Topic = "batch" /\ Kind(i) = "text")
    <3>1. SUFFICES ASSUME Topic = "batch", Kind(i) = "text" PROVE FALSE
      OBVIOUS
    <3>2. tries[i] <= 1
      BY <1>1, <3>1 DEF SentInv, TypeOK
    <3>3. ~CommitOnly(x)
      BY <1>4, <3>1 DEF CommitOnly, TwoPhase
    <3>4. MainAt(c, 1, i)
      BY <1>2, <1>3, <1>4, <3>3, MainAtHand
    <3>5. QED BY <1>1, <1>9, <3>2, <3>4 DEF OnceInv
  <2>3. QED BY <1>5, <1>6, <2>1, <2>2 DEF AckOK, Kind, Topic, Accounted
<1>20. AckInv'
  <2>1. \A p \in DOMAIN conn'[c].outbox :
           \/ AckOK(conn[c].outbox[p])'
           \/ \E q \in DOMAIN conn[c].outbox : conn'[c].outbox[p] = conn[c].outbox[q]
    BY <1>2, <1>7, <1>19, SaidFacts
  <2>2. \A d \in Conns : \A p \in DOMAIN conn'[d].outbox :
           \/ AckOK(conn[d].outbox[p])'
           \/ \E q \in DOMAIN conn[d].outbox : conn'[d].outbox[p] = conn[d].outbox[q]
    BY <1>7, <2>1
  <2>3. scenario' = scenario /\ (\A j \in Inputs : taken[j] > 0 => taken'[j] > 0)
        /\ \A j \in Inputs : told'[j] = "acked" => told[j] = "acked"
    BY <1>6
  <2>4. QED BY <1>1, <1>2, <1>7, <1>18, <2>2, <2>3, AckKeeps
<1>21. QED BY <1>12, <1>14, <1>15, <1>16, <1>17, <1>20 DEF IInv

\* What a reservation leaves in the ledger.
Reserved(c, i) ==
    /\ Fine(ledger)' /\ Len(ledger'.seen) <= Capacity
    /\ ledger'.pending = IF Kind(i) = "audio" THEN i ELSE ledger.pending
    /\ Kind(i) = "audio" => ledger.pending = None
    /\ Entry(i, Kind(i), c) \in Entries(ledger)'
    /\ \A x \in Entries(ledger)' : x \in Entries(ledger) \/ x = Entry(i, Kind(i), c)
    /\ \A x \in Entries(ledger) :
         \/ x \in Entries(ledger)'
         \/ /\ x.accepted /\ x.id # ledger.pending /\ x.id <= ledger'.floor[x.kind]
            /\ Len(ledger.seen) = Capacity
    /\ OneDropped(ledger, ledger')
    /\ \A k \in Kinds : ledger.floor[k] <= ledger'.floor[k]

\* A stranger: an input that nobody remembers or serves.  It was taken only if
\* it was dropped since.
Stranger(c, i) ==
    /\ told[i] # "unsent" /\ tries[i] > 0 /\ Anew(i) /\ (Kind(i) = "text" => taken[i] = 0)
    /\ ~Tracked(ledger, i) /\ ~Serving(i) /\ Unsurpassed(i)
    /\ \A d \in Conns, p \in Nat : tries[i] <= 1 /\ MainAt(d, p, i) => d = c /\ p = 1
    /\ \A e \in Entries(ledger) : e.kind = Kind(i) => e.id < i

\* A fresh input has a reservation of its own.
LEMMA FreshFacts ==
  ASSUME IInv, NEW c \in Conns, AtHand(c), NEW x \in MessageRec, x = Incoming(c), ~CommitOnly(x),
         NEW i \in Inputs, i = x.input, Fresh(c, x), ledger' = Reserve(ledger, i, Kind(i), c)
  PROVE  session = "running" /\ Reserved(c, i) /\ Stranger(c, i)
<1>1. /\ TypeOK /\ SentInv /\ OnceInv /\ CoveredInv /\ TopicInv /\ LedgerInv /\ JobInv
  BY DEF IInv, FlightInv, WorkInv
<1>2. conn \in [Conns -> ConnRec] /\ Fine(ledger) /\ Len(ledger.seen) <= Capacity
  BY <1>1 DEF TypeOK, LedgerInv
<1>3. /\ session = "running" /\ ~OutOfOrder(ledger, i, Kind(i))
      /\ Reserve(ledger, i, Kind(i), c) # None
  BY DEF Fresh, Refusable, Accepting
<1>4. PICK k \in Kinds : k = Kind(i)
  BY <1>1, ScenarioAssumption DEF TypeOK, Kind
<1>5. PICK b \in Nat : b = scenario.count
  BY <1>1, ScenarioAssumption DEF TypeOK
<1>6. PICK l : l = ledger
  OBVIOUS
<1>7. \A y \in Entries(l) : y.id <= b
  BY <1>1, <1>2, <1>5, <1>6, TrackedSent DEF Tracked
<1>8. PICK r : r = Reserve(l, i, k, c)
  OBVIOUS
<1>9. Fine(l) /\ Len(l.seen) <= Capacity /\ ~OutOfOrder(l, i, k) /\ Reserve(l, i, k, c) # None
  BY <1>2, <1>3, <1>4, <1>6
<1>10. /\ Fine(r) /\ Len(r.seen) <= Capacity
       /\ r.pending = IF k = "audio" THEN i ELSE l.pending
       /\ k = "audio" => l.pending = None
       /\ ~Tracked(l, i) /\ Entry(i, k, c) \in Entries(r)
       /\ \A y \in Entries(r) : y \in Entries(l) \/ y = Entry(i, k, c)
       /\ \A y \in Entries(l) :
            \/ y \in Entries(r)
            \/ /\ y.accepted /\ y.id # l.pending /\ y.id <= r.floor[y.kind]
               /\ Len(l.seen) = Capacity
       /\ OneDropped(l, r)
       /\ \A j \in Kinds : l.floor[j] <= r.floor[j]
       /\ l.floor[k] <= i /\ \A y \in Entries(l) : y.kind = k => y.id <= i
  BY <1>7, <1>8, <1>9, ReserveFacts
<1>11. ledger' = r
  BY <1>4, <1>6, <1>8
<1>12. MainAt(c, 1, i) /\ InboxHas(i)
  BY <1>2, MainAtHand
<1>13. told[i] # "unsent"
  BY <1>1, <1>12 DEF SentInv
<1>14. tries[i] > 0
  <2>1. tries[i] # 0
    BY <1>1, <1>13 DEF SentInv
  <2>2. tries[i] \in 0..2
    BY <1>1 DEF TypeOK
  <2>3. QED BY <2>1, <2>2
<1>15. ~Tracked(ledger, i)
  BY <1>6, <1>10
<1>16. Anew(i) /\ (Kind(i) = "text" => taken[i] = 0)
  <2>1. CASE tries[i] <= 1
    BY <1>1, <1>12, <2>1 DEF OnceInv, Anew
  <2>2. CASE tries[i] = 2
    <3>1. Topic = "network" /\ Kind(i) # "text"
      BY <1>1, <2>2 DEF SentInv
    <3>2. CASE taken[i] > 0
      <4>1. ~Behind(i)
        BY <1>12, ConnAssumption DEF Behind
      <4>2. i <= ledger.floor[Kind(i)]
        BY <1>1, <1>3, <1>15, <3>2, <4>1 DEF CoveredInv, Counting
      <4>3. QED BY <3>1, <4>2 DEF Anew
    <3>3. taken[i] = 0 \/ taken[i] > 0
      BY <1>1 DEF TypeOK
    <3>4. QED BY <3>1, <3>2, <3>3 DEF Anew
  <2>3. tries[i] \in 0..2
    BY <1>1 DEF TypeOK
  <2>4. QED BY <2>1, <2>2, <2>3
<1>17. ~Serving(i)
  <2>1. SUFFICES ASSUME NEW d \in Conns, ~Job(d, "idle"), Input(d) = i PROVE FALSE
    BY DEF Serving
  <2>2. Kept(d)
    BY <1>1, <1>3, <2>1 DEF JobInv, JobOK, Live
  <2>3. QED BY <1>15, <2>1, <2>2 DEF Kept, Tracked
<1>18. Unsurpassed(i)
  <2>1. SUFFICES ASSUME NEW j \in Inputs, Kind(j) = k, j > i, taken[j] # 0 PROVE FALSE
    BY <1>4 DEF Unsurpassed
  <2>2. taken[j] > 0
    BY <1>1, <2>1 DEF TypeOK
  <2>3. Tracked(ledger, j) \/ j <= ledger.floor[Kind(j)] \/ Behind(j)
    BY <1>1, <1>3, <2>2 DEF CoveredInv, Counting
  <2>4. i \in Nat /\ j \in Nat /\ l.floor[k] \in Nat
    BY <1>4, <1>9, ConnAssumption DEF Fine, LedgerRec
  <2>5. CASE Tracked(ledger, j)
    <3>1. PICK e \in Entries(l) : e.id = j
      BY <1>6, <2>5 DEF Tracked
    <3>2. e.kind = k
      BY <1>1, <1>6, <2>1, <3>1 DEF LedgerInv
    <3>3. QED BY <1>10, <2>1, <2>4, <3>1, <3>2
  <2>6. CASE j <= ledger.floor[Kind(j)]
    BY <1>6, <1>10, <2>1, <2>4, <2>6
  <2>7. CASE Behind(j)
    BY <1>12, <2>1, <2>4, <2>7 DEF Behind
  <2>8. QED BY <2>3, <2>5, <2>6, <2>7
<1>19. \A e \in Entries(ledger) : e.kind = Kind(i) => e.id < i
  <2>1. ASSUME NEW e \in Entries(l), e.kind = k PROVE e.id < i
    <3>1. e.id <= i /\ e.id # i
      BY <1>6, <1>10, <1>15, <2>1 DEF Tracked
    <3>2. e.id \in Nat /\ i \in Nat
      BY <1>9, EntriesTyped, ConnAssumption DEF Fine, EntryRec
    <3>3. QED BY <3>1, <3>2
  <2>2. QED BY <1>4, <1>6, <2>1
<1>20. \A d \in Conns, p \in Nat : tries[i] <= 1 /\ MainAt(d, p, i) => d = c /\ p = 1
  BY <1>1, <1>12 DEF OnceInv
<1>22. Reserved(c, i)
  BY <1>4, <1>6, <1>10, <1>11 DEF Reserved, Fine, Entries
<1>23. QED BY <1>3, <1>13, <1>14, <1>15, <1>16, <1>17, <1>18, <1>19, <1>20, <1>22 DEF Stranger

Starts(c, i, at) ==
    /\ AtHand(c)
    /\ conn' \in [Conns -> ConnRec]
    /\ \A d \in Conns : d # c => conn'[d] = conn[d]
    /\ conn'[c].job = [input |-> i, at |-> at]
    /\ conn'[c].inbox = Tail(conn[c].inbox) /\ conn'[c].outbox = conn[c].outbox
    /\ conn'[c].state = conn[c].state /\ conn'[c].queue = conn[c].queue

\* Handlers around one that begins.
LEMMA StartJobs ==
  ASSUME TypeOK, NEW c \in Conns, NEW i \in Inputs, NEW at \in {"line", "observe", "push", "commit"},
         Starts(c, i, at)
  PROVE  /\ conn[c].state \in {"open", "closing"} /\ Job(c, "idle") /\ conn[c].job = NoJob
         /\ Input(c)' = i /\ ~Job(c, "idle")' /\ conn'[c].job # NoJob
         /\ \A a : Job(c, a)' <=> a = at
         /\ \A d \in Conns : d # c => Input(d)' = Input(d) /\ \A a : Job(d, a)' <=> Job(d, a)
         /\ \A j : Serving(j)' => Serving(j) \/ j = i
         /\ \A j \in Inputs, d \in Conns, p \in Nat : MainAt(d, p, j)' /\ scenario' = scenario =>
              p > 0 /\ MainAt(d, p + (IF d = c THEN 1 ELSE 0), j)
<1>1. conn \in [Conns -> ConnRec] /\ AtHand(c)
  BY DEF TypeOK, Starts
<1>2. conn[c].job = NoJob /\ conn[c].state \in {"open", "closing"}
  BY <1>1, AtHandFacts
<1>3. /\ Job(c, "idle") /\ Input(c)' = i /\ ~Job(c, "idle")' /\ conn'[c].job # NoJob
      /\ \A a : Job(c, a)' <=> a = at
  BY <1>2, NoConnTyped DEF Starts, Job, Input
<1>4. \A d \in Conns : d # c => Input(d)' = Input(d) /\ \A a : Job(d, a)' <=> Job(d, a)
  BY DEF Starts, Job, Input
<1>5. ASSUME NEW j, Serving(j)' PROVE Serving(j) \/ j = i
  <2>1. PICK d \in Conns : ~Job(d, "idle")' /\ Input(d)' = j
    BY <1>5 DEF Serving
  <2>2. CASE d = c
    BY <1>3, <2>1, <2>2
  <2>3. CASE d # c
    BY <1>4, <2>1, <2>3 DEF Serving
  <2>4. QED BY <2>2, <2>3
<1>6. ASSUME NEW j \in Inputs, NEW d \in Conns, NEW p \in Nat, MainAt(d, p, j)', scenario' = scenario
      PROVE  p > 0 /\ MainAt(d, p + (IF d = c THEN 1 ELSE 0), j)
  <2>1. /\ p \in DOMAIN conn'[d].inbox /\ conn'[d].inbox[p].input = j
        /\ ~CommitOnly(conn'[d].inbox[p])
    BY <1>6 DEF MainAt, CommitOnly, TwoPhase, Kind
  <2>2. p > 0
    <3>1. PICK s \in Seq(MessageRec) : s = conn'[d].inbox
      BY ConnTyped DEF Starts, ConnRec
    <3>2. p \in 1..Len(s)
      BY <2>1, <3>1
    <3>3. QED BY <3>2
  <2>3. CASE d = c
    <3>1. p + 1 \in DOMAIN conn[c].inbox /\ conn'[c].inbox[p] = conn[c].inbox[p + 1]
      <4>1. conn'[c].inbox = Tail(conn[c].inbox) /\ p \in DOMAIN Tail(conn[c].inbox)
        BY <2>1, <2>3 DEF Starts
      <4>2. p + 1 \in DOMAIN conn[c].inbox /\ Tail(conn[c].inbox)[p] = conn[c].inbox[p + 1]
        BY <1>1, <4>1, AtHandFacts
      <4>3. QED BY <4>1, <4>2
    <3>2. QED BY <2>1, <2>2, <2>3, <3>1 DEF MainAt
  <2>4. CASE d # c
    <3>1. conn'[d] = conn[d] /\ p + 0 = p
      BY <2>4 DEF Starts
    <3>2. QED BY <2>1, <2>2, <2>4, <3>1 DEF MainAt
  <2>5. QED BY <2>3, <2>4
<1>7. QED BY <1>2, <1>3, <1>4, <1>5, <1>6

\* A fresh input's service keeps what is said of messages in flight.
LEMMA NewFlight ==
  ASSUME IInv, TypeOK', NEW c \in Conns, NEW i \in Inputs, NEW at \in {"line", "observe", "push"},
         session = "running", Reserved(c, i), Stranger(c, i), Starts(c, i, at),
         UNCHANGED <<scenario, told, tries, half, link, ready, session>>,
         taken' = taken \/ taken' = [taken EXCEPT ![i] = @ + 1]
  PROVE  FlightInv'
<1>1. TypeOK /\ FlightInv /\ TopicInv /\ ConnInv /\ LedgerInv /\ conn \in [Conns -> ConnRec]
  BY DEF IInv, FlightInv, WorkInv, TypeOK
<1>2. conn[c].state \in {"open", "closing"}
  BY <1>1, StartJobs
<1>3. TopicInv' /\ ConnInv'
  <2>1. conn'[c].job.at # "idle" /\ conn'[c].job.input \in Inputs
    BY DEF Starts
  <2>2. conn'[c].state = conn[c].state /\ \A d \in Conns : d # c => conn'[d] = conn[d]
    BY DEF Starts
  <2>3. QED BY <1>1, <1>2, <2>1, <2>2, HandlerConn
<1>4. Counting' /\ Counting
  BY DEF Counting
<1>5. ASSUME NEW j \in Inputs, Tracked(ledger, j)' PROVE Tracked(ledger, j) \/ j = i
  <2>1. PICK e \in Entries(ledger)' : e.id = j
    BY <1>5 DEF Tracked
  <2>2. QED BY <2>1 DEF Reserved, Tracked, Entry
<1>6. Tracked(ledger, i)'
  BY DEF Reserved, Tracked, Entry
<1>7. ASSUME NEW j \in Inputs, Tracked(ledger, j)
      PROVE  Tracked(ledger, j)' \/ j <= ledger'.floor[Kind(j)]
  <2>1. PICK e \in Entries(ledger) : e.id = j
    BY <1>7 DEF Tracked
  <2>2. e.kind = Kind(j)
    BY <1>1, <2>1 DEF LedgerInv
  <2>3. QED BY <2>1, <2>2 DEF Reserved, Tracked
<1>8. \A k \in Kinds : ledger.floor[k] <= ledger'.floor[k]
  BY DEF Reserved
<1>9. \A j \in Inputs : Serving(j)' => Serving(j) \/ j = i
  BY <1>1, StartJobs
<1>10. ASSUME tries[i] <= 1, NEW d \in Conns, NEW p \in Nat, MainAt(d, p, i)' PROVE FALSE
  <2>1. p > 0 /\ MainAt(d, p + (IF d = c THEN 1 ELSE 0), i)
    BY <1>1, <1>10, StartJobs
  <2>2. PICK q \in Nat : q = p + (IF d = c THEN 1 ELSE 0)
    OBVIOUS
  <2>3. d = c /\ q = 1
    BY <1>10, <2>1, <2>2 DEF Stranger
  <2>4. QED BY <2>1, <2>2, <2>3
<1>11. \A d \in Conns : \E k \in Nat : \A p \in DOMAIN conn'[d].inbox :
          p + k \in DOMAIN conn[d].inbox /\ conn'[d].inbox[p] = conn[d].inbox[p + k]
  BY <1>1, TailShift DEF Starts
<1>12. ASSUME NEW j \in Inputs
       PROVE  \/ taken'[j] = taken[j]
              \/ /\ taken'[j] > 0 /\ (j \in {i} \/ Serving(j))
                 /\ Counting' => Tracked(ledger, j)'
  BY <1>1, <1>6 DEF TypeOK
<1>13. \A j \in {i} : told[j] # "unsent" /\ \A d \in Conns, p \in Nat : tries[j] <= 1 => ~MainAt(d, p, j)'
  BY <1>10 DEF Stranger
<1>14. Onward({i})
  BY <1>4, <1>5, <1>7, <1>8, <1>9, <1>11, <1>12, <1>13 DEF Onward
<1>15. QED BY <1>1, <1>3, <1>14, FlightKeeps

\* An input of another kind surpasses nobody.
LEMMA UnsurpassedKeeps ==
  ASSUME taken \in [Inputs -> Nat], NEW i, NEW j, Unsurpassed(j), scenario' = scenario,
         taken' = taken \/ (taken' = [taken EXCEPT ![i] = @ + 1] /\ Kind(i) # Kind(j))
  PROVE  Unsurpassed(j)'
BY DEF Unsurpassed, Kind

\* What is taken now is taken once more.
LEMMA OnceMore ==
  ASSUME taken \in [Inputs -> Nat], NEW i \in Inputs,
         taken' = taken \/ taken' = [taken EXCEPT ![i] = @ + 1]
  PROVE  /\ taken' \in [Inputs -> Nat]
         /\ \A j \in Inputs : taken[j] <= taken'[j] /\ (taken[j] > 0 => taken'[j] > 0)
OBVIOUS

\* What was dropped stays so, as the floors only rise.
LEMMA AnewKeeps ==
  ASSUME TypeOK, NEW i \in Inputs, Anew(i), scenario' = scenario, taken'[i] = taken[i],
         ledger' \in LedgerRec, \A k \in Kinds : ledger.floor[k] <= ledger'.floor[k]
  PROVE  Anew(i)'
<1>1. PICK k \in Kinds : k = Kind(i)
  BY ScenarioAssumption DEF TypeOK, Kind
<1>2. i \in Nat /\ ledger.floor[k] \in Nat /\ ledger'.floor[k] \in Nat
  BY ConnAssumption DEF TypeOK, LedgerRec
<1>3. i <= ledger.floor[k] => i <= ledger'.floor[k]
  BY <1>2
<1>4. Topic' = Topic /\ Kind(i)' = k
  BY <1>1 DEF Topic, Kind
<1>5. QED BY <1>1, <1>3, <1>4 DEF Anew

\* A fresh input's service keeps the ledger and the handlers in agreement.
LEMMA NewWork ==
  ASSUME IInv, NEW c \in Conns, NEW i \in Inputs, NEW at \in {"line", "observe", "push"},
         session = "running", Reserved(c, i), Stranger(c, i), Starts(c, i, at),
         UNCHANGED <<scenario, session>>,
         \/ at = "line" /\ Kind(i) = "text" /\ taken' = taken
         \/ at = "observe" /\ Kind(i) = "frame" /\ taken' = [taken EXCEPT ![i] = @ + 1]
         \/ at = "push" /\ Kind(i) = "audio" /\ taken' = taken
  PROVE  WorkInv'
<1>1. TypeOK /\ LedgerInv /\ JobInv /\ PendingIsAttended /\ taken \in [Inputs -> Nat]
  BY DEF IInv, WorkInv, TypeOK
<1>2. Live /\ Live' /\ i # None /\ None \notin Inputs /\ ledger \in LedgerRec
  BY <1>1, NoneAssumption, ConnAssumption DEF Live, TypeOK
<1>3. /\ \A j : Kind(j)' = Kind(j) /\ (TwoPhase(j)' <=> TwoPhase(j))
      /\ \A j \in Inputs : taken[j] > 0 => taken'[j] > 0
  BY <1>1 DEF Kind, TwoPhase
<1>4. ASSUME NEW j, Unsurpassed(j), Kind(j) # "frame" PROVE Unsurpassed(j)'
  BY <1>1, <1>4, UnsurpassedKeeps
<1>5. /\ Input(c)' = i /\ ~Job(c, "idle")' /\ conn'[c].job # NoJob /\ Job(c, "idle")
      /\ \A a : Job(c, a)' <=> a = at
      /\ \A d \in Conns : d # c => Input(d)' = Input(d) /\ \A a : Job(d, a)' <=> Job(d, a)
  BY <1>1, StartJobs
<1>6. ASSUME NEW e \in Entries(ledger), ~e.accepted \/ e.id = ledger.pending
      PROVE  e \in Entries(ledger)'
  BY <1>6 DEF Reserved
<1>7. LedgerInv'
  <2>1. ASSUME NEW e \in Entries(ledger)'
        PROVE  /\ e.kind = Kind(e.id)
               /\ \A r \in e.receipts : e.kind # "audio" \/ r = "committed" => taken'[e.id] > 0
    <3>1. CASE e \in Entries(ledger)
      <4>1. e.id \in Inputs
        BY <1>2, <3>1, EntriesTyped DEF EntryRec
      <4>2. QED BY <1>1, <1>3, <3>1, <4>1 DEF LedgerInv
    <3>2. CASE e = Entry(i, Kind(i), c)
      BY <3>2 DEF Entry
    <3>3. QED BY <2>1, <3>1, <3>2 DEF Reserved
  <2>2. ASSUME ledger'.pending # None
        PROVE  /\ Kind(ledger'.pending) = "audio" /\ Anew(ledger.pending)'
               /\ Unsurpassed(ledger.pending)'
    <3>1. CASE Kind(i) = "audio"
      <4>1. ledger'.pending = i /\ taken' = taken /\ Anew(i) /\ Unsurpassed(i)'
        BY <1>4, <3>1 DEF Reserved, Stranger
      <4>2. Anew(i)'
        BY <1>1, <4>1, AnewKeeps DEF Reserved, Fine
      <4>3. QED BY <3>1, <4>1, <4>2 DEF Unsurpassed, Anew
    <3>2. CASE Kind(i) # "audio"
      <4>1. ledger'.pending = ledger.pending /\ ledger.pending # None
        BY <2>2, <3>2 DEF Reserved
      <4>2. PICK j \in Inputs : j = ledger.pending
        BY <1>2, <4>1 DEF LedgerRec
      <4>3. Kind(j) = "audio" /\ Anew(j) /\ Unsurpassed(j)
        BY <1>1, <4>1, <4>2 DEF LedgerInv
      <4>4. taken'[j] = taken[j]
        BY <1>1, <3>2, <4>3
      <4>5. Unsurpassed(j)' /\ Anew(j)'
        BY <1>1, <1>4, <4>3, <4>4, AnewKeeps DEF Reserved, Fine
      <4>6. QED BY <4>1, <4>2, <4>3, <4>5 DEF Unsurpassed, Anew
    <3>3. QED BY <3>1, <3>2
  <2>3. QED BY <1>2, <1>3, <2>1, <2>2 DEF LedgerInv, Reserved
<1>8. ASSUME NEW d \in Conns, d # c, ~Job(d, "idle")
      PROVE  JobOK(d)' /\ Input(d) # i /\ ~(Kind(i) = "audio" /\ Kind(Input(d)) = "audio")
  <2>1. JobOK(d) /\ Kept(d)
    BY <1>1, <1>2, <1>8 DEF JobInv, JobOK
  <2>2. Input(d) # i
    BY <1>8 DEF Stranger, Serving
  <2>3. PICK e \in Entries(ledger) : /\ e.id = Input(d) /\ e.conn = d
                                     /\ (Kind(Input(d)) # "audio" => ~e.accepted)
    BY <2>1 DEF Kept
  <2>4. Kind(Input(d)) = "audio" => ledger.pending = Input(d)
    BY <2>1 DEF Kept
  <2>5. e \in Entries(ledger)'
    BY <1>6, <2>3, <2>4
  <2>6. Input(d) \in Inputs
    BY <1>2, <2>3, EntriesTyped DEF EntryRec
  <2>7. ~(Kind(i) = "audio" /\ Kind(Input(d)) = "audio")
    BY <1>2, <2>4, <2>6 DEF Reserved
  <2>8. Kept(d)'
    <3>1. Kind(Input(d)) = "audio" => ledger'.pending = Input(d)
      BY <2>4, <2>7 DEF Reserved
    <3>2. QED BY <1>3, <1>5, <1>8, <2>3, <2>5, <3>1 DEF Kept
  <2>9. taken'[Input(d)] = taken[Input(d)]
    BY <1>1, <2>2, <2>6
  <2>10. ASSUME NEW b \in Conns, b # d, ~Job(b, "idle")'
         PROVE  Input(b)' # Input(d) /\ (Kind(Input(d)) = "audio" => Kind(Input(b)') # "audio")
    <3>1. CASE b = c
      BY <1>5, <2>2, <2>7, <3>1
    <3>2. CASE b # c
      <4>1. ~Job(b, "idle") /\ Input(b)' = Input(b)
        BY <1>5, <2>10, <3>2
      <4>2. QED BY <1>8, <2>1, <2>10, <4>1 DEF JobOK
    <3>3. QED BY <3>1, <3>2
  <2>11. /\ Job(d, "line") => Kind(Input(d)) = "text" /\ (taken[Input(d)] = 0 => Unsurpassed(Input(d)))
         /\ Job(d, "observe") => Kind(Input(d)) # "audio" /\ taken[Input(d)] > 0
         /\ Job(d, "push") \/ Job(d, "commit") =>
               Kind(Input(d)) = "audio" /\ FirstTime(Input(d)) /\ Unsurpassed(Input(d))
    BY <1>8, <2>1 DEF JobOK
  <2>12. PICK j \in Inputs : j = Input(d)
    BY <2>6
  <2>13. /\ Job(d, "line") => (taken[j] = 0 => Unsurpassed(j)')
         /\ Job(d, "push") \/ Job(d, "commit") => Unsurpassed(j)' /\ FirstTime(j)'
    BY <1>4, <2>9, <2>11, <2>12 DEF FirstTime, Topic
  <2>14. JobOK(d)'
    <3>1. Input(d)' = j /\ \A a : Job(d, a)' <=> Job(d, a)
      BY <1>5, <1>8, <2>12
    <3>2. (Unsurpassed(j)' => Unsurpassed(Input(d))') /\ (FirstTime(j)' => FirstTime(Input(d))')
      BY <3>1 DEF Unsurpassed, FirstTime
    <3>3. QED BY <1>3, <2>8, <2>9, <2>10, <2>11, <2>12, <2>13, <3>1, <3>2 DEF JobOK
  <2>15. QED BY <2>2, <2>7, <2>14
<1>9. JobOK(c)'
  <2>1. Kept(c)'
    <3>1. /\ Entry(i, Kind(i), c).id = i /\ Entry(i, Kind(i), c).conn = c
          /\ ~Entry(i, Kind(i), c).accepted
      BY DEF Entry
    <3>2. Kind(i) = "audio" => ledger'.pending = i
      BY DEF Reserved
    <3>3. QED BY <1>3, <1>5, <3>1, <3>2 DEF Kept, Reserved
  <2>2. at # "observe" => FirstTime(i)' /\ Unsurpassed(i)'
    BY <1>4 DEF Stranger, Anew, FirstTime, Topic
  <2>3. at = "observe" => taken'[i] > 0
    BY <1>1
  <2>4. (Unsurpassed(i)' => Unsurpassed(Input(c))') /\ (FirstTime(i)' => FirstTime(Input(c))')
    BY <1>5 DEF Unsurpassed, FirstTime
  <2>5. ASSUME NEW d \in Conns, d # c, ~Job(d, "idle")'
        PROVE  Input(d)' # i /\ (Kind(i) = "audio" => Kind(Input(d)') # "audio")
    <3>1. ~Job(d, "idle") /\ Input(d)' = Input(d)
      BY <1>5, <2>5
    <3>2. QED BY <1>8, <2>5, <3>1
  <2>6. QED BY <1>3, <1>5, <2>1, <2>2, <2>3, <2>4, <2>5 DEF JobOK
<1>10. JobInv'
  <2>1. ASSUME NEW d \in Conns PROVE JobOK(d)'
    <3>1. CASE d = c
      BY <1>9, <3>1
    <3>2. CASE d # c /\ ~Job(d, "idle")
      BY <1>8, <3>2
    <3>3. CASE d # c /\ Job(d, "idle")
      BY <1>5, <3>3 DEF JobOK
    <3>4. QED BY <3>1, <3>2, <3>3
  <2>2. QED BY <2>1 DEF JobInv
<1>11. PendingIsAttended'
  <2>1. SUFFICES ASSUME ledger'.pending # None
                 PROVE  \E d \in Conns :
                          \/ conn'[d].job.input = ledger'.pending /\ conn'[d].job # NoJob'
                          \/ /\ TwoPhase(ledger.pending)'
                             /\ SentOver(ledger, ledger.pending, d)'
                             /\ conn'[d].state \in {"open", "closing"}
    BY DEF PendingIsAttended
  <2>2. NoJob' = NoJob
    BY DEF NoJob
  <2>3. CASE Kind(i) = "audio"
    <3>1. ledger'.pending = i
      BY <2>3 DEF Reserved
    <3>2. conn'[c].job.input = i /\ conn'[c].job # NoJob
      BY <1>5 DEF Starts
    <3>3. QED BY <2>2, <3>1, <3>2
  <2>4. CASE Kind(i) # "audio"
    <3>1. ledger'.pending = ledger.pending /\ ledger.pending # None
      BY <2>1, <2>4 DEF Reserved
    <3>2. PICK d \in Conns :
            \/ conn[d].job.input = ledger.pending /\ conn[d].job # NoJob
            \/ /\ TwoPhase(ledger.pending)
               /\ SentOver(ledger, ledger.pending, d)
               /\ conn[d].state \in {"open", "closing"}
      BY <1>1, <3>1 DEF PendingIsAttended
    <3>3. CASE conn[d].job.input = ledger.pending /\ conn[d].job # NoJob
      <4>1. d # c
        BY <1>1, <3>3, StartJobs
      <4>2. conn'[d] = conn[d]
        BY <4>1 DEF Starts
      <4>3. QED BY <2>2, <3>1, <3>3, <4>2
    <3>4. CASE /\ TwoPhase(ledger.pending)
               /\ SentOver(ledger, ledger.pending, d)
               /\ conn[d].state \in {"open", "closing"}
      <4>1. PICK e \in Entries(ledger) : e.id = ledger.pending /\ e.conn = d
        BY <3>4 DEF SentOver
      <4>2. e \in Entries(ledger)'
        BY <1>6, <4>1
      <4>3. SentOver(ledger, ledger.pending, d)'
        BY <3>1, <4>1, <4>2 DEF SentOver
      <4>4. conn'[d].state = conn[d].state
        BY DEF Starts
      <4>5. TwoPhase(ledger.pending)'
        BY <3>1, <3>4 DEF TwoPhase, Kind
      <4>6. QED BY <3>4, <4>3, <4>4, <4>5
    <3>5. QED BY <3>2, <3>3, <3>4
  <2>5. QED BY <2>3, <2>4
<1>12. QED BY <1>7, <1>10, <1>11 DEF WorkInv

\* A message taken up is a handler that begins.
LEMMA TakeUpStarts ==
  ASSUME TypeOK, NEW c \in Conns, AtHand(c), NEW i, i = Incoming(c).input,
         NEW at \in {"line", "observe", "push", "commit"}, TakeUp(c, at)
  PROVE  Starts(c, i, at) /\ \A d \in Conns : conn'[d].queue = conn[d].queue
BY TakeUpFacts DEF Starts, TypeOK

\* Observations stay behind what was taken while nothing new is observed.
LEMMA CountKeeps ==
  ASSUME TypeOK, CountInv, UNCHANGED <<heard, lost, batch>>, taken' \in [Inputs -> Nat],
         \A i \in Inputs : taken[i] <= taken'[i],
         \A c \in Conns : Owed(c)' => \/ Owed(c) /\ Input(c)' = Input(c)
                                      \/ heard[Input(c)'] < taken'[Input(c)']
  PROVE  CountInv'
<1>1. heard \in [Inputs -> Nat] /\ taken \in [Inputs -> Nat]
  BY DEF TypeOK
<1>2. ASSUME NEW i \in Inputs PROVE heard[i] <= taken'[i]
  BY <1>1 DEF CountInv
<1>3. ASSUME NEW c \in Conns, Owed(c)' PROVE heard[Input(c)'] < taken'[Input(c)']
  <2>1. PICK j \in Inputs : j = Input(c)'
    BY <1>3 DEF Owed
  <2>2. CASE Owed(c) /\ Input(c)' = Input(c)
    <3>1. heard[j] < taken[j]
      BY <2>1, <2>2 DEF CountInv
    <3>2. QED BY <1>1, <2>1, <3>1
  <2>3. QED BY <1>3, <2>2
<1>4. QED BY <1>2, <1>3 DEF CountInv

\* A service that begins touches no trigger.
LEMMA StartTrigger ==
  ASSUME TypeOK, TriggerInv, NEW c \in Conns, NEW i \in Inputs,
         NEW at \in {"line", "observe", "push", "commit"}, Starts(c, i, at),
         UNCHANGED <<scenario, session, heard, lost, batch>>,
         FirstTime(i), at = "line" => taken[i] = 0,
         \/ at # "observe" /\ taken' = taken
         \/ at = "observe" /\ taken' = [taken EXCEPT ![i] = @ + 1]
  PROVE  TriggerInv'
<1>1. /\ taken \in [Inputs -> Nat] /\ taken' \in [Inputs -> Nat]
      /\ \A j \in Inputs : taken[j] <= taken'[j]
  <2>1. taken \in [Inputs -> Nat]
    BY DEF TypeOK
  <2>2. QED BY <2>1, OnceMore
<1>2. /\ Input(c)' = i /\ \A a : Job(c, a)' <=> a = at
      /\ \A d \in Conns : d # c => Input(d)' = Input(d) /\ \A a : Job(d, a)' <=> Job(d, a)
  BY StartJobs
<1>3. (Live' <=> Live) /\ Topic' = Topic
  BY DEF Live, Topic
<1>4. ASSUME Topic # "network", NEW j \in Inputs
      PROVE  /\ heard'[j] <= 1 /\ taken'[j] <= 1
             /\ Accounted(j)' \/ j \in batch'.processed =>
                  taken'[j] > 0 /\ \A d \in Conns : (Job(d, "idle") \/ Input(d) # j)'
  <2>0. taken[i] = 0 /\ AccountsInv
    BY <1>4 DEF FirstTime, TriggerInv
  <2>1. heard'[j] <= 1 /\ taken'[j] <= 1
    BY <1>1, <2>0 DEF AccountsInv
  <2>2. ASSUME Accounted(j)' \/ j \in batch'.processed
        PROVE  taken'[j] > 0 /\ \A d \in Conns : (Job(d, "idle") \/ Input(d) # j)'
    <3>1. taken[j] > 0 /\ \A d \in Conns : (Job(d, "idle") \/ Input(d) # j)
      BY <2>0, <2>2 DEF AccountsInv, Accounted
    <3>2. taken'[j] > 0 /\ i # j
      BY <1>1, <2>0, <3>1
    <3>3. QED BY <1>2, <3>1, <3>2
  <2>3. QED BY <2>1, <2>2
<1>5. Topic # "network" => AccountsInv'
  BY <1>4 DEF TriggerInv, AccountsInv
<1>6. ASSUME CountInv, NEW d \in Conns, Owed(d)'
      PROVE  (Owed(d) /\ Input(d)' = Input(d)) \/ heard[Input(d)'] < taken'[Input(d)']
  <2>1. CASE d = c
    <3>1. at = "observe" /\ taken'[i] = taken[i] + 1
      BY <1>1, <1>2, <1>6, <2>1 DEF Owed
    <3>2. heard[i] <= taken[i] /\ heard[i] \in Nat /\ taken[i] \in Nat
      BY <1>6 DEF CountInv, TypeOK
    <3>3. QED BY <1>2, <2>1, <3>1, <3>2
  <2>2. CASE d # c
    <3>1. PICK j \in Inputs : j = Input(d) /\ Input(d)' = j
      BY <1>2, <1>6, <2>2 DEF Owed
    <3>2. heard[j] <= taken[j] /\ heard[j] \in Nat /\ taken[j] \in Nat
      BY <1>6 DEF CountInv, TypeOK
    <3>3. CASE taken'[j] = taken[j]
      BY <1>2, <1>6, <2>2, <3>1, <3>3 DEF Owed
    <3>4. CASE taken'[j] # taken[j]
      BY <1>1, <3>1, <3>2, <3>4
    <3>5. QED BY <3>3, <3>4
  <2>3. QED BY <2>1, <2>2
<1>7. Topic = "network" => CountInv'
  BY <1>1, <1>6, CountKeeps DEF TriggerInv
<1>8. QED BY <1>3, <1>5, <1>7 DEF TriggerInv

\* Nor does it make an acknowledgement false.
LEMMA StartAcks ==
  ASSUME IInv, NEW c \in Conns, NEW i \in Inputs, NEW at, Starts(c, i, at),
         UNCHANGED <<scenario, told, heard, lost, batch>>,
         taken' = taken \/ taken' = [taken EXCEPT ![i] = @ + 1]
  PROVE  AckInv'
<1>1. AckInv /\ conn \in [Conns -> ConnRec] /\ taken \in [Inputs -> Nat] /\ conn' \in [Conns -> ConnRec]
  BY DEF IInv, TypeOK, Starts
<1>2. \A d \in Conns : \A p \in DOMAIN conn'[d].outbox :
         \E q \in DOMAIN conn[d].outbox : conn'[d].outbox[p] = conn[d].outbox[q]
  <2>1. \A d \in Conns : conn'[d].outbox = conn[d].outbox
    BY DEF Starts
  <2>2. QED BY <2>1
<1>3. \A j \in Inputs : Accounted(j) => Accounted(j)'
  BY DEF Accounted
<1>4. \A j \in Inputs : taken[j] > 0 => taken'[j] > 0
  BY <1>1
<1>5. \A j \in Inputs : told'[j] = "acked" => told[j] = "acked"
  OBVIOUS
<1>6. scenario' = scenario
  OBVIOUS
<1>7. QED BY <1>1, <1>2, <1>3, <1>4, <1>5, <1>6, AckKeeps

\* A handler that takes up no text stays out of the line.
LEMMA StartRooms ==
  ASSUME TypeOK, RoomsInv, JobInv, ConnInv, NEW c \in Conns, NEW i \in Inputs,
         NEW at \in {"observe", "push", "commit"}, Starts(c, i, at),
         UNCHANGED <<scenario, session, roomVars>>,
         taken' = taken \/ (taken' = [taken EXCEPT ![i] = @ + 1] /\ Kind(i) # "text")
  PROVE  RoomsInv'
<1>1. /\ LineInv /\ RoomInv /\ taken \in [Inputs -> Nat] /\ UNCHANGED <<rows, active, events, next, line>>
  BY DEF RoomsInv, TypeOK, roomVars
<1>2. /\ Job(c, "idle") /\ \A a : Job(c, a)' <=> a = at
      /\ \A d \in Conns : d # c => Input(d)' = Input(d) /\ \A a : Job(d, a)' <=> Job(d, a)
  BY StartJobs
<1>3. ASSUME NEW p \in DOMAIN line
      PROVE  \/ line'[p].writer = Viewer /\ line'[p].event = Viewer
             \/ /\ line'[p].writer \in Conns /\ line'[p].event \in Inputs
                /\ conn'[line'[p].writer].job = [input |-> line'[p].event, at |-> "line"]
                /\ line'[p].written <=> taken'[line'[p].event] > 0
  <2>1. CASE line[p].writer = Viewer /\ line[p].event = Viewer
    BY <1>1, <2>1
  <2>2. CASE /\ line[p].writer \in Conns /\ line[p].event \in Inputs
             /\ conn[line[p].writer].job = [input |-> line[p].event, at |-> "line"]
             /\ line[p].written <=> taken[line[p].event] > 0
    <3>1. PICK d \in Conns, j \in Inputs : d = line[p].writer /\ j = line[p].event
      BY <2>2
    <3>2. conn[d].job = [input |-> j, at |-> "line"]
      BY <2>2, <3>1
    <3>3. Job(d, "line") /\ ~Job(d, "idle") /\ Input(d) = j
      BY <3>2 DEF Job, Input
    <3>4. Kind(j) = "text" /\ d # c
      BY <1>2, <3>3 DEF JobInv, JobOK
    <3>5. conn'[d] = conn[d] /\ taken'[j] = taken[j]
      BY <1>1, <3>4 DEF Starts
    <3>6. QED BY <1>1, <2>2, <3>1, <3>2, <3>5
  <2>3. QED BY <1>1, <2>1, <2>2 DEF LineInv
<1>4. \A d \in Conns : Job(d, "line")' => InLine(d)'
  BY <1>1, <1>2 DEF LineInv, InLine
<1>5. LineInv'
  BY <1>1, <1>3, <1>4 DEF LineInv
<1>6. RoomInv'
  BY <1>1 DEF RoomInv, RoomMatchesLog
<1>7. QED BY <1>5, <1>6 DEF RoomsInv

\* What begins the service of a new input.
LEMMA NewKeeps ==
  ASSUME IInv, NEW c \in Conns, NEW i \in Inputs, NEW at \in {"line", "observe", "push"},
         session = "running", Reserved(c, i), Stranger(c, i), Starts(c, i, at),
         \A d \in Conns : conn'[d].queue = conn[d].queue,
         UNCHANGED <<scenario, told, tries, half, link, ready, view, session, status, batch,
                     heard, lost>>,
         RoomTypeOK', RoomsInv',
         \/ at = "line" /\ Kind(i) = "text" /\ taken' = taken
         \/ at = "observe" /\ Kind(i) = "frame" /\ taken' = [taken EXCEPT ![i] = @ + 1]
         \/ at = "push" /\ Kind(i) = "audio" /\ taken' = taken
  PROVE  IInv'
<1>1. TypeOK /\ TriggerInv /\ taken \in [Inputs -> Nat]
  BY DEF IInv, TypeOK
<1>2. taken' \in [Inputs -> Nat]
  BY <1>1
<1>3. taken' = taken \/ taken' = [taken EXCEPT ![i] = @ + 1]
  OBVIOUS
<1>4. TypeOK'
  <2>1. Fine(ledger)' /\ Len(ledger'.seen) <= Capacity
    BY DEF Reserved
  <2>2. conn' \in [Conns -> ConnRec]
    BY DEF Starts
  <2>3. batch' \in Batch /\ heard' \in [Inputs -> Nat] /\ lost' \subseteq Inputs
    BY <1>1 DEF TypeOK
  <2>4. QED BY <1>1, <1>2, <2>1, <2>2, <2>3, HandlerTypes
<1>5. FlightInv'
  BY <1>3, <1>4, NewFlight
<1>6. WorkInv'
  BY NewWork
<1>7. AckInv'
  BY <1>3, StartAcks
<1>8. TriggerInv'
  <2>1. FirstTime(i) /\ (at = "line" => taken[i] = 0)
    BY DEF Stranger, Anew, FirstTime
  <2>2. \/ at # "observe" /\ taken' = taken
        \/ at = "observe" /\ taken' = [taken EXCEPT ![i] = @ + 1]
    OBVIOUS
  <2>3. at \in {"line", "observe", "push", "commit"}
    OBVIOUS
  <2>4. QED BY <1>1, <2>1, <2>2, <2>3, StartTrigger
<1>9. QED BY <1>4, <1>5, <1>6, <1>7, <1>8 DEF IInv

\* A frame is reserved and taken, and goes on to the observation.
LEMMA FrameKeeps == ASSUME IInv, NEW c \in Conns, ServeFrame(c) PROVE IInv'
<1>1. /\ TypeOK /\ RoomsInv /\ JobInv /\ ConnInv /\ conn \in [Conns -> ConnRec] /\ AtHand(c)
      /\ taken \in [Inputs -> Nat]
  BY DEF IInv, FlightInv, WorkInv, TypeOK, ServeFrame
<1>2. PICK x \in MessageRec : x = Incoming(c)
  BY <1>1, AtHandFacts
<1>3. PICK i \in Inputs : i = x.input
  BY DEF MessageRec
<1>4. /\ Kind(i) = "frame" /\ Fresh(c, x) /\ ledger' = Reserve(ledger, i, Kind(i), c)
      /\ taken' = [taken EXCEPT ![i] = @ + 1] /\ TakeUp(c, "observe")
      /\ UNCHANGED <<scenario, told, tries, half, link, ready, view, session, status, batch,
                     heard, lost, roomVars>>
  BY <1>2, <1>3 DEF ServeFrame, client
<1>5. ~CommitOnly(x)
  BY <1>3, <1>4 DEF CommitOnly, TwoPhase
<1>6. session = "running" /\ Reserved(c, i) /\ Stranger(c, i)
  BY <1>1, <1>2, <1>3, <1>4, <1>5, FreshFacts
<1>8. Starts(c, i, "observe") /\ \A d \in Conns : conn'[d].queue = conn[d].queue
  BY <1>1, <1>2, <1>3, <1>4, TakeUpStarts
<1>9. RoomsInv'
  BY <1>1, <1>4, <1>8, StartRooms
<1>10. RoomTypeOK'
  BY <1>1, <1>4 DEF TypeOK, RoomTypeOK, roomVars
<1>11. QED BY <1>4, <1>6, <1>8, <1>9, <1>10, NewKeeps

\* An audio segment is reserved, and its source with it.
LEMMA AudioKeeps == ASSUME IInv, NEW c \in Conns, ServeAudio(c) PROVE IInv'
<1>1. /\ TypeOK /\ RoomsInv /\ JobInv /\ ConnInv /\ conn \in [Conns -> ConnRec] /\ AtHand(c)
  BY DEF IInv, FlightInv, WorkInv, TypeOK, ServeAudio
<1>2. PICK x \in MessageRec : x = Incoming(c)
  BY <1>1, AtHandFacts
<1>3. PICK i \in Inputs : i = x.input
  BY DEF MessageRec
<1>4. /\ Kind(i) = "audio" /\ ~CommitOnly(x) /\ Fresh(c, x)
      /\ ledger' = Reserve(ledger, i, Kind(i), c) /\ TakeUp(c, "push")
      /\ UNCHANGED <<scenario, told, tries, half, link, ready, view, session, status, batch,
                     taken, heard, lost, roomVars>>
  BY <1>2, <1>3 DEF ServeAudio, client, history
<1>5. session = "running" /\ Reserved(c, i) /\ Stranger(c, i)
  BY <1>1, <1>2, <1>3, <1>4, FreshFacts
<1>6. Starts(c, i, "push") /\ \A d \in Conns : conn'[d].queue = conn[d].queue
  BY <1>1, <1>2, <1>3, <1>4, TakeUpStarts
<1>7. RoomsInv'
  BY <1>1, <1>4, <1>6, StartRooms
<1>8. RoomTypeOK'
  BY <1>1, <1>4 DEF TypeOK, RoomTypeOK, roomVars
<1>9. QED BY <1>4, <1>5, <1>6, <1>7, <1>8, NewKeeps

\* The order of a sequence with a member appended.
LEMMA AppendOrder ==
  ASSUME NEW S, NEW s \in Seq(S), NEW w \in S
  PROVE  LET t == Append(s, w) IN
         /\ t \in Seq(S) /\ t # <<>> /\ 1 \in DOMAIN t
         /\ Len(s) + 1 \in DOMAIN t /\ t[Len(s) + 1] = w
         /\ \A p \in DOMAIN s : p \in DOMAIN t /\ t[p] = s[p] /\ p < Len(s) + 1
         /\ t[1] = IF s = <<>> THEN w ELSE s[1]
         /\ Head(t) = t[1] /\ (s # <<>> => Head(s) = s[1] /\ 1 \in DOMAIN s)
         /\ DOMAIN t \subseteq Nat
<1> DEFINE t == Append(s, w)
<1>1. t \in Seq(S) /\ Len(t) = Len(s) + 1 /\ Len(s) \in Nat
  OBVIOUS
<1>2. t[Len(s) + 1] = w /\ \A p \in 1..Len(s) : t[p] = s[p]
  BY <1>1
<1>3. DOMAIN t = 1..Len(s)+1 /\ DOMAIN s = 1..Len(s)
  BY <1>1
<1>5. s # <<>> => Head(s) = s[1] /\ 1 \in DOMAIN s
  OBVIOUS
<1>6. s = <<>> => Len(s) = 0
  OBVIOUS
<1> HIDE DEF t
<1>4. t # <<>>
  <2>1. t = <<>> => Len(t) = 0
    OBVIOUS
  <2>2. Len(s) + 1 # 0
    BY <1>1
  <2>3. QED BY <1>1, <2>1, <2>2
<1>7. Head(t) = t[1]
  BY <1>1, <1>4
<1>8. 1 \in DOMAIN t /\ Len(s) + 1 \in DOMAIN t /\ DOMAIN t \subseteq Nat
  BY <1>1, <1>3
<1>9. \A p \in DOMAIN s : p \in DOMAIN t /\ t[p] = s[p] /\ p < Len(s) + 1
  BY <1>1, <1>2, <1>3
<1>10. t[1] = IF s = <<>> THEN w ELSE s[1]
  BY <1>2, <1>5, <1>6, <1>9
<1>11. QED BY <1>1, <1>2, <1>4, <1>5, <1>7, <1>8, <1>9, <1>10 DEF t

\* Every job in line is a text that the ledger remembers.
LEMMA InLineFacts ==
  ASSUME LineInv, JobInv, LedgerInv, Fine(ledger), NEW p \in DOMAIN line, line[p].writer # Viewer
  PROVE  /\ line[p].writer \in Conns /\ line[p].event \in Inputs
         /\ Job(line[p].writer, "line") /\ Input(line[p].writer) = line[p].event
         /\ Kind(line[p].event) = "text"
         /\ Live => \E e \in Entries(ledger) : e.id = line[p].event /\ e.kind = "text"
<1>1. PICK d \in Conns, j \in Inputs :
        d = line[p].writer /\ j = line[p].event /\ conn[d].job = [input |-> j, at |-> "line"]
  BY DEF LineInv
<1>2. Job(d, "line") /\ ~Job(d, "idle") /\ Input(d) = j
  BY <1>1 DEF Job, Input
<1>3. JobOK(d)
  BY DEF JobInv
<1>4. Kind(j) = "text"
  BY <1>2, <1>3 DEF JobOK
<1>5. Live => \E e \in Entries(ledger) : e.id = j /\ e.kind = "text"
  BY <1>2, <1>3, <1>4 DEF JobOK, Kept, LedgerInv
<1>6. QED BY <1>1, <1>2, <1>4, <1>5

\* The viewer stands in line with nothing of the desktop's.
LEMMA ViewerLine ==
  ASSUME LineInv, NEW p \in DOMAIN line, line[p].writer = Viewer PROVE line[p].event = Viewer
<1>1. Viewer \notin Conns
  BY ConnAssumption DEF Viewer
<1>2. QED BY <1>1 DEF LineInv

\* A text joins the room's line behind the texts before it.
LEMMA TextRooms ==
  ASSUME TypeOK, RoomsInv, JobInv, LedgerInv, NEW c \in Conns, NEW i \in Inputs,
         session = "running", Stranger(c, i), Kind(i) = "text", Starts(c, i, "line"),
         Queue(c, i), UNCHANGED <<scenario, session, taken, rows, active, events, next>>
  PROVE  RoomsInv' /\ RoomTypeOK'
<1>1. LineInv /\ RoomInv /\ Fine(ledger) /\ RoomTypeOK
  BY DEF RoomsInv, LedgerInv, TypeOK
<1>2. PICK s \in Seq(Writing) : s = line
  BY <1>1 DEF RoomTypeOK
<1>3. Viewer \notin Conns /\ Viewer \notin Inputs /\ Conns \subseteq Writers /\ Inputs \subseteq Events
  BY ConnAssumption, RoomAssumption DEF Viewer
<1>4. PICK w \in Writing : w = [writer |-> c, event |-> i, written |-> FALSE]
  BY <1>3 DEF Writing
<1>5. w.writer = c /\ w.event = i /\ w.written = FALSE
  BY <1>4
<1>6. PICK t \in Seq(Writing) : t = Append(s, w)
  BY AppendTyped
<1>7. line' = t
  BY <1>2, <1>4, <1>6 DEF Queue
<1>8. /\ t # <<>> /\ 1 \in DOMAIN t
      /\ Len(s) + 1 \in DOMAIN t /\ t[Len(s) + 1] = w
      /\ \A p \in DOMAIN s : p \in DOMAIN t /\ t[p] = s[p] /\ p < Len(s) + 1
      /\ t[1] = IF s = <<>> THEN w ELSE s[1]
      /\ Head(t) = t[1] /\ (s # <<>> => Head(s) = s[1] /\ 1 \in DOMAIN s)
      /\ DOMAIN t \subseteq Nat
  BY <1>6, AppendOrder
<1>9. \A p \in DOMAIN t : (p \in DOMAIN s /\ t[p] = s[p]) \/ (p = Len(s) + 1 /\ t[p] = w)
  BY <1>6, AppendPlaces
<1>10. /\ Job(c, "idle") /\ conn[c].job = NoJob /\ \A a : Job(c, a)' <=> a = "line"
       /\ \A d \in Conns : d # c => Input(d)' = Input(d) /\ \A a : Job(d, a)' <=> Job(d, a)
  BY StartJobs
<1>11. ASSUME NEW p \in DOMAIN s
       PROVE  /\ s[p].writer # c
              /\ s[p].event # Viewer => s[p].event < i
  <2>1. CASE s[p].writer = Viewer /\ s[p].event = Viewer
    BY <1>3, <2>1
  <2>2. CASE s[p].writer # Viewer
    <3>1. /\ s[p].writer \in Conns /\ s[p].event \in Inputs
          /\ Job(s[p].writer, "line")
          /\ Live => \E e \in Entries(ledger) : e.id = s[p].event /\ e.kind = "text"
      BY <1>1, <1>2, <2>2, InLineFacts
    <3>2. s[p].writer # c
      BY <1>10, <3>1 DEF Job
    <3>3. Live
      BY DEF Live
    <3>4. QED BY <3>1, <3>2, <3>3 DEF Stranger
  <2>3. s[p].writer = Viewer => s[p].event = Viewer
    BY <1>1, <1>2, ViewerLine
  <2>4. QED BY <2>1, <2>2, <2>3
<1>12. ASSUME NEW p \in DOMAIN t
       PROVE  \/ t[p].writer = Viewer /\ t[p].event = Viewer
              \/ /\ t[p].writer \in Conns /\ t[p].event \in Inputs
                 /\ conn'[t[p].writer].job = [input |-> t[p].event, at |-> "line"]
                 /\ t[p].written <=> taken'[t[p].event] > 0
  <2>1. CASE p \in DOMAIN s /\ t[p] = s[p]
    <3>1. s[p].writer # c
      BY <1>11, <2>1
    <3>2. \/ s[p].writer = Viewer /\ s[p].event = Viewer
          \/ /\ s[p].writer \in Conns /\ s[p].event \in Inputs
             /\ conn[s[p].writer].job = [input |-> s[p].event, at |-> "line"]
             /\ s[p].written <=> taken[s[p].event] > 0
      BY <1>1, <1>2, <2>1 DEF LineInv
    <3>3. QED BY <2>1, <3>1, <3>2 DEF Starts
  <2>2. CASE t[p] = w
    BY <1>5, <2>2 DEF Starts, Stranger
  <2>3. QED BY <1>9, <2>1, <2>2
<1>13. ASSUME NEW d \in Conns, Job(d, "line")' PROVE InLine(d)'
  <2>1. CASE d = c
    BY <1>5, <1>7, <1>8, <2>1 DEF InLine
  <2>2. CASE d # c
    <3>1. PICK p \in DOMAIN s : s[p].writer = d
      BY <1>1, <1>2, <1>10, <1>13, <2>2 DEF LineInv, InLine
    <3>2. p \in DOMAIN t /\ t[p].writer = d
      BY <1>8, <3>1
    <3>3. QED BY <1>7, <3>2 DEF InLine
  <2>3. QED BY <2>1, <2>2
<1>14. ASSUME NEW p \in DOMAIN t, NEW q \in DOMAIN t, p < q
       PROVE  /\ t[p].writer # t[q].writer
              /\ t[p].event # Viewer /\ t[q].event # Viewer => t[p].event < t[q].event
  <2>1. p \in Nat /\ q \in Nat /\ Len(s) \in Nat
    BY <1>8, <1>14, LenNat
  <2>2. p \in DOMAIN s /\ t[p] = s[p]
    <3>1. CASE p = Len(s) + 1
      <4>1. q \in DOMAIN s \/ q = Len(s) + 1
        BY <1>9
      <4>2. q <= Len(s) + 1
        BY <1>8, <2>1, <4>1
      <4>3. QED BY <1>14, <2>1, <3>1, <4>2
    <3>2. QED BY <1>9, <3>1
  <2>3. CASE q \in DOMAIN s /\ t[q] = s[q]
    BY <1>1, <1>2, <1>14, <2>2, <2>3 DEF LineInv
  <2>4. CASE t[q] = w
    BY <1>5, <1>11, <2>2, <2>4
  <2>5. QED BY <1>9, <2>3, <2>4
<1>15. active /\ active'
  BY <1>1 DEF RoomInv
<1>16. LineInv'
  BY <1>7, <1>12, <1>13, <1>14, <1>15 DEF LineInv
<1>17. RoomInv'
  <2>1. line' # <<>> /\ line'[1].written => line # <<>> /\ line[1].written /\ line'[1] = line[1]
    BY <1>2, <1>5, <1>7, <1>8
  <2>2. (line' # <<>> /\ Head(line').written) <=> (line # <<>> /\ Head(line).written)
    BY <1>2, <1>5, <1>7, <1>8
  <2>3. RoomMatchesLog'
    BY <1>1, <2>2 DEF RoomInv, RoomMatchesLog
  <2>4. QED BY <1>1, <2>1, <2>3 DEF RoomInv
<1>18. RoomTypeOK'
  <2>1. \A p \in DOMAIN t : t[p].written => p = 1
    BY <1>1, <1>2, <1>5, <1>9 DEF RoomTypeOK
  <2>2. QED BY <1>1, <1>7, <2>1 DEF RoomTypeOK
<1>19. QED BY <1>16, <1>17, <1>18 DEF RoomsInv

\* A text is reserved and waits for the room's lock.
LEMMA TextKeeps == ASSUME IInv, NEW c \in Conns, ServeText(c) PROVE IInv'
<1>1. /\ TypeOK /\ RoomsInv /\ JobInv /\ LedgerInv /\ conn \in [Conns -> ConnRec] /\ AtHand(c)
  BY DEF IInv, FlightInv, WorkInv, TypeOK, ServeText
<1>2. PICK x \in MessageRec : x = Incoming(c)
  BY <1>1, AtHandFacts
<1>3. PICK i \in Inputs : i = x.input
  BY DEF MessageRec
<1>4. /\ Kind(i) = "text" /\ Fresh(c, x) /\ ledger' = Reserve(ledger, i, Kind(i), c)
      /\ TakeUp(c, "line") /\ Queue(c, i)
      /\ UNCHANGED <<scenario, told, tries, half, link, ready, view, session, status, batch,
                     taken, heard, lost, rows, active, events, next>>
  BY <1>2, <1>3 DEF ServeText, client, history
<1>5. ~CommitOnly(x)
  BY <1>3, <1>4 DEF CommitOnly, TwoPhase
<1>6. session = "running" /\ Reserved(c, i) /\ Stranger(c, i)
  BY <1>1, <1>2, <1>3, <1>4, <1>5, FreshFacts
<1>7. Starts(c, i, "line") /\ \A d \in Conns : conn'[d].queue = conn[d].queue
  BY <1>1, <1>2, <1>3, <1>4, TakeUpStarts
<1>8. RoomsInv' /\ RoomTypeOK'
  BY <1>1, <1>4, <1>6, <1>7, TextRooms
<1>9. QED BY <1>4, <1>6, <1>7, <1>8, NewKeeps

\* An input has one entry.
LEMMA OneEntry ==
  ASSUME Fine(ledger), NEW e \in Entries(ledger), NEW f \in Entries(ledger), e.id = f.id PROVE e = f
<1>1. PICK l \in LedgerRec : l = ledger
  BY DEF Fine
<1>2. PICK p \in DOMAIN l.seen : l.seen[p] = e
  BY <1>1, EntriesTyped
<1>3. PICK q \in DOMAIN l.seen : l.seen[q] = f
  BY <1>1, EntriesTyped
<1>4. QED BY <1>1, <1>2, <1>3 DEF Fine

\* The commit of an audio whose body the provider has.
LEMMA CommitServed == ASSUME IInv, NEW c \in Conns, ServeCommit(c) PROVE IInv'
<1>1. /\ TypeOK /\ FlightInv /\ TopicInv /\ ConnInv /\ OnceInv /\ SentInv /\ RoomsInv /\ JobInv
      /\ LedgerInv /\ Fine(ledger) /\ TriggerInv /\ conn \in [Conns -> ConnRec] /\ AtHand(c)
  BY DEF IInv, FlightInv, WorkInv, LedgerInv, TypeOK, ServeCommit
<1>2. PICK x \in MessageRec : x = Incoming(c)
  BY <1>1, AtHandFacts
<1>3. PICK i \in Inputs : i = x.input
  BY DEF MessageRec
<1>4. /\ CommitOnly(x) /\ Fresh(c, x) /\ TakeUp(c, "commit")
      /\ UNCHANGED <<scenario, told, tries, half, link, ready, view, ledger, session, status, batch,
                     taken, heard, lost, roomVars>>
  BY <1>2, <1>3 DEF ServeCommit, client, history
<1>5. session = "running" /\ ledger.pending = i /\ SentOver(ledger, i, c)
  BY <1>3, <1>4 DEF Fresh, Refusable, Accepting
<1>6. Starts(c, i, "commit") /\ \A d \in Conns : conn'[d].queue = conn[d].queue
  BY <1>1, <1>2, <1>3, <1>4, TakeUpStarts
<1>7. /\ Input(c)' = i /\ ~Job(c, "idle")' /\ conn'[c].job # NoJob /\ Job(c, "idle")
      /\ \A a : Job(c, a)' <=> a = "commit"
      /\ \A d \in Conns : d # c => Input(d)' = Input(d) /\ \A a : Job(d, a)' <=> Job(d, a)
      /\ \A j : Serving(j)' => Serving(j) \/ j = i
      /\ conn[c].state \in {"open", "closing"}
  BY <1>1, <1>6, StartJobs
<1>8. i # None /\ Kind(i) = "audio" /\ FirstTime(i) /\ Unsurpassed(i)
  BY <1>1, <1>5, NoneAssumption, ConnAssumption DEF LedgerInv, Anew, FirstTime
<1>9. PICK e \in Entries(ledger) : e.id = i /\ e.conn = c
  BY <1>5 DEF SentOver
<1>10. TypeOK'
  <2>1. Fine(ledger)' /\ Len(ledger'.seen) <= Capacity
    BY <1>1, <1>4 DEF Fine, TypeOK
  <2>2. conn' \in [Conns -> ConnRec]
    BY <1>6 DEF Starts
  <2>3. /\ batch' \in Batch /\ taken' \in [Inputs -> Nat] /\ heard' \in [Inputs -> Nat]
        /\ lost' \subseteq Inputs
    BY <1>1, <1>4 DEF TypeOK
  <2>4. RoomTypeOK'
    BY <1>1, <1>4 DEF TypeOK, RoomTypeOK, roomVars
  <2>5. QED BY <1>1, <1>4, <1>6, <2>1, <2>2, <2>3, <2>4, HandlerTypes
<1>11. FlightInv'
  <2>1. TopicInv' /\ ConnInv'
    <3>1. conn'[c].job.at # "idle" /\ conn'[c].job.input \in Inputs
      BY <1>6 DEF Starts
    <3>2. conn'[c].state = conn[c].state /\ \A d \in Conns : d # c => conn'[d] = conn[d]
      BY <1>6 DEF Starts
    <3>3. QED BY <1>1, <1>4, <1>7, <3>1, <3>2, HandlerConn
  <2>2. Counting' <=> Counting
    BY <1>4 DEF Counting
  <2>3. \A j \in Inputs : Tracked(ledger, j)' <=> Tracked(ledger, j)
    BY <1>4 DEF Tracked, Entries
  <2>4. \A k \in Kinds : ledger.floor[k] <= ledger'.floor[k]
    BY <1>1, <1>4 DEF TypeOK, LedgerRec
  <2>5. \A d \in Conns : \E k \in Nat : \A p \in DOMAIN conn'[d].inbox :
          p + k \in DOMAIN conn[d].inbox /\ conn'[d].inbox[p] = conn[d].inbox[p + k]
    BY <1>1, <1>6, TailShift DEF Starts
  <2>6. Tracked(ledger, i)
    BY <1>9 DEF Tracked
  <2>7. told[i] # "unsent"
    BY <1>1, <2>6 DEF SentInv
  <2>8. ASSUME tries[i] <= 1, NEW d \in Conns, NEW p \in Nat, MainAt(d, p, i)' PROVE FALSE
    <3>1. p > 0 /\ MainAt(d, p + (IF d = c THEN 1 ELSE 0), i)
      BY <1>1, <1>4, <1>6, <2>8, StartJobs
    <3>2. PICK q \in Nat : q = p + (IF d = c THEN 1 ELSE 0)
      OBVIOUS
    <3>3. QED BY <1>1, <2>6, <2>8, <3>1, <3>2 DEF OnceInv
  <2>9. \A j \in {i} : told[j] # "unsent" /\ \A d \in Conns, p \in Nat : tries[j] <= 1 => ~MainAt(d, p, j)'
    BY <2>7, <2>8
  <2>10. Onward({i})
    BY <1>4, <1>7, <2>2, <2>3, <2>4, <2>5, <2>9 DEF Onward
  <2>11. QED BY <1>1, <1>10, <2>1, <2>10, FlightKeeps
<1>12. WorkInv'
  <2>1. Live /\ Live'
    BY <1>4, <1>5 DEF Live
  <2>2. LedgerInv'
    BY <1>1, <1>4, <2>1, LedgerKeeps
  <2>3. /\ \A j : Kind(j)' = Kind(j) /\ (Unsurpassed(j)' <=> Unsurpassed(j))
        /\ Entries(ledger)' = Entries(ledger)
    BY <1>4 DEF Kind, Unsurpassed, Entries
  <2>4. ASSUME NEW d \in Conns, d # c, ~Job(d, "idle")
        PROVE  JobOK(d)' /\ Input(d) # i /\ Kind(Input(d)) # "audio"
    <3>1. JobOK(d) /\ Kept(d)
      BY <1>1, <2>1, <2>4 DEF JobInv, JobOK
    <3>2. Kind(Input(d)) # "audio"
      <4>1. SUFFICES ASSUME Kind(Input(d)) = "audio" PROVE FALSE
        OBVIOUS
      <4>2. Input(d) = i /\ \E f \in Entries(ledger) : f.id = i /\ f.conn = d
        BY <1>5, <3>1, <4>1 DEF Kept
      <4>3. QED BY <1>1, <1>9, <2>4, <4>2, OneEntry
    <3>3. Input(d) # i
      BY <1>8, <3>2
    <3>4. Input(d)' = Input(d) /\ \A a : Job(d, a)' <=> Job(d, a)
      BY <1>7, <2>4
    <3>5. Kept(d)'
      <4>1. PICK f \in Entries(ledger) : /\ f.id = Input(d) /\ f.conn = d
                                        /\ (Kind(Input(d)) # "audio" => ~f.accepted)
        BY <3>1 DEF Kept
      <4>2. PICK j : j = Input(d)
        OBVIOUS
      <4>3. Input(d)' = j /\ Kind(j)' = Kind(j) /\ Kind(j) # "audio"
        BY <2>3, <3>2, <3>4, <4>2
      <4>4. f \in Entries(ledger)' /\ f.id = j /\ f.conn = d /\ ~f.accepted
        BY <2>3, <4>1, <4>2, <4>3
      <4>5. Kind(Input(d))' # "audio"
        BY <4>3 DEF Kind
      <4>6. QED BY <4>3, <4>4, <4>5 DEF Kept
    <3>6. ASSUME NEW b \in Conns, b # d, ~Job(b, "idle")'
          PROVE  Input(b)' # Input(d) /\ (Kind(Input(d)) = "audio" => Kind(Input(b)') # "audio")
      <4>1. CASE b = c
        BY <1>7, <3>2, <3>3, <4>1
      <4>2. CASE b # c
        <5>1. ~Job(b, "idle") /\ Input(b)' = Input(b)
          BY <1>7, <3>6, <4>2
        <5>2. QED BY <2>4, <3>1, <3>6, <5>1 DEF JobOK
      <4>3. QED BY <4>1, <4>2
    <3>7. Unsurpassed(Input(d)) <=> Unsurpassed(Input(d))'
      BY <1>4, <3>4 DEF Unsurpassed, Kind
    <3>8. taken'[Input(d)] = taken[Input(d)] /\ (FirstTime(Input(d))' <=> FirstTime(Input(d)))
      BY <1>4, <3>4 DEF FirstTime, Topic
    <3>9. JobOK(d)'
      BY <1>4, <2>3, <3>1, <3>4, <3>5, <3>6, <3>7, <3>8 DEF JobOK
    <3>10. QED BY <3>2, <3>3, <3>9
  <2>5. JobOK(c)'
    <3>1. Kept(c)'
      <4>1. Input(c)' = i /\ Kind(i)' = "audio" /\ ledger'.pending = i
        BY <1>4, <1>5, <1>7, <1>8, <2>3
      <4>2. e \in Entries(ledger)' /\ e.id = i /\ e.conn = c
        BY <1>9, <2>3
      <4>3. Kind(Input(c))' = "audio"
        BY <4>1 DEF Kind
      <4>4. QED BY <4>1, <4>2, <4>3 DEF Kept
    <3>2. Unsurpassed(Input(c))' /\ FirstTime(Input(c))'
      BY <1>4, <1>7, <1>8 DEF Unsurpassed, Kind, FirstTime, Topic
    <3>3. ASSUME NEW d \in Conns, d # c, ~Job(d, "idle")' PROVE Input(d)' # i /\ Kind(Input(d)') # "audio"
      <4>1. ~Job(d, "idle") /\ Input(d)' = Input(d)
        BY <1>7, <3>3
      <4>2. QED BY <2>4, <3>3, <4>1
    <3>4. QED BY <1>4, <1>7, <1>8, <2>3, <3>1, <3>2, <3>3 DEF JobOK
  <2>6. JobInv'
    <3>1. ASSUME NEW d \in Conns PROVE JobOK(d)'
      <4>1. CASE d = c
        BY <2>5, <4>1
      <4>2. CASE d # c /\ ~Job(d, "idle")
        BY <2>4, <4>2
      <4>3. CASE d # c /\ Job(d, "idle")
        BY <1>7, <4>3 DEF JobOK
      <4>4. QED BY <4>1, <4>2, <4>3
    <3>2. QED BY <3>1 DEF JobInv
  <2>7. PendingIsAttended'
    <3>1. conn'[c].job.input = ledger'.pending /\ conn'[c].job # NoJob' /\ NoJob' = NoJob
      BY <1>4, <1>5, <1>6, <1>7 DEF Starts, NoJob
    <3>2. QED BY <3>1 DEF PendingIsAttended
  <2>8. QED BY <2>2, <2>6, <2>7 DEF WorkInv
<1>13. RoomsInv'
  BY <1>1, <1>4, <1>6, StartRooms
<1>14. AckInv'
  BY <1>4, <1>6, StartAcks
<1>15. TriggerInv'
  BY <1>1, <1>4, <1>6, <1>8, StartTrigger
<1>16. QED BY <1>10, <1>11, <1>12, <1>13, <1>14, <1>15 DEF IInv
-----------------------------------------------------------------------------
(* Service ends.                                                           *)

\* The job of c ends, with m for an answer if it is still heard.
Ends(c, m) ==
    /\ conn' \in [Conns -> ConnRec]
    /\ \A d \in Conns : d # c => conn'[d] = conn[d]
    /\ conn'[c].job = NoJob /\ conn'[c].inbox = conn[c].inbox
    /\ conn'[c].outbox \in {conn[c].outbox, Append(conn[c].outbox, m)}
    /\ conn'[c].state = conn[c].state /\ conn'[c].queue = conn[c].queue

\* What the end of i's service leaves in the ledger.
Settled(i) ==
    /\ Fine(ledger)' /\ Len(ledger'.seen) <= Len(ledger.seen) /\ ledger'.floor = ledger.floor
    /\ \A x \in Entries(ledger)' : x.id # i => x \in Entries(ledger)
    /\ \A x \in Entries(ledger) : x.id # i => x \in Entries(ledger)'
    /\ \A x \in Entries(ledger)' : x.id = i =>
         \E o \in Entries(ledger) :
           /\ o.id = i /\ x.kind = o.kind
           /\ \A r \in x.receipts :
                r \in o.receipts \/ taken'[i] > 0 \/ (Kind(i) = "audio" /\ r = "received")
    /\ ledger'.pending = ledger.pending \/ (ledger.pending = i /\ ledger'.pending = None)

\* Handlers around one that ends.
LEMMA EndJobs ==
  ASSUME TypeOK, ConnInv, NEW c \in Conns, NEW m, Ends(c, m)
  PROVE  /\ Job(c, "idle")' /\ \A a : a # "idle" => ~Job(c, a)'
         /\ \A d \in Conns : d # c => Input(d)' = Input(d) /\ \A a : Job(d, a)' <=> Job(d, a)
         /\ \A d \in Conns : ~Job(d, "idle")' => d # c /\ ~Job(d, "idle")
         /\ \A j : Serving(j)' => Serving(j)
<1>1. Job(c, "idle")' /\ \A a : a # "idle" => ~Job(c, a)'
  BY NoConnTyped DEF Ends, Job
<1>2. \A d \in Conns : d # c => Input(d)' = Input(d) /\ \A a : Job(d, a)' <=> Job(d, a)
  BY DEF Ends, Job, Input
<1>3. \A d \in Conns : ~Job(d, "idle")' => d # c /\ ~Job(d, "idle")
  BY <1>1, <1>2
<1>4. ASSUME NEW j, Serving(j)' PROVE Serving(j)
  <2>1. PICK d \in Conns : ~Job(d, "idle")' /\ Input(d)' = j
    BY <1>4 DEF Serving
  <2>2. QED BY <1>2, <1>3, <2>1 DEF Serving
<1>5. QED BY <1>1, <1>2, <1>3, <1>4

\* A settled input keeps the ledger's receipts true.
LEMMA EndLedger ==
  ASSUME IInv, NEW i \in Inputs, Settled(i), UNCHANGED <<scenario, session>>,
         \/ taken' = taken
         \/ taken' = [taken EXCEPT ![i] = @ + 1] /\ ledger'.pending = None
  PROVE  LedgerInv'
<1>1. TypeOK /\ LedgerInv /\ taken \in [Inputs -> Nat] /\ ledger \in LedgerRec
  BY DEF IInv, WorkInv, TypeOK
<1>2. (Live' <=> Live) /\ (\A j : Kind(j)' = Kind(j)) /\ \A j \in Inputs : taken[j] > 0 => taken'[j] > 0
  BY <1>1 DEF Live, Kind
<1>3. ASSUME NEW e \in Entries(ledger)'
      PROVE  /\ e.kind = Kind(e.id)
             /\ \A r \in e.receipts : e.kind # "audio" \/ r = "committed" => taken'[e.id] > 0
  <2>1. CASE e.id # i
    <3>1. e \in Entries(ledger)
      BY <1>3, <2>1 DEF Settled
    <3>2. e.id \in Inputs
      BY <1>1, <3>1, EntriesTyped DEF EntryRec
    <3>3. QED BY <1>1, <1>2, <3>1, <3>2 DEF LedgerInv
  <2>2. CASE e.id = i
    <3>1. PICK o \in Entries(ledger) :
            /\ o.id = i /\ e.kind = o.kind
            /\ \A r \in e.receipts :
                 r \in o.receipts \/ taken'[i] > 0 \/ (Kind(i) = "audio" /\ r = "received")
      BY <1>3, <2>2 DEF Settled
    <3>2. /\ o.kind = Kind(i)
          /\ \A r \in o.receipts : o.kind # "audio" \/ r = "committed" => taken[i] > 0
      BY <1>1, <3>1 DEF LedgerInv
    <3>3. QED BY <1>2, <2>2, <3>1, <3>2
  <2>3. QED BY <2>1, <2>2
<1>4. ASSUME ledger'.pending # None
      PROVE  /\ Kind(ledger'.pending) = "audio" /\ Anew(ledger.pending)'
             /\ Unsurpassed(ledger.pending)'
  <2>1. ledger'.pending = ledger.pending /\ ledger'.floor = ledger.floor /\ taken' = taken
    BY <1>4 DEF Settled
  <2>2. PICK j \in Inputs : j = ledger.pending
    BY <1>1, <1>4, <2>1 DEF LedgerRec
  <2>3. Kind(j) = "audio" /\ Anew(j) /\ Unsurpassed(j)
    BY <1>1, <1>4, <2>1, <2>2 DEF LedgerInv
  <2>4. Unsurpassed(j)' /\ Anew(j)'
    BY <2>1, <2>3 DEF Unsurpassed, Kind, Anew, Topic
  <2>5. QED BY <2>1, <2>2, <2>3, <2>4 DEF Unsurpassed, Anew
<1>5. ASSUME ~Live' PROVE ledger'.seen = <<>> /\ ledger'.pending = None
  <2>1. ledger.seen = <<>> /\ ledger.pending = None
    BY <1>1, <1>2, <1>5 DEF LedgerInv
  <2>2. ledger'.pending = None
    BY <2>1 DEF Settled
  <2>3. PICK l \in LedgerRec : l = ledger'
    BY DEF Settled, Fine
  <2>4. Len(l.seen) <= 0 /\ l.seen \in Seq(EntryRec) /\ Len(l.seen) \in Nat
    BY <2>1, <2>3, EntriesTyped DEF Settled
  <2>5. l.seen = <<>>
    BY <2>4
  <2>6. QED BY <2>2, <2>3, <2>5
<1>6. QED BY <1>2, <1>3, <1>4, <1>5 DEF LedgerInv, Settled

\* A service that ends keeps the ledger and the handlers in agreement.
LEMMA EndWork ==
  ASSUME IInv, NEW c \in Conns, NEW i \in Inputs, i = Input(c), ~Job(c, "idle"),
         NEW m, Ends(c, m), Settled(i), UNCHANGED <<scenario, session>>,
         \/ taken' = taken
         \/ taken' = [taken EXCEPT ![i] = @ + 1] /\ Kind(i) = "audio" /\ ledger'.pending = None,
         ledger'.pending = i => TwoPhase(i) /\ SentOver(ledger, i, c)'
  PROVE  WorkInv'
<1>1. /\ TypeOK /\ LedgerInv /\ JobInv /\ PendingIsAttended /\ taken \in [Inputs -> Nat]
      /\ ConnInv /\ ledger \in LedgerRec
  BY DEF IInv, FlightInv, WorkInv, TypeOK
<1>2. /\ Live' <=> Live
      /\ \A j : Kind(j)' = Kind(j) /\ (TwoPhase(j)' <=> TwoPhase(j))
      /\ i # None /\ None \notin Inputs
  BY NoneAssumption, ConnAssumption DEF Live, Kind, TwoPhase
<1>3. LedgerInv'
  BY EndLedger
<1>4. /\ Job(c, "idle")' /\ \A a : a # "idle" => ~Job(c, a)'
      /\ \A d \in Conns : d # c => Input(d)' = Input(d) /\ \A a : Job(d, a)' <=> Job(d, a)
      /\ \A d \in Conns : ~Job(d, "idle")' => d # c /\ ~Job(d, "idle")
  BY <1>1, EndJobs
<1>5. ASSUME NEW d \in Conns, d # c, ~Job(d, "idle") PROVE JobOK(d)'
  <2>1. JobOK(d) /\ JobOK(c)
    BY <1>1 DEF JobInv
  <2>2. PICK j \in Inputs : j = Input(d)
    BY <1>1, <1>5 DEF ConnInv
  <2>3. j # i /\ ~(Kind(i) = "audio" /\ Kind(j) = "audio")
    BY <1>5, <2>1, <2>2 DEF JobOK
  <2>4. Input(d)' = j /\ \A a : Job(d, a)' <=> Job(d, a)
    BY <1>4, <1>5, <2>2
  <2>5. taken'[j] = taken[j] /\ (Unsurpassed(j) => Unsurpassed(j)')
    <3>1. taken' = taken \/ (taken' = [taken EXCEPT ![i] = @ + 1] /\ (Kind(j) = "audio" => FALSE))
      BY <2>3
    <3>2. taken'[j] = taken[j]
      BY <1>1, <2>3, <3>1
    <3>3. CASE Kind(i) # Kind(j)
      BY <1>1, <3>1, <3>2, <3>3, UnsurpassedKeeps
    <3>4. CASE Kind(i) = Kind(j)
      <4>1. taken' = taken
        BY <2>3, <3>4
      <4>2. QED BY <1>1, <3>2, <4>1, UnsurpassedKeeps
    <3>5. QED BY <3>3, <3>4
  <2>6. ASSUME Live' PROVE Kept(d)'
    <3>1. Kept(d)
      BY <1>2, <1>5, <2>1, <2>6 DEF JobOK
    <3>2. PICK f \in Entries(ledger) : f.id = j /\ f.conn = d /\ (Kind(j) # "audio" => ~f.accepted)
      BY <2>2, <3>1 DEF Kept
    <3>3. Kind(j) = "audio" => ledger.pending = j
      BY <2>2, <3>1 DEF Kept
    <3>4. f \in Entries(ledger)'
      BY <2>3, <3>2 DEF Settled
    <3>5. Kind(j) = "audio" => ledger'.pending = j
      BY <2>3, <3>3 DEF Settled
    <3>6. Kind(Input(d))' = Kind(j)
      BY <2>4 DEF Kind
    <3>7. QED BY <2>4, <3>2, <3>4, <3>5, <3>6 DEF Kept
  <2>7. ASSUME NEW b \in Conns, b # d, ~Job(b, "idle")'
        PROVE  Input(b)' # j /\ (Kind(j) = "audio" => Kind(Input(b)') # "audio")
    <3>1. ~Job(b, "idle") /\ Input(b)' = Input(b)
      BY <1>4, <2>7
    <3>2. QED BY <1>5, <2>1, <2>2, <2>7, <3>1 DEF JobOK
  <2>8. (Unsurpassed(j)' => Unsurpassed(Input(d))') /\ (FirstTime(j)' => FirstTime(Input(d))')
    BY <2>4 DEF Unsurpassed, FirstTime
  <2>9. /\ Job(d, "line")' => Kind(j) = "text" /\ (taken'[j] = 0 => Unsurpassed(j)')
        /\ Job(d, "observe")' => Kind(j) # "audio" /\ taken'[j] > 0
        /\ Job(d, "push")' \/ Job(d, "commit")' =>
             Kind(j) = "audio" /\ FirstTime(j)' /\ Unsurpassed(j)'
    BY <1>5, <2>1, <2>2, <2>4, <2>5 DEF JobOK, FirstTime, Topic
  <2>10. QED BY <1>2, <2>4, <2>6, <2>7, <2>8, <2>9 DEF JobOK
<1>6. JobInv'
  <2>1. ASSUME NEW d \in Conns PROVE JobOK(d)'
    <3>1. CASE d # c /\ ~Job(d, "idle")
      BY <1>5, <3>1
    <3>2. CASE d = c \/ Job(d, "idle")
      <4>1. Job(d, "idle")'
        BY <1>4, <3>2
      <4>2. QED BY <4>1 DEF JobOK
    <3>3. QED BY <3>1, <3>2
  <2>2. QED BY <2>1 DEF JobInv
<1>7. PendingIsAttended'
  <2>1. SUFFICES ASSUME ledger'.pending # None
                 PROVE  \E d \in Conns :
                          \/ conn'[d].job.input = ledger'.pending /\ conn'[d].job # NoJob'
                          \/ /\ TwoPhase(ledger.pending)'
                             /\ SentOver(ledger, ledger.pending, d)'
                             /\ conn'[d].state \in {"open", "closing"}
    BY DEF PendingIsAttended
  <2>2. NoJob' = NoJob
    BY DEF NoJob
  <2>3. CASE ledger'.pending = i
    <3>1. TwoPhase(ledger.pending)'
      BY <2>3 DEF TwoPhase, Kind
    <3>2. SentOver(ledger, ledger.pending, c)'
      BY <2>3 DEF SentOver
    <3>3. conn'[c].state \in {"open", "closing"}
      BY <1>1 DEF ConnInv, Ends
    <3>4. QED BY <3>1, <3>2, <3>3
  <2>4. CASE ledger'.pending # i
    <3>1. ledger'.pending = ledger.pending
      BY <2>1 DEF Settled
    <3>2. PICK d \in Conns :
            \/ conn[d].job.input = ledger.pending /\ conn[d].job # NoJob
            \/ /\ TwoPhase(ledger.pending)
               /\ SentOver(ledger, ledger.pending, d)
               /\ conn[d].state \in {"open", "closing"}
      BY <1>1, <2>1, <3>1 DEF PendingIsAttended
    <3>3. CASE conn[d].job.input = ledger.pending /\ conn[d].job # NoJob
      <4>1. d # c
        BY <2>4, <3>1, <3>3 DEF Input
      <4>2. conn'[d] = conn[d]
        BY <4>1 DEF Ends
      <4>3. QED BY <2>2, <3>1, <3>3, <4>2
    <3>4. CASE /\ TwoPhase(ledger.pending)
               /\ SentOver(ledger, ledger.pending, d)
               /\ conn[d].state \in {"open", "closing"}
      <4>1. PICK e \in Entries(ledger) : e.id = ledger.pending /\ e.conn = d
        BY <3>4 DEF SentOver
      <4>2. e \in Entries(ledger)'
        BY <2>4, <3>1, <4>1 DEF Settled
      <4>3. SentOver(ledger, ledger.pending, d)'
        BY <3>1, <4>1, <4>2 DEF SentOver
      <4>4. conn'[d].state = conn[d].state
        BY DEF Ends
      <4>5. TwoPhase(ledger.pending)'
        BY <3>1, <3>4 DEF TwoPhase, Kind
      <4>6. QED BY <3>4, <4>3, <4>4, <4>5
    <3>5. QED BY <3>2, <3>3, <3>4
  <2>5. QED BY <2>3, <2>4
<1>8. QED BY <1>3, <1>6, <1>7 DEF WorkInv

\* It keeps what is said of messages in flight.
LEMMA EndFlight ==
  ASSUME IInv, TypeOK', NEW c \in Conns, NEW i \in Inputs, i = Input(c), ~Job(c, "idle"),
         NEW m, Ends(c, m), Settled(i),
         UNCHANGED <<scenario, told, tries, half, link, ready, session>>,
         taken' = taken \/ (taken' = [taken EXCEPT ![i] = @ + 1] /\ (Live => Tracked(ledger, i)')),
         Live => Tracked(ledger, i)' \/ Anew(i)'
  PROVE  FlightInv'
<1>1. /\ TypeOK /\ FlightInv /\ TopicInv /\ ConnInv /\ LedgerInv /\ conn \in [Conns -> ConnRec]
      /\ taken \in [Inputs -> Nat] /\ ledger \in LedgerRec
  BY DEF IInv, FlightInv, WorkInv, TypeOK
<1>2. conn[c].state \in {"open", "closing"}
  BY <1>1 DEF ConnInv
<1>3. TopicInv' /\ ConnInv'
  <2>1. conn'[c].job = NoJob
    BY DEF Ends
  <2>2. conn'[c].state = conn[c].state /\ \A d \in Conns : d # c => conn'[d] = conn[d]
    BY DEF Ends
  <2>3. QED BY <1>1, <1>2, <2>1, <2>2, HandlerConn
<1>4. Counting' => Counting /\ Live
  BY <1>1, <1>2 DEF Counting, Live, TopicInv
<1>5. ASSUME NEW j \in Inputs, Tracked(ledger, j)' PROVE Tracked(ledger, j)
  <2>1. PICK e \in Entries(ledger)' : e.id = j
    BY <1>5 DEF Tracked
  <2>2. CASE e.id # i
    BY <2>1, <2>2 DEF Settled, Tracked
  <2>3. CASE e.id = i
    <3>1. \E o \in Entries(ledger) : o.id = i
      BY <2>1, <2>3 DEF Settled
    <3>2. QED BY <2>1, <2>3, <3>1 DEF Tracked
  <2>4. QED BY <2>2, <2>3
<1>6. ASSUME Counting', NEW j \in Inputs, Tracked(ledger, j)
      PROVE  Tracked(ledger, j)' \/ taken'[j] = 0 \/ j <= ledger'.floor[Kind(j)]
  <2>1. CASE j = i
    BY <1>4, <1>6, <2>1 DEF Anew, Kind
  <2>2. CASE j # i
    <3>1. PICK e \in Entries(ledger) : e.id = j
      BY <1>6 DEF Tracked
    <3>2. e \in Entries(ledger)'
      BY <2>2, <3>1 DEF Settled
    <3>3. QED BY <3>1, <3>2 DEF Tracked
  <2>3. QED BY <2>1, <2>2
<1>7. \A k \in Kinds : ledger.floor[k] <= ledger'.floor[k]
  BY <1>1 DEF Settled, LedgerRec
<1>8. \A j \in Inputs : Serving(j)' => Serving(j)
  BY <1>1, EndJobs
<1>9. Serving(i)
  BY DEF Serving
<1>10. \A d \in Conns : \E k \in Nat : \A p \in DOMAIN conn'[d].inbox :
          p + k \in DOMAIN conn[d].inbox /\ conn'[d].inbox[p] = conn[d].inbox[p + k]
  <2>1. ASSUME NEW d \in Conns
        PROVE  \E k \in Nat : \A p \in DOMAIN conn'[d].inbox :
                 p + k \in DOMAIN conn[d].inbox /\ conn'[d].inbox[p] = conn[d].inbox[p + k]
    <3>1. conn'[d].inbox = conn[d].inbox
      BY DEF Ends
    <3>2. QED BY <1>1, <3>1, SameInbox
  <2>2. QED BY <2>1
<1>11. ASSUME NEW j \in Inputs
       PROVE  \/ taken'[j] = taken[j]
              \/ /\ taken'[j] > 0 /\ (j \in {} \/ Serving(j))
                 /\ Counting' => Tracked(ledger, j)'
  <2>1. CASE j # i \/ taken' = taken
    BY <1>1, <2>1
  <2>2. CASE j = i /\ taken' = [taken EXCEPT ![i] = @ + 1] /\ (Live => Tracked(ledger, i)')
    <3>1. taken'[i] > 0
      BY <1>1, <2>2
    <3>2. QED BY <1>4, <1>9, <2>2, <3>1
  <2>3. QED BY <2>1, <2>2
<1>12. Onward({})
  BY <1>4, <1>5, <1>6, <1>7, <1>8, <1>10, <1>11 DEF Onward
<1>13. QED BY <1>1, <1>3, <1>12, FlightKeeps

\* So a service that ends keeps the invariant.
LEMMA EndKeeps ==
  ASSUME IInv, NEW c \in Conns, NEW i \in Inputs, i = Input(c), ~Job(c, "idle"),
         NEW m \in AnswerRec, AckOK(m)', Ends(c, m), Settled(i),
         UNCHANGED <<scenario, told, tries, half, link, ready, view, session, status>>,
         \/ taken' = taken
         \/ /\ taken' = [taken EXCEPT ![i] = @ + 1] /\ (Live => Tracked(ledger, i)')
            /\ Kind(i) = "audio" /\ ledger'.pending = None,
         Live => Tracked(ledger, i)' \/ Anew(i)',
         ledger'.pending = i => TwoPhase(i) /\ SentOver(ledger, i, c)',
         batch' \in Batch, heard' \in [Inputs -> Nat], lost' \subseteq Inputs,
         \A j \in Inputs : Accounted(j) => Accounted(j)',
         RoomTypeOK', RoomsInv', TriggerInv'
  PROVE  IInv'
<1>1. /\ TypeOK /\ LedgerInv /\ AckInv /\ conn \in [Conns -> ConnRec] /\ taken \in [Inputs -> Nat]
      /\ ledger \in LedgerRec /\ Len(ledger.seen) <= Capacity
  BY DEF IInv, WorkInv, TypeOK
<1>2. taken' \in [Inputs -> Nat]
  BY <1>1
<1>3. Len(ledger'.seen) <= Capacity /\ Fine(ledger)'
  <2>1. PICK n \in Nat, k \in Nat : n = Len(ledger.seen) /\ k = Capacity
    BY <1>1, BoundAssumption, EntriesTyped
  <2>2. PICK l \in LedgerRec : l = ledger'
    BY DEF Settled, Fine
  <2>3. PICK o \in Nat : o = Len(l.seen)
    BY EntriesTyped
  <2>4. o <= n
    BY <2>1, <2>2, <2>3 DEF Settled
  <2>5. n <= k
    BY <1>1, <2>1
  <2>6. o <= k
    BY <2>4, <2>5
  <2>7. QED BY <2>1, <2>2, <2>3, <2>6 DEF Settled
<1>4. TypeOK'
  <2>1. conn' \in [Conns -> ConnRec] /\ \A d \in Conns : conn'[d].queue = conn[d].queue
    BY DEF Ends
  <2>2. QED BY <1>1, <1>2, <1>3, <2>1, HandlerTypes
<1>5. FlightInv'
  BY <1>4, EndFlight
<1>6. WorkInv'
  BY EndWork
<1>7. AckInv'
  <2>1. \A p \in DOMAIN conn'[c].outbox :
           \/ AckOK(conn[c].outbox[p])'
           \/ \E q \in DOMAIN conn[c].outbox : conn'[c].outbox[p] = conn[c].outbox[q]
    BY <1>1, SaidFacts DEF Ends
  <2>2. \A d \in Conns : \A p \in DOMAIN conn'[d].outbox :
           \/ AckOK(conn[d].outbox[p])'
           \/ \E q \in DOMAIN conn[d].outbox : conn'[d].outbox[p] = conn[d].outbox[q]
    <3>1. ASSUME NEW d \in Conns, d # c PROVE conn'[d].outbox = conn[d].outbox
      BY <3>1 DEF Ends
    <3>2. QED BY <2>1, <3>1
  <2>3. \A j \in Inputs : taken[j] > 0 => taken'[j] > 0
    BY <1>1, OnceMore
  <2>4. \A j \in Inputs : told'[j] = "acked" => told[j] = "acked"
    OBVIOUS
  <2>5. conn' \in [Conns -> ConnRec] /\ scenario' = scenario
    BY DEF Ends
  <2>6. QED BY <1>1, <2>2, <2>3, <2>4, <2>5, AckKeeps
<1>8. QED BY <1>4, <1>5, <1>6, <1>7 DEF IInv

\* A handler that serves no text stays out of the line.
LEMMA OffLine ==
  ASSUME TypeOK, RoomsInv, JobInv, NEW c \in Conns, NEW i \in Inputs,
         ~Job(c, "line"), ~Job(c, "line")', \A d \in Conns : d # c => conn'[d] = conn[d],
         UNCHANGED <<scenario, session, roomVars>>,
         taken' = taken \/ (taken' = [taken EXCEPT ![i] = @ + 1] /\ Kind(i) # "text")
  PROVE  RoomsInv' /\ RoomTypeOK'
<1>1. /\ LineInv /\ RoomInv /\ taken \in [Inputs -> Nat] /\ UNCHANGED <<rows, active, events, next, line>>
      /\ RoomTypeOK
  BY DEF RoomsInv, TypeOK, roomVars
<1>2. ASSUME NEW p \in DOMAIN line
      PROVE  \/ line'[p].writer = Viewer /\ line'[p].event = Viewer
             \/ /\ line'[p].writer \in Conns /\ line'[p].event \in Inputs
                /\ conn'[line'[p].writer].job = [input |-> line'[p].event, at |-> "line"]
                /\ line'[p].written <=> taken'[line'[p].event] > 0
  <2>1. CASE line[p].writer = Viewer /\ line[p].event = Viewer
    BY <1>1, <2>1
  <2>2. CASE /\ line[p].writer \in Conns /\ line[p].event \in Inputs
             /\ conn[line[p].writer].job = [input |-> line[p].event, at |-> "line"]
             /\ line[p].written <=> taken[line[p].event] > 0
    <3>1. PICK d \in Conns, j \in Inputs : d = line[p].writer /\ j = line[p].event
      BY <2>2
    <3>2. conn[d].job = [input |-> j, at |-> "line"]
      BY <2>2, <3>1
    <3>3. Job(d, "line") /\ ~Job(d, "idle") /\ Input(d) = j
      BY <3>2 DEF Job, Input
    <3>4. Kind(j) = "text" /\ d # c
      BY <3>3 DEF JobInv, JobOK
    <3>5. conn'[d] = conn[d] /\ taken'[j] = taken[j]
      BY <1>1, <3>4
    <3>6. QED BY <1>1, <2>2, <3>1, <3>2, <3>5
  <2>3. QED BY <1>1, <2>1, <2>2 DEF LineInv
<1>3. ASSUME NEW d \in Conns, Job(d, "line")' PROVE InLine(d)'
  <2>1. d # c
    BY <1>3
  <2>2. Job(d, "line")
    BY <1>3, <2>1 DEF Job
  <2>3. QED BY <1>1, <2>2 DEF LineInv, InLine
<1>4. LineInv'
  BY <1>1, <1>2, <1>3 DEF LineInv
<1>5. RoomInv'
  BY <1>1 DEF RoomInv, RoomMatchesLog
<1>6. RoomTypeOK'
  BY <1>1 DEF RoomTypeOK
<1>7. QED BY <1>4, <1>5, <1>6 DEF RoomsInv

\* No handler comes to owe an observation by what it does now.
NoneOwesMore ==
    \A d \in Conns :
      Owed(d)' => Job(d, "observe") \/ (Job(d, "line") /\ taken'[Input(d)] > 0)

\* A service that ends without a trigger touches none.
LEMMA EndTrigger ==
  ASSUME TypeOK, TriggerInv, NEW i \in Inputs,
         \A d \in Conns : ~Job(d, "idle")' => ~Job(d, "idle") /\ Input(d)' = Input(d),
         NoneOwesMore,
         UNCHANGED <<scenario, session, heard, lost, batch>>,
         taken' = taken \/ (FirstTime(i) /\ taken' = [taken EXCEPT ![i] = @ + 1])
  PROVE  TriggerInv'
<1>1. /\ taken \in [Inputs -> Nat] /\ taken' \in [Inputs -> Nat] /\ heard \in [Inputs -> Nat]
      /\ \A j \in Inputs : taken[j] <= taken'[j]
  <2>1. taken \in [Inputs -> Nat] /\ heard \in [Inputs -> Nat]
    BY DEF TypeOK
  <2>2. QED BY <2>1, OnceMore
<1>2. (Live' <=> Live) /\ Topic' = Topic
  BY DEF Live, Topic
<1>3. ASSUME Topic # "network", NEW j \in Inputs
      PROVE  /\ heard'[j] <= 1 /\ taken'[j] <= 1
             /\ Accounted(j)' \/ j \in batch'.processed =>
                  taken'[j] > 0 /\ \A d \in Conns : (Job(d, "idle") \/ Input(d) # j)'
  <2>0. AccountsInv /\ (taken' = taken \/ taken[i] = 0)
    BY <1>3 DEF TriggerInv, FirstTime
  <2>1. heard'[j] <= 1 /\ taken'[j] <= 1
    BY <1>1, <2>0 DEF AccountsInv
  <2>2. ASSUME Accounted(j)' \/ j \in batch'.processed
        PROVE  taken'[j] > 0 /\ \A d \in Conns : (Job(d, "idle") \/ Input(d) # j)'
    <3>1. taken[j] > 0 /\ \A d \in Conns : (Job(d, "idle") \/ Input(d) # j)
      BY <2>0, <2>2 DEF AccountsInv, Accounted
    <3>2. taken'[j] > 0
      BY <1>1, <3>1
    <3>3. QED BY <3>1, <3>2
  <2>3. QED BY <2>1, <2>2
<1>4. Topic # "network" => AccountsInv'
  BY <1>3 DEF TriggerInv, AccountsInv
<1>5. ASSUME CountInv, NEW d \in Conns, Owed(d)'
      PROVE  (Owed(d) /\ Input(d)' = Input(d)) \/ heard[Input(d)'] < taken'[Input(d)']
  <2>1. /\ Job(d, "observe") \/ (Job(d, "line") /\ taken'[Input(d)] > 0)
        /\ ~Job(d, "idle")'
    BY <1>5 DEF NoneOwesMore, Owed, Job
  <2>2. PICK j \in Inputs : j = Input(d) /\ Input(d)' = j
    BY <1>5, <2>1 DEF Owed
  <2>3. heard[j] <= taken[j]
    BY <1>5 DEF CountInv
  <2>4. CASE taken'[j] = taken[j]
    BY <2>1, <2>2, <2>4 DEF Owed
  <2>5. CASE taken'[j] # taken[j]
    BY <1>1, <2>2, <2>3, <2>5
  <2>6. QED BY <2>4, <2>5
<1>6. Topic = "network" => CountInv'
  BY <1>1, <1>5, CountKeeps DEF TriggerInv
<1>7. QED BY <1>2, <1>4, <1>6 DEF TriggerInv

\* Accepting an input settles it.
LEMMA AcceptSettles ==
  ASSUME NEW l, Fine(l), Entries(l) = Entries(ledger), Len(l.seen) <= Len(ledger.seen),
         l.floor = ledger.floor, NEW i,
         l.pending = ledger.pending \/ (ledger.pending = i /\ l.pending = None),
         NEW stages \in SUBSET Stages, ledger' = Accept(l, i, stages),
         \A r \in stages : taken'[i] > 0 \/ (Kind(i) = "audio" /\ r = "received")
  PROVE  /\ Settled(i) /\ ledger'.pending = l.pending
         /\ Tracked(ledger, i) => Tracked(ledger, i)'
         /\ \A c : SentOver(ledger, i, c) => SentOver(ledger, i, c)'
<1>1. PICK a : a = Accept(l, i, stages)
  OBVIOUS
<1>2. /\ Fine(a) /\ Len(a.seen) = Len(l.seen) /\ a.floor = l.floor /\ a.pending = l.pending
      /\ \A x \in Entries(a) : x.id # i => x \in Entries(l)
      /\ \A x \in Entries(l) : x.id # i => x \in Entries(a)
      /\ \A x \in Entries(a) : x.id = i =>
           \E o \in Entries(l) : /\ o.id = i /\ x.kind = o.kind /\ x.conn = o.conn
                                 /\ x.receipts = o.receipts \cup stages
      /\ \A o \in Entries(l) : o.id = i =>
           \E x \in Entries(a) : x.id = i /\ x.kind = o.kind /\ x.conn = o.conn
  BY <1>1, AcceptFacts
<1>3. Fine(ledger)' /\ Entries(ledger)' = Entries(a) /\ ledger' = a
  BY <1>1, <1>2 DEF Fine, Entries
<1>4. \A x \in Entries(a) : x.id = i =>
         \E o \in Entries(ledger) :
           /\ o.id = i /\ x.kind = o.kind
           /\ \A r \in x.receipts :
                r \in o.receipts \/ taken'[i] > 0 \/ (Kind(i) = "audio" /\ r = "received")
  BY <1>2
<1>5. Settled(i)
  BY <1>2, <1>3, <1>4 DEF Settled
<1>6. Tracked(ledger, i) => Tracked(ledger, i)'
  BY <1>2, <1>3 DEF Tracked
<1>7. \A c : SentOver(ledger, i, c) => SentOver(ledger, i, c)'
  BY <1>2, <1>3 DEF SentOver
<1>8. QED BY <1>2, <1>3, <1>5, <1>6, <1>7

\* So does forgetting it.
LEMMA ForgetSettles ==
  ASSUME NEW l, Fine(l), Entries(l) = Entries(ledger), Len(l.seen) <= Len(ledger.seen),
         Len(ledger.seen) \in Nat, l.floor = ledger.floor, NEW i,
         l.pending = ledger.pending \/ (ledger.pending = i /\ l.pending = None),
         ledger' = Forget(l, i)
  PROVE  Settled(i) /\ ledger'.pending = l.pending
<1>1. PICK a : a = Forget(l, i)
  OBVIOUS
<1>2. /\ Fine(a) /\ Entries(a) = {e \in Entries(l) : e.id # i}
      /\ a.floor = l.floor /\ a.pending = l.pending /\ Len(a.seen) <= Len(l.seen)
  BY <1>1, ForgetFacts
<1>3. Fine(ledger)' /\ Entries(ledger)' = Entries(a) /\ ledger' = a
  BY <1>1, <1>2 DEF Fine, Entries
<1>4. Len(a.seen) <= Len(ledger.seen)
  <2>1. PICK x \in LedgerRec, y \in LedgerRec : x = a /\ y = l
    BY <1>2 DEF Fine
  <2>2. PICK n \in Nat, k \in Nat, b \in Nat : n = Len(x.seen) /\ k = Len(y.seen) /\ b = Len(ledger.seen)
    BY EntriesTyped
  <2>3. n <= k /\ k <= b
    BY <1>2, <2>1, <2>2
  <2>4. n <= b
    BY <2>3
  <2>5. QED BY <2>1, <2>2, <2>4
<1>5. QED BY <1>2, <1>3, <1>4 DEF Settled

\* What the ledger is before and after its audio source is released.
LEMMA LedgerFacts ==
  ASSUME Fine(ledger), NEW i
  PROVE  /\ Len(ledger.seen) \in Nat /\ Len(ledger.seen) <= Len(ledger.seen)
         /\ \E r : /\ r = Release(ledger, i) /\ Fine(r) /\ Entries(r) = Entries(ledger)
                   /\ Len(r.seen) <= Len(ledger.seen) /\ r.floor = ledger.floor
                   /\ r.pending = IF ledger.pending = i THEN None ELSE ledger.pending
<1>1. PICK l \in LedgerRec : l = ledger /\ Fine(l)
  BY DEF Fine
<1>2. PICK n \in Nat : n = Len(l.seen)
  BY EntriesTyped
<1>3. n <= n
  OBVIOUS
<1>4. PICK r : r = Release(l, i)
  OBVIOUS
<1>5. /\ Fine(r) /\ r.seen = l.seen /\ Entries(r) = Entries(l) /\ r.floor = l.floor
      /\ r.pending = IF l.pending = i THEN None ELSE l.pending
  BY <1>1, <1>4, ReleaseFacts
<1>6. QED BY <1>1, <1>2, <1>3, <1>4, <1>5

\* What the job of a handler is about.
LEMMA JobFacts ==
  ASSUME IInv, NEW c \in Conns, NEW at \in {"line", "observe", "push", "commit"}, Job(c, at)
  PROVE  /\ ~Job(c, "idle") /\ Input(c) \in Inputs /\ Asked(c) \in MessageRec
         /\ Asked(c).input = Input(c) /\ conn[c].state \in {"open", "closing"}
         /\ \A a : a # at => ~Job(c, a)
         /\ (Kind(Input(c)) = "text" => Asked(c).stage = "received")
         /\ (at = "commit" /\ Kind(Input(c)) = "audio" => Asked(c).stage = "committed")
         /\ (at = "push" /\ TwoPhase(Input(c)) => Asked(c).stage = "received")
<1>1. ~Job(c, "idle") /\ \A a : a # at => ~Job(c, a)
  BY DEF Job
<1>2. PICK i \in Inputs : i = Input(c) /\ conn[c].state \in {"open", "closing"}
  BY <1>1 DEF IInv, FlightInv, ConnInv
<1>3. PICK s \in Stages : s = IF Kind(i) # "audio" \/ (TwoPhase(i) /\ Job(c, "push"))
                                THEN "received" ELSE "committed"
  BY DEF Stages
<1>4. Asked(c) = [input |-> i, stage |-> s]
  BY <1>2, <1>3 DEF Asked
<1>5. Asked(c) \in MessageRec /\ Asked(c).input = i /\ Asked(c).stage = s
  BY <1>4 DEF MessageRec
<1>6. Kind(i) = "text" => s = "received"
  BY <1>3
<1>7. at = "commit" /\ Kind(i) = "audio" => s = "committed"
  BY <1>1, <1>3
<1>8. at = "push" /\ TwoPhase(i) => s = "received"
  BY <1>3
<1>9. QED BY <1>1, <1>2, <1>5, <1>6, <1>7, <1>8

\* A handler that answers ends.
LEMMA AnswerEnds ==
  ASSUME TypeOK, ConnInv, NEW c \in Conns, NEW m \in AnswerRec, Answer(c, m)
  PROVE  /\ Ends(c, m) /\ \A d \in Conns : d # c => conn'[d] = conn[d]
         /\ \A d \in Conns : ~Job(d, "idle")' => ~Job(d, "idle") /\ Input(d)' = Input(d)
         /\ NoneOwesMore
         /\ \A a : a # "idle" => ~Job(c, a)'
<1>1. Ends(c, m)
  BY AnswerFacts DEF Ends, TypeOK
<1>2. /\ Job(c, "idle")' /\ \A a : a # "idle" => ~Job(c, a)'
      /\ \A d \in Conns : d # c => Input(d)' = Input(d) /\ \A a : Job(d, a)' <=> Job(d, a)
      /\ \A d \in Conns : ~Job(d, "idle")' => d # c /\ ~Job(d, "idle")
  BY <1>1, EndJobs
<1>3. ASSUME NEW d \in Conns, Owed(d)'
      PROVE  Job(d, "observe") \/ (Job(d, "line") /\ taken'[Input(d)] > 0)
  <2>1. d # c
    BY <1>2, <1>3 DEF Owed
  <2>2. Input(d)' = Input(d) /\ (Job(d, "observe")' <=> Job(d, "observe"))
        /\ (Job(d, "line")' <=> Job(d, "line"))
    BY <1>2, <2>1
  <2>3. QED BY <1>3, <2>2 DEF Owed
<1>4. NoneOwesMore
  BY <1>3 DEF NoneOwesMore
<1>5. QED BY <1>1, <1>2, <1>4 DEF Ends

\* A segment that fails is forgotten and its source released.
LEMMA AudioFailsKeeps == ASSUME IInv, NEW c \in Conns, AudioFails(c) PROVE IInv'
<1>1. /\ TypeOK /\ ConnInv /\ RoomsInv /\ JobInv /\ TriggerInv /\ LedgerInv /\ Fine(ledger)
  BY DEF IInv, FlightInv, WorkInv, LedgerInv
<1>2. PICK at \in {"push", "commit"} : Job(c, at)
  BY DEF AudioFails
<1>3. PICK i \in Inputs : i = Input(c)
  BY <1>2, JobFacts
<1>4. PICK x \in MessageRec : x = Asked(c)
  BY <1>2, JobFacts
<1>5. PICK m \in AnswerRec : m = Rejected(x) /\ m.type # "ack"
  BY AnswerTyped
<1>6. /\ ~Job(c, "idle") /\ ~Job(c, "line")
      /\ Kind(i) = "audio" /\ (Live => Kept(c))
  BY <1>1, <1>2, <1>3, JobFacts DEF JobInv, JobOK
<1>7. PICK r : /\ r = Release(ledger, i) /\ Fine(r) /\ Entries(r) = Entries(ledger)
               /\ Len(r.seen) <= Len(ledger.seen) /\ r.floor = ledger.floor
               /\ r.pending = IF ledger.pending = i THEN None ELSE ledger.pending
  BY <1>1, LedgerFacts
<1>8. /\ ledger' = Forget(r, i) /\ Answer(c, m)
      /\ UNCHANGED <<scenario, told, tries, half, link, ready, view, session, status, batch,
                     taken, heard, lost, roomVars>>
  BY <1>3, <1>4, <1>5, <1>7 DEF AudioFails, client, history
<1>9. Settled(i) /\ ledger'.pending = r.pending
  BY <1>1, <1>7, <1>8, ForgetSettles, LedgerFacts
<1>10. /\ Ends(c, m) /\ \A d \in Conns : d # c => conn'[d] = conn[d]
       /\ \A d \in Conns : ~Job(d, "idle")' => ~Job(d, "idle") /\ Input(d)' = Input(d)
       /\ ~Job(c, "line")' /\ NoneOwesMore
  BY <1>1, <1>8, AnswerEnds
<1>11. RoomsInv' /\ RoomTypeOK'
  BY <1>1, <1>6, <1>8, <1>10, OffLine
<1>12. TriggerInv'
  BY <1>1, <1>8, <1>10, EndTrigger
<1>13. AckOK(m)'
  BY <1>5, NoAckOK
<1>14. \A j \in Inputs : Accounted(j) => Accounted(j)'
  BY <1>8 DEF Accounted
<1>15. /\ batch' \in Batch /\ heard' \in [Inputs -> Nat] /\ lost' \subseteq Inputs
  BY <1>1, <1>8 DEF TypeOK
<1>16. ledger'.pending # i
  BY <1>7, <1>9, NoneAssumption, ConnAssumption
<1>17. Live => Tracked(ledger, i)' \/ Anew(i)'
  <2>1. ASSUME Live PROVE Anew(i)
    <3>1. ledger.pending = i
      BY <1>3, <1>6, <2>1 DEF Kept
    <3>2. QED BY <1>1, <3>1, NoneAssumption, ConnAssumption DEF LedgerInv
  <2>2. Anew(i) => Anew(i)'
    BY <1>8, <1>9 DEF Anew, Settled, Topic, Kind
  <2>3. QED BY <2>1, <2>2
<1>18. QED BY <1>3, <1>6, <1>8, <1>9, <1>10, <1>11, <1>12, <1>13, <1>14, <1>15, <1>16, <1>17, EndKeeps

\* A segment is committed: taken, accepted, and its source released.
LEMMA CommitKeeps == ASSUME IInv, NEW c \in Conns, Commit(c) PROVE IInv'
<1>1. /\ TypeOK /\ ConnInv /\ RoomsInv /\ JobInv /\ TriggerInv /\ LedgerInv /\ Fine(ledger)
      /\ taken \in [Inputs -> Nat]
  BY DEF IInv, FlightInv, WorkInv, LedgerInv, TypeOK
<1>2. Job(c, "commit")
  BY DEF Commit
<1>3. PICK i \in Inputs : i = Input(c)
  BY <1>2, JobFacts
<1>4. PICK x \in MessageRec : x = Asked(c)
  BY <1>2, JobFacts
<1>5. PICK m \in AnswerRec : m = Ack(x) /\ m.type = "ack" /\ m.input = x.input /\ m.stage = x.stage
  BY AnswerTyped
<1>6. /\ ~Job(c, "idle") /\ ~Job(c, "line") /\ x.input = i
      /\ Kind(i) = "audio" /\ FirstTime(i) /\ (Live => Kept(c))
  BY <1>1, <1>2, <1>3, <1>4, JobFacts DEF JobInv, JobOK
<1>7. PICK r : /\ r = Release(ledger, i) /\ Fine(r) /\ Entries(r) = Entries(ledger)
               /\ Len(r.seen) <= Len(ledger.seen) /\ r.floor = ledger.floor
               /\ r.pending = IF ledger.pending = i THEN None ELSE ledger.pending
  BY <1>1, LedgerFacts
<1>8. /\ ledger' = Accept(r, i, {"committed"}) /\ Answer(c, m)
      /\ taken' = [taken EXCEPT ![i] = @ + 1]
      /\ UNCHANGED <<scenario, told, tries, half, link, ready, view, session, status, batch,
                     heard, lost, roomVars>>
  BY <1>3, <1>4, <1>5, <1>7 DEF Commit, client
<1>9. taken' = [taken EXCEPT ![i] = @ + 1] /\ taken'[i] > 0
  BY <1>1, <1>8
<1>10. Settled(i) /\ ledger'.pending = r.pending /\ (Tracked(ledger, i) => Tracked(ledger, i)')
  <2>1. {"committed"} \in SUBSET Stages
    BY DEF Stages
  <2>2. QED BY <1>1, <1>7, <1>8, <1>9, <2>1, AcceptSettles, LedgerFacts
<1>11. /\ Ends(c, m) /\ \A d \in Conns : d # c => conn'[d] = conn[d]
       /\ \A d \in Conns : ~Job(d, "idle")' => ~Job(d, "idle") /\ Input(d)' = Input(d)
       /\ ~Job(c, "line")' /\ NoneOwesMore
  BY <1>1, <1>8, AnswerEnds
<1>12. RoomsInv' /\ RoomTypeOK'
  BY <1>1, <1>6, <1>8, <1>9, <1>11, OffLine
<1>13. TriggerInv'
  BY <1>1, <1>6, <1>8, <1>9, <1>11, EndTrigger
<1>14. AckOK(m)'
  BY <1>5, <1>6, <1>8, <1>9 DEF AckOK, Kind, Topic, Accounted
<1>15. \A j \in Inputs : Accounted(j) => Accounted(j)'
  BY <1>8 DEF Accounted
<1>16. /\ batch' \in Batch /\ heard' \in [Inputs -> Nat] /\ lost' \subseteq Inputs
  BY <1>1, <1>8 DEF TypeOK
<1>17. i # None
  BY NoneAssumption, ConnAssumption
<1>18. ledger'.pending = None
  <2>1. CASE Live
    <3>1. ledger.pending = i
      BY <1>3, <1>6, <2>1 DEF Kept
    <3>2. QED BY <1>7, <1>10, <3>1
  <2>2. CASE ~Live
    <3>1. ledger.pending = None
      BY <1>1, <2>2 DEF LedgerInv
    <3>2. QED BY <1>7, <1>10, <1>17, <3>1
  <2>3. QED BY <2>1, <2>2
<1>19. ledger'.pending # i
  BY <1>17, <1>18
<1>20. Live => Tracked(ledger, i)'
  BY <1>3, <1>6, <1>10 DEF Kept, Tracked
<1>21. QED BY <1>3, <1>6, <1>8, <1>9, <1>10, <1>11, <1>12, <1>13, <1>14, <1>15, <1>16, <1>18, <1>19, <1>20, EndKeeps

\* A handler that goes on to its next stage keeps the invariant.
LEMMA TurnKeeps ==
  ASSUME IInv, NEW c \in Conns, NEW i \in Inputs, i = Input(c), ~Job(c, "idle"),
         NEW at \in {"observe", "commit"}, Turn(c, [input |-> i, at |-> at]),
         UNCHANGED <<scenario, told, tries, half, link, ready, view, ledger, session, status, batch,
                     taken, heard, lost>>,
         at = "observe" => Kind(i) # "audio" /\ taken[i] > 0,
         at = "commit" => Kind(i) = "audio" /\ FirstTime(i) /\ Unsurpassed(i),
         at = "observe" => Job(c, "line"),
         RoomTypeOK', RoomsInv'
  PROVE  IInv'
<1>1. /\ TypeOK /\ FlightInv /\ TopicInv /\ ConnInv /\ LedgerInv /\ JobInv /\ PendingIsAttended
      /\ AckInv /\ TriggerInv /\ conn \in [Conns -> ConnRec] /\ Fine(ledger) /\ Fine(ledger)'
      /\ ledger \in LedgerRec /\ Len(ledger'.seen) <= Capacity
  BY DEF IInv, FlightInv, WorkInv, LedgerInv, TypeOK, Fine
<1>2. PICK job \in JobRec : job = [input |-> i, at |-> at] /\ job.input = i /\ job.at = at
  BY DEF JobRec
<1>3. /\ conn' \in [Conns -> ConnRec]
      /\ \A d \in Conns : d # c => conn'[d] = conn[d]
      /\ conn'[c].job = job /\ conn'[c].inbox = conn[c].inbox /\ conn'[c].outbox = conn[c].outbox
      /\ conn'[c].state = conn[c].state /\ conn'[c].queue = conn[c].queue
  BY <1>1, <1>2, TurnFacts
<1>4. \A d \in Conns : conn'[d].inbox = conn[d].inbox /\ conn'[d].outbox = conn[d].outbox
                       /\ conn'[d].queue = conn[d].queue /\ conn'[d].state = conn[d].state
  BY <1>3
<1>5. /\ Input(c)' = i /\ \A a : Job(c, a)' <=> a = at
      /\ \A d \in Conns : d # c => Input(d)' = Input(d) /\ \A a : Job(d, a)' <=> Job(d, a)
  BY <1>2, <1>3 DEF Job, Input
<1>6. \A d \in Conns : Input(d)' = Input(d) /\ (Job(d, "idle")' <=> Job(d, "idle"))
  BY <1>5
<1>7. TypeOK'
  <2>1. /\ batch' \in Batch /\ taken' \in [Inputs -> Nat] /\ heard' \in [Inputs -> Nat]
        /\ lost' \subseteq Inputs
    BY <1>1 DEF TypeOK
  <2>2. QED BY <1>1, <1>3, <1>4, <2>1, HandlerTypes
<1>8. FlightInv'
  <2>1. conn[c].state \in {"open", "closing"}
    BY <1>1 DEF ConnInv
  <2>2. conn'[c].job.at # "idle" /\ conn'[c].job.input \in Inputs
    BY <1>2, <1>3
  <2>3. TopicInv' /\ ConnInv'
    BY <1>1, <1>3, <2>1, <2>2, HandlerConn
  <2>4. Counting' <=> Counting
    BY DEF Counting
  <2>5. \A j \in Inputs : (Tracked(ledger, j)' <=> Tracked(ledger, j)) /\ (Serving(j)' => Serving(j))
    BY <1>6 DEF Tracked, Entries, Serving
  <2>6. \A k \in Kinds : ledger.floor[k] <= ledger'.floor[k]
    BY <1>1 DEF LedgerRec
  <2>7. \A d \in Conns : \E k \in Nat : \A p \in DOMAIN conn'[d].inbox :
          p + k \in DOMAIN conn[d].inbox /\ conn'[d].inbox[p] = conn[d].inbox[p + k]
    <3>1. ASSUME NEW d \in Conns
          PROVE  \E k \in Nat : \A p \in DOMAIN conn'[d].inbox :
                   p + k \in DOMAIN conn[d].inbox /\ conn'[d].inbox[p] = conn[d].inbox[p + k]
      <4>1. conn'[d].inbox = conn[d].inbox
        BY <1>4
      <4>2. QED BY <1>1, <4>1, SameInbox
    <3>2. QED BY <3>1
  <2>8. Onward({})
    BY <2>4, <2>5, <2>6, <2>7 DEF Onward
  <2>9. QED BY <1>1, <1>7, <2>3, <2>8, FlightKeeps
<1>9. WorkInv'
  <2>1. Live' <=> Live
    BY DEF Live
  <2>2. LedgerInv'
    BY <1>1, <2>1, LedgerKeeps
  <2>3. \A j : /\ Kind(j)' = Kind(j) /\ (Unsurpassed(j)' <=> Unsurpassed(j))
               /\ (TwoPhase(j)' <=> TwoPhase(j)) /\ (FirstTime(j)' <=> FirstTime(j))
    BY DEF Kind, Unsurpassed, TwoPhase, FirstTime, Topic
  <2>4. ASSUME NEW d \in Conns PROVE JobOK(d)'
    <3>1. CASE Job(d, "idle")
      BY <1>6, <3>1 DEF JobOK
    <3>2. CASE ~Job(d, "idle")
      <4>1. JobOK(d)
        BY <1>1 DEF JobInv
      <4>2. PICK j : j = Input(d) /\ j = Input(d)'
        BY <1>6
      <4>3. Live' => Kept(d)'
        <5>1. SUFFICES ASSUME Live PROVE Kept(d)'
          BY <2>1
        <5>2. Kept(d)
          BY <3>2, <4>1, <5>1 DEF JobOK
        <5>3. PICK f \in Entries(ledger) : f.id = j /\ f.conn = d /\ (Kind(j) # "audio" => ~f.accepted)
          BY <4>2, <5>2 DEF Kept
        <5>4. Kind(j) = "audio" => ledger'.pending = j
          BY <4>2, <5>2 DEF Kept
        <5>5. f \in Entries(ledger)'
          BY DEF Entries
        <5>6. Kind(Input(d))' = Kind(j)
          BY <4>2 DEF Kind
        <5>7. QED BY <4>2, <5>3, <5>4, <5>5, <5>6 DEF Kept
      <4>4. ASSUME NEW b \in Conns, b # d, ~Job(b, "idle")'
            PROVE  Input(b)' # j /\ (Kind(j) = "audio" => Kind(Input(b)') # "audio")
        BY <1>6, <3>2, <4>1, <4>2, <4>4 DEF JobOK
      <4>5. /\ Job(d, "line")' => Kind(j) = "text" /\ (taken'[j] = 0 => Unsurpassed(j)')
            /\ Job(d, "observe")' => Kind(j) # "audio" /\ taken'[j] > 0
            /\ Job(d, "push")' \/ Job(d, "commit")' =>
                 Kind(j) = "audio" /\ FirstTime(j)' /\ Unsurpassed(j)'
        <5>1. CASE d = c
          BY <1>5, <2>3, <4>2, <5>1
        <5>2. CASE d # c
          BY <1>5, <2>3, <3>2, <4>1, <4>2, <5>2 DEF JobOK
        <5>3. QED BY <5>1, <5>2
      <4>6. /\ Unsurpassed(j)' => Unsurpassed(Input(d))'
            /\ FirstTime(j)' => FirstTime(Input(d))'
        BY <4>2 DEF Unsurpassed, FirstTime
      <4>7. QED BY <2>3, <4>2, <4>3, <4>4, <4>5, <4>6 DEF JobOK
    <3>3. QED BY <3>1, <3>2
  <2>5. JobInv'
    BY <2>4 DEF JobInv
  <2>6. PendingIsAttended'
    <3>1. NoJob' = NoJob
      BY DEF NoJob
    <3>2. \A d \in Conns : SentOver(ledger, ledger.pending, d)' <=> SentOver(ledger, ledger.pending, d)
      BY DEF SentOver
    <3>3. \A d \in Conns : /\ conn'[d].job.input = conn[d].job.input
                           /\ conn[d].job # NoJob => conn'[d].job # NoJob
      <4>1. conn'[c].job.input = conn[c].job.input /\ conn'[c].job # NoJob
        BY <1>2, <1>3, NoConnTyped DEF Input
      <4>2. QED BY <1>3, <4>1
    <3>4. QED BY <1>1, <1>4, <2>3, <3>1, <3>2, <3>3 DEF PendingIsAttended
  <2>7. QED BY <2>2, <2>5, <2>6 DEF WorkInv
<1>10. AckInv'
  <2>1. \A d \in Conns : \A p \in DOMAIN conn'[d].outbox :
          \E q \in DOMAIN conn[d].outbox : conn'[d].outbox[p] = conn[d].outbox[q]
    BY <1>4
  <2>2. \A j \in Inputs : Accounted(j) => Accounted(j)'
    BY DEF Accounted
  <2>3. \A j \in Inputs : (taken[j] > 0 => taken'[j] > 0) /\ (told'[j] = "acked" => told[j] = "acked")
    OBVIOUS
  <2>4. scenario' = scenario
    OBVIOUS
  <2>5. QED BY <1>1, <1>3, <2>1, <2>2, <2>3, <2>4, AckKeeps
<1>11. TriggerInv'
  <2>1. ASSUME NEW d \in Conns, Owed(d)'
        PROVE  Job(d, "observe") \/ (Job(d, "line") /\ taken'[Input(d)] > 0)
    <3>1. CASE d = c
      BY <1>5, <2>1, <3>1 DEF Owed
    <3>2. CASE d # c
      BY <1>5, <2>1, <3>2 DEF Owed
    <3>3. QED BY <3>1, <3>2
  <2>2. NoneOwesMore
    BY <2>1 DEF NoneOwesMore
  <2>3. QED BY <1>1, <1>6, <2>2, EndTrigger
<1>12. QED BY <1>7, <1>8, <1>9, <1>10, <1>11 DEF IInv

\* A segment is pushed to the recogniser: received, or on to its commit.
LEMMA PushKeeps == ASSUME IInv, NEW c \in Conns, Push(c) PROVE IInv'
<1>1. /\ TypeOK /\ ConnInv /\ RoomsInv /\ JobInv /\ TriggerInv /\ LedgerInv /\ Fine(ledger)
      /\ conn \in [Conns -> ConnRec]
  BY DEF IInv, FlightInv, WorkInv, LedgerInv, TypeOK
<1>2. Job(c, "push")
  BY DEF Push
<1>3. PICK i \in Inputs : i = Input(c)
  BY <1>2, JobFacts
<1>4. /\ ~Job(c, "idle") /\ ~Job(c, "line")
      /\ Kind(i) = "audio" /\ FirstTime(i) /\ Unsurpassed(i) /\ (Live => Kept(c))
  BY <1>1, <1>2, <1>3, JobFacts DEF JobInv, JobOK, Unsurpassed
<1>5. UNCHANGED <<scenario, told, tries, half, link, ready, view, session, status, batch,
                  taken, heard, lost, roomVars>>
  BY DEF Push, client, history
<1>6. CASE TwoPhase(i)
  <2>1. PICK x \in MessageRec : x = Asked(c)
    BY <1>2, JobFacts
  <2>2. PICK m \in AnswerRec : m = Ack(x) /\ m.type = "ack" /\ m.input = x.input /\ m.stage = x.stage
    BY AnswerTyped
  <2>3. x.input = i /\ x.stage = "received"
    BY <1>2, <1>3, <1>6, <2>1, JobFacts
  <2>4. ledger' = Accept(ledger, i, {"received"}) /\ Answer(c, m)
    BY <1>3, <1>6, <2>1, <2>2 DEF Push
  <2>5. PICK l : l = ledger
    OBVIOUS
  <2>6. /\ Settled(i) /\ ledger'.pending = ledger.pending
        /\ (Tracked(ledger, i) => Tracked(ledger, i)')
        /\ \A d : SentOver(ledger, i, d) => SentOver(ledger, i, d)'
    <3>1. {"received"} \in SUBSET Stages
      BY DEF Stages
    <3>2. Fine(l) /\ Entries(l) = Entries(ledger) /\ l.floor = ledger.floor /\ l.pending = ledger.pending
          /\ Len(l.seen) <= Len(ledger.seen) /\ ledger' = Accept(l, i, {"received"})
      BY <1>1, <2>4, <2>5, LedgerFacts
    <3>3. QED BY <1>4, <2>5, <3>1, <3>2, AcceptSettles
  <2>7. /\ Ends(c, m) /\ \A d \in Conns : d # c => conn'[d] = conn[d]
        /\ \A d \in Conns : ~Job(d, "idle")' => ~Job(d, "idle") /\ Input(d)' = Input(d)
        /\ ~Job(c, "line")' /\ NoneOwesMore
    BY <1>1, <2>4, AnswerEnds
  <2>8. RoomsInv' /\ RoomTypeOK'
    BY <1>1, <1>4, <1>5, <2>7, OffLine
  <2>9. TriggerInv'
    BY <1>1, <1>5, <2>7, EndTrigger
  <2>10. AckOK(m)'
    BY <1>4, <1>5, <2>2, <2>3 DEF AckOK, Kind, Topic, Accounted
  <2>11. \A j \in Inputs : Accounted(j) => Accounted(j)'
    BY <1>5 DEF Accounted
  <2>12. /\ batch' \in Batch /\ heard' \in [Inputs -> Nat] /\ lost' \subseteq Inputs
    BY <1>1, <1>5 DEF TypeOK
  <2>13. ledger'.pending = i => TwoPhase(i) /\ SentOver(ledger, i, c)'
    <3>1. SUFFICES ASSUME ledger.pending = i PROVE SentOver(ledger, i, c)'
      BY <1>6, <2>6
    <3>2. Live
      BY <1>1, <3>1, NoneAssumption, ConnAssumption DEF LedgerInv
    <3>3. SentOver(ledger, i, c)
      BY <1>3, <1>4, <3>2 DEF Kept, SentOver
    <3>4. QED BY <2>6, <3>3
  <2>14. Live => Tracked(ledger, i)'
    BY <1>3, <1>4, <2>6 DEF Kept, Tracked
  <2>15. QED BY <1>3, <1>4, <1>5, <2>6, <2>7, <2>8, <2>9, <2>10, <2>11, <2>12, <2>13, <2>14, EndKeeps
<1>7. CASE ~TwoPhase(i)
  <2>1. Turn(c, [input |-> i, at |-> "commit"]) /\ ledger' = ledger
    BY <1>3, <1>7 DEF Push
  <2>2. PICK job \in JobRec : job = [input |-> i, at |-> "commit"]
    BY DEF JobRec
  <2>3. (\A d \in Conns : d # c => conn'[d] = conn[d]) /\ conn'[c].job = job
    BY <1>1, <2>1, <2>2, TurnFacts
  <2>4. ~Job(c, "line")'
    BY <2>2, <2>3 DEF Job
  <2>5. RoomsInv' /\ RoomTypeOK'
    BY <1>1, <1>4, <1>5, <2>3, <2>4, OffLine
  <2>6. QED BY <1>3, <1>4, <1>5, <2>1, <2>5, TurnKeeps
<1>8. QED BY <1>6, <1>7

\* The end of a job that took its input: the receipt stays.
LEMMA ObservedKeeps ==
  ASSUME IInv, NEW c \in Conns, NEW i \in Inputs, i = Input(c), Job(c, "observe"),
         NEW m \in AnswerRec, AckOK(m)', Ends(c, m), ledger' = Accept(ledger, i, {"received"}),
         UNCHANGED <<scenario, told, tries, half, link, ready, view, session, status, taken, roomVars>>,
         batch' \in Batch, heard' \in [Inputs -> Nat], lost' \subseteq Inputs,
         \A j \in Inputs : Accounted(j) => Accounted(j)', TriggerInv'
  PROVE  IInv'
<1>1. /\ TypeOK /\ ConnInv /\ RoomsInv /\ JobInv /\ LedgerInv /\ Fine(ledger)
  BY DEF IInv, FlightInv, WorkInv, LedgerInv
<1>2. ~Job(c, "idle") /\ ~Job(c, "line")
  BY JobFacts
<1>3. Kind(i) # "audio" /\ taken[i] > 0 /\ (Live => Kept(c))
  BY <1>1, <1>2 DEF JobInv, JobOK
<1>4. /\ Settled(i) /\ ledger'.pending = ledger.pending
      /\ (Tracked(ledger, i) => Tracked(ledger, i)')
  <2>1. PICK l : l = ledger
    OBVIOUS
  <2>2. {"received"} \in SUBSET Stages
    BY DEF Stages
  <2>3. Fine(l) /\ Entries(l) = Entries(ledger) /\ l.floor = ledger.floor /\ l.pending = ledger.pending
        /\ Len(l.seen) <= Len(ledger.seen) /\ ledger' = Accept(l, i, {"received"})
    BY <1>1, <2>1, LedgerFacts
  <2>4. QED BY <1>3, <2>1, <2>2, <2>3, AcceptSettles
<1>5. (\A d \in Conns : d # c => conn'[d] = conn[d]) /\ ~Job(c, "line")'
  BY <1>1, EndJobs DEF Ends
<1>6. RoomsInv' /\ RoomTypeOK'
  BY <1>1, <1>2, <1>5, OffLine
<1>7. ledger'.pending # i
  BY <1>1, <1>3, <1>4, NoneAssumption, ConnAssumption DEF LedgerInv
<1>8. Live => Tracked(ledger, i)'
  BY <1>3, <1>4 DEF Kept, Tracked
<1>9. QED BY <1>2, <1>4, <1>6, <1>7, <1>8, EndKeeps

\* An observation the scheduler refuses: rejected, though it was taken.
LEMMA ObserveFailsKeeps == ASSUME IInv, NEW c \in Conns, ObserveFails(c) PROVE IInv'
<1>1. TypeOK /\ ConnInv /\ TriggerInv
  BY DEF IInv, FlightInv
<1>2. Job(c, "observe")
  BY DEF ObserveFails
<1>3. PICK i \in Inputs : i = Input(c)
  BY <1>2, JobFacts
<1>4. PICK x \in MessageRec : x = Asked(c)
  BY <1>2, JobFacts
<1>5. PICK m \in AnswerRec : m = Rejected(x) /\ m.type # "ack"
  BY AnswerTyped
<1>6. /\ ledger' = Accept(ledger, i, {"received"}) /\ Answer(c, m)
      /\ UNCHANGED <<scenario, told, tries, half, link, ready, view, session, status, batch,
                     taken, heard, lost, roomVars>>
  BY <1>3, <1>4, <1>5 DEF ObserveFails, client, history
<1>7. /\ Ends(c, m) /\ NoneOwesMore
      /\ \A d \in Conns : ~Job(d, "idle")' => ~Job(d, "idle") /\ Input(d)' = Input(d)
  BY <1>1, <1>6, AnswerEnds
<1>8. TriggerInv'
  BY <1>1, <1>6, <1>7, EndTrigger
<1>9. AckOK(m)'
  BY <1>5, NoAckOK
<1>10. \A j \in Inputs : Accounted(j) => Accounted(j)'
  BY <1>6 DEF Accounted
<1>11. /\ batch' \in Batch /\ heard' \in [Inputs -> Nat] /\ lost' \subseteq Inputs
  BY <1>1, <1>6 DEF TypeOK
<1>12. QED BY <1>2, <1>3, <1>6, <1>7, <1>8, <1>9, <1>10, <1>11, ObservedKeeps

\* What is observed, or gathered for the timer, is new there.
LEMMA TriggerFacts ==
  ASSUME IInv, NEW c \in Conns, NEW i \in Inputs, i = Input(c), Job(c, "observe"), Trigger(i),
         \A d \in Conns : ~Job(d, "idle")' => ~Job(d, "idle") /\ Input(d)' = Input(d) /\ d # c,
         NoneOwesMore, UNCHANGED <<scenario, session, taken, lost>>
  PROVE  /\ TriggerInv' /\ batch' \in Batch /\ heard' \in [Inputs -> Nat]
         /\ \A j \in Inputs : Accounted(j) => Accounted(j)'
         /\ Topic = "batch" /\ Kind(i) = "text" => Accounted(i)'
<1>1. /\ TypeOK /\ TriggerInv /\ TopicInv /\ JobInv /\ batch \in Batch /\ heard \in [Inputs -> Nat]
      /\ taken \in [Inputs -> Nat]
  BY DEF IInv, FlightInv, WorkInv, TypeOK
<1>2. ~Job(c, "idle")
  BY DEF Job
<1>3. taken[i] > 0 /\ \A d \in Conns : d # c /\ ~Job(d, "idle") => Input(d) # i
  BY <1>1, <1>2 DEF JobInv, JobOK
<1>4. ASSUME Topic # "network"
      PROVE  AccountsInv /\ ~Accounted(i) /\ i \notin batch.processed /\ heard[i] = 0
  <2>1. AccountsInv /\ ~Accounted(i) /\ i \notin batch.processed
    BY <1>1, <1>2, <1>4 DEF TriggerInv, AccountsInv
  <2>2. heard[i] \in Nat
    BY <1>1
  <2>3. QED BY <2>1, <2>2 DEF Accounted
<1>5. (\A d \in Conns : Job(d, "idle")' \/ Input(d)' # i) /\ Topic' = Topic /\ (Live' <=> Live)
  BY <1>3 DEF Topic, Live
<1>6. CASE UNCHANGED <<batch, heard>> /\ (Kind(i) = "frame" \/ ~Accepting)
  <2>1. TriggerInv'
    BY <1>1, <1>6, EndTrigger
  <2>2. \A j \in Inputs : Accounted(j) => Accounted(j)'
    BY <1>6 DEF Accounted
  <2>3. ~(Topic = "batch" /\ Kind(i) = "text")
    BY <1>1, <1>6 DEF TopicInv, Accepting
  <2>4. QED BY <1>1, <1>6, <2>1, <2>2, <2>3
<1>7. CASE batch.on /\ batch' = Accumulate(batch, {i}) /\ heard' = heard
  <2>0. Topic # "network" /\ i \notin batch.processed
    BY <1>1, <1>4, <1>7 DEF TriggerInv, CountInv
  <2>1. /\ batch' \in Batch /\ batch'.delta = batch.delta \cup {i}
        /\ batch'.tick = batch.tick /\ batch'.ticking = batch.ticking
        /\ batch'.processed = batch.processed
    BY <1>1, <1>7, <2>0 DEF Accumulate, Batch
  <2>2. \A j \in Inputs : Accounted(j)' <=> Accounted(j) \/ j = i
    BY <1>7, <2>1 DEF Accounted
  <2>3. TriggerInv'
    <3>1. ASSUME NEW j \in Inputs
          PROVE  /\ heard'[j] <= 1 /\ taken'[j] <= 1
                 /\ Accounted(j)' \/ j \in batch'.processed =>
                      taken'[j] > 0 /\ \A d \in Conns : (Job(d, "idle") \/ Input(d) # j)'
                 /\ j \in batch'.delta => j \notin batch'.tick /\ j \notin lost' /\ heard'[j] = 0
                 /\ j \in batch'.tick => j \notin lost' /\ heard'[j] = 0
                 /\ j \in lost' => heard'[j] = 0
      <4>1. CASE j = i
        BY <1>1, <1>3, <1>4, <1>5, <1>7, <2>0, <2>1, <4>1 DEF Accounted, AccountsInv
      <4>2. CASE j # i
        BY <1>1, <1>4, <1>7, <2>0, <2>1, <2>2, <4>2 DEF AccountsInv
      <4>3. QED BY <4>1, <4>2
    <3>2. AccountsInv'
      BY <3>1 DEF AccountsInv
    <3>3. QED BY <1>1, <1>5, <2>0, <2>1, <3>2 DEF TriggerInv
  <2>4. QED BY <1>1, <1>7, <2>1, <2>2, <2>3
<1>8. CASE batch' = batch /\ Submitted({i})
  <2>1. heard' = [j \in Inputs |-> IF j = i THEN heard[j] + 1 ELSE heard[j]]
    BY <1>8 DEF Submitted
  <2>2. /\ heard' \in [Inputs -> Nat] /\ heard'[i] = heard[i] + 1 /\ heard'[i] > 0
        /\ \A j \in Inputs : j # i => heard'[j] = heard[j]
    BY <1>1, <2>1
  <2>3. \A j \in Inputs : Accounted(j)' <=> Accounted(j) \/ j = i
    BY <1>8, <2>2 DEF Accounted
  <2>4. CASE Topic # "network"
    <3>1. ASSUME NEW j \in Inputs
          PROVE  /\ heard'[j] <= 1 /\ taken'[j] <= 1
                 /\ Accounted(j)' \/ j \in batch'.processed =>
                      taken'[j] > 0 /\ \A d \in Conns : (Job(d, "idle") \/ Input(d) # j)'
                 /\ j \in batch'.delta => j \notin batch'.tick /\ j \notin lost' /\ heard'[j] = 0
                 /\ j \in batch'.tick => j \notin lost' /\ heard'[j] = 0
                 /\ j \in lost' => heard'[j] = 0
      <4>1. CASE j = i
        BY <1>1, <1>3, <1>4, <1>5, <1>8, <2>2, <2>4, <4>1 DEF Accounted, AccountsInv
      <4>2. CASE j # i
        BY <1>1, <1>4, <1>8, <2>2, <2>3, <2>4, <4>2 DEF AccountsInv
      <4>3. QED BY <4>1, <4>2
    <3>2. AccountsInv'
      BY <3>1 DEF AccountsInv
    <3>3. TriggerInv'
      BY <1>1, <1>5, <1>8, <2>4, <3>2 DEF TriggerInv
    <3>4. QED BY <1>1, <1>8, <2>2, <2>3, <3>3
  <2>5. CASE Topic = "network"
    <3>1. CountInv /\ heard[i] < taken[i]
      <4>1. CountInv
        BY <1>1, <2>5 DEF TriggerInv
      <4>2. QED BY <4>1 DEF CountInv, Owed
    <3>2. ASSUME NEW j \in Inputs PROVE heard'[j] <= taken'[j]
      <4>1. CASE j = i
        BY <1>1, <2>2, <3>1, <4>1
      <4>2. CASE j # i
        BY <2>2, <3>1, <4>2 DEF CountInv
      <4>3. QED BY <4>1, <4>2
    <3>3. ASSUME NEW d \in Conns, Owed(d)' PROVE heard'[Input(d)'] < taken'[Input(d)']
      <4>1. /\ Owed(d) /\ ~Job(d, "idle")' /\ Input(d)' = Input(d)
        <5>1. ~Job(d, "idle")' /\ Input(d)' \in Inputs
          BY <3>3 DEF Owed, Job
        <5>2. QED BY <3>3, <5>1 DEF NoneOwesMore, Owed
      <4>2. Input(d) # i /\ Input(d) \in Inputs
        BY <1>5, <4>1 DEF Owed
      <4>3. heard[Input(d)] < taken[Input(d)]
        BY <3>1, <4>1 DEF CountInv
      <4>4. QED BY <2>2, <4>1, <4>2, <4>3
    <3>4. CountInv'
      BY <1>8, <3>1, <3>2, <3>3 DEF CountInv
    <3>5. TriggerInv'
      BY <1>1, <1>5, <1>8, <2>5, <3>4 DEF TriggerInv
    <3>6. QED BY <1>1, <1>8, <2>2, <2>3, <2>5, <3>5
  <2>6. QED BY <2>4, <2>5
<1>9. QED BY <1>6, <1>7, <1>8 DEF Trigger

\* An observation succeeds: the input triggers the viewers and is acknowledged.
LEMMA ObserveKeeps == ASSUME IInv, NEW c \in Conns, Observe(c) PROVE IInv'
<1>1. TypeOK /\ ConnInv /\ JobInv
  BY DEF IInv, FlightInv, WorkInv
<1>2. Job(c, "observe")
  BY DEF Observe
<1>3. PICK i \in Inputs : i = Input(c)
  BY <1>2, JobFacts
<1>4. PICK x \in MessageRec : x = Asked(c)
  BY <1>2, JobFacts
<1>5. PICK m \in AnswerRec : m = Ack(x) /\ m.type = "ack" /\ m.input = x.input /\ m.stage = x.stage
  BY AnswerTyped
<1>6. /\ ledger' = Accept(ledger, i, {"received"}) /\ Answer(c, m) /\ Trigger(i)
      /\ UNCHANGED <<scenario, told, tries, half, link, ready, view, session, status,
                     taken, lost, roomVars>>
  BY <1>3, <1>4, <1>5 DEF Observe, client
<1>7. /\ Ends(c, m) /\ NoneOwesMore
      /\ \A d \in Conns : ~Job(d, "idle")' => ~Job(d, "idle") /\ Input(d)' = Input(d) /\ d # c
  <2>1. /\ Ends(c, m) /\ NoneOwesMore
        /\ \A d \in Conns : ~Job(d, "idle")' => ~Job(d, "idle") /\ Input(d)' = Input(d)
    BY <1>1, <1>6, AnswerEnds
  <2>2. Job(c, "idle")'
    BY <1>1, <2>1, EndJobs
  <2>3. QED BY <2>1, <2>2
<1>8. /\ TriggerInv' /\ batch' \in Batch /\ heard' \in [Inputs -> Nat]
      /\ \A j \in Inputs : Accounted(j) => Accounted(j)'
      /\ Topic = "batch" /\ Kind(i) = "text" => Accounted(i)'
  BY <1>2, <1>3, <1>6, <1>7, TriggerFacts
<1>9. AckOK(m)'
  <2>1. x.input = i
    BY <1>2, <1>3, <1>4, JobFacts
  <2>2. taken[i] > 0
    BY <1>1, <1>2, <1>3, JobFacts DEF JobInv, JobOK
  <2>3. QED BY <1>5, <1>6, <1>8, <2>1, <2>2 DEF AckOK, Kind, Topic, Accounted
<1>10. lost' \subseteq Inputs
  BY <1>1, <1>6 DEF TypeOK
<1>11. QED BY <1>2, <1>3, <1>6, <1>7, <1>8, <1>9, <1>10, ObservedKeeps
-----------------------------------------------------------------------------
(* The room and who writes to it.                                          *)

\* All of a sequence but its last element.
LEMMA FrontFacts ==
  ASSUME NEW S, NEW s \in Seq(S), s # <<>>
  PROVE  /\ Front(s) \in Seq(S) /\ Len(s) \in Nat \ {0} /\ Len(Front(s)) = Len(s) - 1
         /\ \A p \in 1..Len(s)-1 : Front(s)[p] = s[p]
<1>1. Len(s) \in Nat /\ Len(s) # 0 /\ \A p \in 1..Len(s) : s[p] \in S
  OBVIOUS
<1>2. PICK n \in Nat : n = Len(s) /\ n # 0
  BY <1>1
<1>3. n - 1 \in Int /\ 1 \in Int /\ n - 1 - 1 + 1 = n - 1 /\ n - 1 \in Nat
  BY <1>2
<1>4. \A p \in 1..n-1 : s[p] \in S
  BY <1>1, <1>2
<1>5. /\ SubSeq(s, 1, n-1) \in Seq(S)
      /\ Len(SubSeq(s, 1, n-1)) = (IF 1 <= n - 1 THEN n - 1 - 1 + 1 ELSE 0)
      /\ \A p \in 1..n-1-1+1 : SubSeq(s, 1, n-1)[p] = s[1 + p - 1]
  BY <1>3, <1>4, SubSeqProperties
<1>6. Len(SubSeq(s, 1, n-1)) = n - 1
  BY <1>2, <1>3, <1>5
<1>7. \A p \in 1..n-1 : SubSeq(s, 1, n-1)[p] = s[p]
  BY <1>3, <1>5
<1>8. Front(s) = SubSeq(s, 1, n-1)
  BY <1>2 DEF Front
<1>9. QED BY <1>2, <1>5, <1>6, <1>7, <1>8

\* The front of an appended sequence is the sequence.
LEMMA FrontOfAppend == ASSUME NEW S, NEW s \in Seq(S), NEW x \in S PROVE Front(Append(s, x)) = s
<1>1. PICK t \in Seq(S) : t = Append(s, x) /\ t # <<>> /\ Len(t) = Len(s) + 1
  <2>1. Append(s, x) \in Seq(S) /\ Append(s, x) # <<>> /\ Len(Append(s, x)) = Len(s) + 1
    BY AppendTyped, AppendOrder
  <2>2. QED BY <2>1
<1>2. Len(s) \in Nat
  OBVIOUS
<1>3. PICK f \in Seq(S) : f = Front(t) /\ Len(f) = Len(s) /\ \A p \in 1..Len(s) : f[p] = t[p]
  <2>1. /\ Front(t) \in Seq(S) /\ Len(Front(t)) = Len(t) - 1
        /\ \A p \in 1..Len(t)-1 : Front(t)[p] = t[p]
    BY <1>1, FrontFacts
  <2>2. Len(t) - 1 = Len(s)
    BY ONLY <1>1, <1>2
  <2>3. QED BY ONLY <2>1, <2>2
<1>4. \A p \in 1..Len(s) : t[p] = s[p]
  <2>1. \A p \in DOMAIN s : Append(s, x)[p] = s[p]
    BY AppendOrder
  <2>2. QED BY <1>1, <2>1
<1>5. f = s
  BY <1>3, <1>4, SeqEqual
<1>6. QED BY <1>1, <1>3, <1>5

\* A sequence is its front and its last member.
LEMMA FrontAndLast ==
  ASSUME NEW S, NEW s \in Seq(S), s # <<>>, NEW x \in S, x = s[Len(s)]
  PROVE  Append(Front(s), x) = s
<1>1. PICK f \in Seq(S) : /\ f = Front(s) /\ Len(s) \in Nat \ {0} /\ Len(f) = Len(s) - 1
                          /\ \A p \in 1..Len(s)-1 : f[p] = s[p]
  BY FrontFacts
<1>2. PICK t \in Seq(S) : t = Append(f, x)
  BY AppendTyped
<1>3. Len(t) = Len(f) + 1 /\ t[Len(f) + 1] = x /\ \A p \in 1..Len(f) : t[p] = f[p]
  BY <1>2
<1>4. Len(t) = Len(s) /\ t[Len(s)] = x /\ \A p \in 1..Len(s)-1 : t[p] = s[p]
  BY <1>1, <1>3
<1>5. \A p \in 1..Len(s) : t[p] = s[p]
  <2>1. \A p \in 1..Len(s) : p \in 1..Len(s)-1 \/ p = Len(s)
    BY <1>1
  <2>2. QED BY <1>4, <2>1
<1>6. t = s
  BY <1>4, <1>5, SeqEqual
<1>7. QED BY <1>1, <1>2, <1>6

\* The rest of a sequence.
LEMMA TailFacts ==
  ASSUME NEW S, NEW s \in Seq(S), s # <<>>
  PROVE  /\ Head(s) = s[1] /\ 1 \in DOMAIN s /\ Tail(s) \in Seq(S)
         /\ \A p \in DOMAIN Tail(s) : p \in Nat \ {0} /\ p + 1 \in DOMAIN s /\ Tail(s)[p] = s[p + 1]
         /\ \A p \in DOMAIN s : p \in Nat \ {0} /\ (p # 1 => p - 1 \in DOMAIN Tail(s) /\ Tail(s)[p - 1] = s[p])
OBVIOUS

\* Whoever holds the lock leaves the line.
LEMMA LineLeft ==
  ASSUME LineInv, RoomTypeOK, line # <<>>, line' = Tail(line),
         \A d \in Conns : d # Head(line).writer => conn'[d].job = conn[d].job,
         \A d \in Conns : d = Head(line).writer => ~Job(d, "line")',
         UNCHANGED <<taken, active>>
  PROVE  LineInv' /\ line' \in Seq(Writing) /\ \A p \in DOMAIN line' : ~line'[p].written
<1>1. PICK s \in Seq(Writing) : s = line
  BY DEF RoomTypeOK
<1>2. PICK t \in Seq(Writing) : t = Tail(s)
  BY <1>1, TailFacts
<1>3. /\ Head(s) = s[1] /\ 1 \in DOMAIN s
      /\ \A p \in DOMAIN t : p \in Nat \ {0} /\ p + 1 \in DOMAIN s /\ t[p] = s[p + 1]
      /\ \A p \in DOMAIN s : p \in Nat \ {0} /\ (p # 1 => p - 1 \in DOMAIN t /\ t[p - 1] = s[p])
  BY <1>1, <1>2, TailFacts
<1>4. line' = t
  BY <1>1, <1>2
<1>5. PICK w : w = s[1].writer
  OBVIOUS
<1>6. \A p, q \in DOMAIN s : p < q =>
         /\ s[p].writer # s[q].writer
         /\ s[p].event # Viewer /\ s[q].event # Viewer => s[p].event < s[q].event
  BY <1>1 DEF LineInv
<1>7. ASSUME NEW p \in DOMAIN t
      PROVE  /\ ~t[p].written
             /\ \/ t[p].writer = Viewer /\ t[p].event = Viewer
                \/ /\ t[p].writer \in Conns /\ t[p].event \in Inputs
                   /\ conn'[t[p].writer].job = [input |-> t[p].event, at |-> "line"]
                   /\ t[p].written <=> taken'[t[p].event] > 0
  <2>1. PICK q \in DOMAIN s : q = p + 1 /\ t[p] = s[q] /\ 1 < q
    <3>1. p \in Nat \ {0} /\ p + 1 \in DOMAIN s /\ t[p] = s[p + 1]
      BY <1>3
    <3>2. QED BY <3>1
  <2>2. s[q].writer # w
    BY <1>3, <1>5, <1>6, <2>1
  <2>3. ~s[q].written
    <3>1. q # 1
      BY <1>3, <2>1
    <3>2. QED BY <1>1, <3>1 DEF RoomTypeOK
  <2>4. \/ s[q].writer = Viewer /\ s[q].event = Viewer
        \/ /\ s[q].writer \in Conns /\ s[q].event \in Inputs
           /\ conn[s[q].writer].job = [input |-> s[q].event, at |-> "line"]
           /\ s[q].written <=> taken[s[q].event] > 0
    BY <1>1 DEF LineInv
  <2>5. QED BY <1>1, <1>3, <1>5, <2>1, <2>2, <2>3, <2>4
<1>8. ASSUME NEW d \in Conns, Job(d, "line")' PROVE InLine(d)'
  <2>1. d # w
    BY <1>1, <1>3, <1>5, <1>8
  <2>2. Job(d, "line")
    BY <1>1, <1>3, <1>5, <1>8, <2>1 DEF Job
  <2>3. PICK p \in DOMAIN s : s[p].writer = d
    BY <1>1, <2>2 DEF LineInv, InLine
  <2>4. p - 1 \in DOMAIN t /\ t[p - 1] = s[p]
    BY <1>3, <1>5, <2>1, <2>3
  <2>5. QED BY <1>4, <2>3, <2>4 DEF InLine
<1>9. ASSUME NEW p \in DOMAIN t, NEW q \in DOMAIN t, p < q
      PROVE  /\ t[p].writer # t[q].writer
             /\ t[p].event # Viewer /\ t[q].event # Viewer => t[p].event < t[q].event
  <2>1. PICK a \in DOMAIN s, b \in DOMAIN s : a = p + 1 /\ b = q + 1 /\ t[p] = s[a] /\ t[q] = s[b]
    BY <1>3
  <2>2. p \in Nat /\ q \in Nat
    BY <1>3
  <2>3. a < b
    BY <1>9, <2>1, <2>2
  <2>4. QED BY <1>6, <2>1, <2>3
<1>10. active
  BY DEF LineInv
<1>11. LineInv'
  BY <1>4, <1>7, <1>8, <1>9, <1>10 DEF LineInv
<1>12. QED BY <1>4, <1>7, <1>11

\* A writer that gives up.
LEMMA GiveUpRooms ==
  ASSUME TypeOK, RoomsInv, NEW w, GiveUp(w),
         \A d \in Conns : d # w => conn'[d].job = conn[d].job,
         w \in Conns => ~Job(w, "line")',
         UNCHANGED <<taken, session>>
  PROVE  RoomsInv' /\ RoomTypeOK'
<1>1. LineInv /\ RoomInv /\ RoomTypeOK
  BY DEF RoomsInv, TypeOK
<1>2. /\ line # <<>> /\ Head(line).writer = w /\ ~Head(line).written /\ line' = Tail(line)
      /\ UNCHANGED <<rows, active, events, next>>
  BY DEF GiveUp
<1>3. LineInv' /\ line' \in Seq(Writing) /\ \A p \in DOMAIN line' : ~line'[p].written
  BY <1>1, <1>2, LineLeft
<1>4. line' # <<>> => 1 \in DOMAIN line' /\ Head(line') = line'[1]
  BY <1>3, TailFacts
<1>5. RoomMatchesLog'
  BY <1>1, <1>2, <1>3, <1>4 DEF RoomInv, RoomMatchesLog
<1>6. RoomInv'
  BY <1>1, <1>2, <1>3, <1>4, <1>5 DEF RoomInv
<1>7. RoomTypeOK'
  BY <1>1, <1>2, <1>3 DEF RoomTypeOK
<1>8. QED BY <1>3, <1>6, <1>7 DEF RoomsInv

RowRec == [sequence : Nat, event : Events]

\* What is read from the room when its lock was last used.
LEMMA RoomNow ==
  ASSUME RoomInv, RoomTypeOK, active
  PROVE  /\ rows \in Seq(RowRec) /\ Len(rows) \in Nat /\ DOMAIN rows = 1..Len(rows)
         /\ \A p \in DOMAIN rows : rows[p] = Row(p, rows[p].event) /\ rows[p].event \in Events
         /\ ~(line # <<>> /\ Head(line).written) => events = rows /\ next = Len(rows) + 1
         /\ line # <<>> /\ Head(line).written =>
              /\ rows # <<>> /\ events = Front(rows) /\ next = Len(rows)
              /\ rows[Len(rows)].event = Head(line).event
<1>1. PICK r \in Seq(RowRec) : r = rows
  BY DEF RoomTypeOK, RowRec
<1>2. Len(r) \in Nat /\ DOMAIN r = 1..Len(r) /\ \A p \in DOMAIN r : r[p] \in RowRec
  OBVIOUS
<1>3. ASSUME NEW p \in DOMAIN r PROVE r[p] = Row(p, r[p].event) /\ r[p].event \in Events
  <2>1. r[p].sequence = p
    BY <1>1 DEF RoomInv
  <2>2. QED BY <1>2, <2>1 DEF Row, RowRec
<1>4. CASE ~(line # <<>> /\ Head(line).written)
  BY <1>1, <1>2, <1>3, <1>4 DEF RoomInv, RoomMatchesLog
<1>5. CASE line # <<>> /\ Head(line).written
  <2>1. Head(line) = line[1]
    BY <1>5, TailFacts DEF RoomTypeOK
  <2>2. r # <<>> /\ r[Len(r)].event = Head(line).event
    BY <1>1, <1>5, <2>1 DEF RoomInv
  <2>3. events = Front(r) /\ next = Len(Front(r)) + 1
    BY <1>1, <1>5 DEF RoomInv, RoomMatchesLog
  <2>4. Len(Front(r)) = Len(r) - 1
    BY <2>2, FrontFacts
  <2>5. next = Len(r)
    BY <1>2, <2>3, <2>4
  <2>6. QED BY <1>1, <1>2, <1>3, <1>5, <2>2, <2>3, <2>5
<1>6. QED BY <1>4, <1>5
-----------------------------------------------------------------------------

\* A writer whose event is written shows it and leaves.
LEMMA ShowRooms ==
  ASSUME TypeOK, RoomsInv, NEW w, Show(w),
         \A d \in Conns : d # w => conn'[d].job = conn[d].job,
         w \in Conns => ~Job(w, "line")',
         UNCHANGED <<taken, session>>
  PROVE  RoomsInv' /\ RoomTypeOK'
<1>1. LineInv /\ RoomInv /\ RoomTypeOK
  BY DEF RoomsInv, TypeOK
<1>2. /\ line # <<>> /\ Head(line).writer = w /\ Head(line).written /\ line' = Tail(line)
      /\ events' = Append(events, Row(next, Head(line).event)) /\ next' = next + 1
      /\ UNCHANGED <<rows, active>>
  BY DEF Show
<1>3. LineInv' /\ line' \in Seq(Writing) /\ \A p \in DOMAIN line' : ~line'[p].written
  BY <1>1, <1>2, LineLeft
<1>4. line' # <<>> => 1 \in DOMAIN line' /\ Head(line') = line'[1]
  BY <1>3, TailFacts
<1>5. active
  BY <1>1, <1>2 DEF LineInv
<1>6. /\ rows \in Seq(RowRec) /\ Len(rows) \in Nat /\ DOMAIN rows = 1..Len(rows)
      /\ \A p \in DOMAIN rows : rows[p] = Row(p, rows[p].event)
      /\ rows # <<>> /\ events = Front(rows) /\ next = Len(rows)
      /\ rows[Len(rows)].event = Head(line).event
  BY <1>1, <1>2, <1>5, RoomNow
<1>7. PICK r \in Seq(RowRec) : r = rows
  BY <1>6
<1>8. Len(r) \in DOMAIN r /\ r[Len(r)] \in RowRec
  BY <1>6, <1>7
<1>9. r[Len(r)] = Row(next, Head(line).event)
  BY <1>6, <1>7, <1>8
<1>10. events' = r
  <2>1. Append(Front(r), r[Len(r)]) = r
    BY <1>6, <1>7, <1>8, FrontAndLast
  <2>2. QED BY <1>2, <1>6, <1>7, <1>9, <2>1
<1>11. next' = Len(r) + 1 /\ next' \in Nat
  BY <1>2, <1>6, <1>7
<1>12. RoomMatchesLog'
  BY <1>1, <1>2, <1>3, <1>4, <1>7, <1>10, <1>11 DEF RoomInv, RoomMatchesLog
<1>13. RoomInv'
  BY <1>1, <1>2, <1>3, <1>4, <1>12 DEF RoomInv
<1>14. RoomTypeOK'
  BY <1>1, <1>2, <1>3, <1>7, <1>10, <1>11 DEF RoomTypeOK, RowRec
<1>15. QED BY <1>3, <1>13, <1>14 DEF RoomsInv

\* Marking the first writing of the line as written.
LEMMA MarkFacts ==
  ASSUME NEW s \in Seq(Writing), s # <<>>, NEW t, t = [s EXCEPT ![1].written = TRUE]
  PROVE  /\ t \in Seq(Writing) /\ DOMAIN t = DOMAIN s /\ 1 \in DOMAIN s /\ t # <<>>
         /\ Head(t) = t[1] /\ Head(s) = s[1] /\ t[1].written
         /\ t[1].writer = s[1].writer /\ t[1].event = s[1].event
         /\ \A p \in DOMAIN s : p # 1 => t[p] = s[p]
<1>1. 1 \in DOMAIN s /\ Head(s) = s[1] /\ s[1] \in Writing
  OBVIOUS
<1>2. PICK x \in Writing : x = [s[1] EXCEPT !.written = TRUE]
  BY <1>1 DEF Writing
<1>3. x.written /\ x.writer = s[1].writer /\ x.event = s[1].event
  BY <1>1, <1>2 DEF Writing
<1>4. t = [s EXCEPT ![1] = x]
  BY <1>2
<1>5. t \in Seq(Writing) /\ DOMAIN t = DOMAIN s /\ t # <<>> /\ Head(t) = t[1]
  <2>1. PICK n \in Nat : n = Len(s) /\ s \in [1..n -> Writing] /\ n > 0
    OBVIOUS
  <2>2. t \in [1..n -> Writing]
    BY <1>4, <2>1
  <2>3. t \in Seq(Writing)
    BY <2>2
  <2>4. DOMAIN t = DOMAIN s
    BY <2>1, <2>2
  <2>5. t # <<>>
    BY <1>1, <2>4
  <2>6. QED BY <2>3, <2>4, <2>5
<1>6. t[1] = x /\ \A p \in DOMAIN s : p # 1 => t[p] = s[p]
  BY <1>1, <1>4
<1>7. QED BY <1>1, <1>3, <1>5, <1>6

\* The durable write of whoever holds the lock.
LEMMA PersistRooms ==
  ASSUME TypeOK, RoomsInv, NEW w, Persist(w), UNCHANGED <<conn, session>>,
         \/ w = Viewer /\ taken' = taken
         \/ w \in Conns /\ Job(w, "line") /\ taken' = [taken EXCEPT ![Input(w)] = @ + 1]
  PROVE  RoomsInv' /\ RoomTypeOK'
<1>1. LineInv /\ RoomInv /\ RoomTypeOK /\ taken \in [Inputs -> Nat]
  BY DEF RoomsInv, TypeOK
<1>2. /\ line # <<>> /\ Head(line).writer = w /\ ~Head(line).written
      /\ rows' = Append(rows, Row(next, Head(line).event))
      /\ line' = [line EXCEPT ![1].written = TRUE]
      /\ UNCHANGED <<active, events, next>>
  BY DEF Persist
<1>3. PICK s \in Seq(Writing) : s = line
  BY <1>1 DEF RoomTypeOK
<1>4. PICK t : t = [s EXCEPT ![1].written = TRUE]
  OBVIOUS
<1>5. /\ t \in Seq(Writing) /\ DOMAIN t = DOMAIN s /\ 1 \in DOMAIN s /\ t # <<>>
      /\ Head(t) = t[1] /\ Head(s) = s[1] /\ t[1].written
      /\ t[1].writer = s[1].writer /\ t[1].event = s[1].event
      /\ \A p \in DOMAIN s : p # 1 => t[p] = s[p]
  <2>1. s # <<>>
    BY <1>2, <1>3
  <2>2. QED BY ONLY <1>4, <2>1, MarkFacts
<1>6. line' = t /\ s[1].writer = w /\ DOMAIN s \subseteq Nat \ {0}
  <2>1. DOMAIN s \subseteq Nat \ {0}
    OBVIOUS
  <2>2. QED BY <1>2, <1>3, <1>4, <1>5, <2>1
<1>7. active
  BY <1>1, <1>2 DEF LineInv
<1>8. Viewer \notin Conns /\ Viewer \notin Inputs /\ Inputs \subseteq Nat
  BY ConnAssumption DEF Viewer
<1>9. ASSUME NEW p \in DOMAIN s
      PROVE  \/ s[p].writer = Viewer /\ s[p].event = Viewer
             \/ /\ s[p].writer \in Conns /\ s[p].event \in Inputs
                /\ conn[s[p].writer].job = [input |-> s[p].event, at |-> "line"]
                /\ s[p].written <=> taken[s[p].event] > 0
  BY <1>1, <1>3 DEF LineInv
<1>10. ASSUME w \in Conns PROVE Input(w) = s[1].event /\ s[1].event \in Inputs
  <2>1. w # Viewer
    BY <1>8, <1>10
  <2>2. s[1].event \in Inputs /\ conn[s[1].writer].job = [input |-> s[1].event, at |-> "line"]
    BY <1>5, <1>6, <1>9, <2>1
  <2>3. QED BY <1>6, <2>2 DEF Input
<1>11. ASSUME NEW p \in DOMAIN s, p # 1, s[p].writer # Viewer
       PROVE  taken'[s[p].event] = taken[s[p].event]
  <2>1. s[p].event \in Inputs
    BY <1>9, <1>11
  <2>2. CASE taken' = taken
    BY <2>2
  <2>3. CASE w \in Conns /\ taken' = [taken EXCEPT ![Input(w)] = @ + 1]
    <3>1. 1 < p
      BY <1>6, <1>11
    <3>2. s[1].event # Viewer /\ s[p].event # Viewer
      BY <1>8, <1>10, <2>1, <2>3
    <3>3. s[1].event < s[p].event
      <4>1. \A a, b \in DOMAIN s : a < b =>
               (s[a].event # Viewer /\ s[b].event # Viewer => s[a].event < s[b].event)
        BY <1>1, <1>3 DEF LineInv
      <4>2. QED BY <1>5, <3>1, <3>2, <4>1
    <3>4. s[p].event # Input(w)
      <4>1. \A a, b \in Nat : a < b => a # b
        OBVIOUS
      <4>2. s[1].event \in Nat /\ s[p].event \in Nat /\ Input(w) = s[1].event
        BY <1>8, <1>10, <2>1, <2>3
      <4>3. QED BY <3>3, <4>1, <4>2
    <3>5. QED BY <1>1, <2>1, <2>3, <3>4
  <2>4. QED BY <2>2, <2>3
<1>12. ASSUME NEW p \in DOMAIN t
       PROVE  \/ t[p].writer = Viewer /\ t[p].event = Viewer
              \/ /\ t[p].writer \in Conns /\ t[p].event \in Inputs
                 /\ conn'[t[p].writer].job = [input |-> t[p].event, at |-> "line"]
                 /\ t[p].written <=> taken'[t[p].event] > 0
  <2>1. CASE p # 1
    <3>1. t[p] = s[p]
      BY <1>5, <2>1
    <3>2. CASE s[p].writer # Viewer
      BY <1>5, <1>9, <1>11, <2>1, <3>1, <3>2
    <3>3. CASE s[p].writer = Viewer
      BY <1>5, <1>8, <1>9, <3>1, <3>3
    <3>4. QED BY <3>2, <3>3
  <2>2. CASE p = 1
    <3>1. CASE w \in Conns /\ taken' = [taken EXCEPT ![Input(w)] = @ + 1]
      <4>1. taken'[s[1].event] > 0
        BY <1>1, <1>10, <3>1
      <4>2. conn[s[1].writer].job = [input |-> s[1].event, at |-> "line"]
        BY <1>5, <1>6, <1>8, <1>9, <3>1
      <4>3. QED BY <1>5, <1>6, <1>10, <2>2, <3>1, <4>1, <4>2
    <3>2. CASE w = Viewer
      BY <1>5, <1>6, <1>8, <1>9, <2>2, <3>2
    <3>3. QED BY <3>1, <3>2
  <2>3. QED BY <2>1, <2>2
<1>13. ASSUME NEW p \in DOMAIN s
       PROVE  t[p].writer = s[p].writer /\ t[p].event = s[p].event
  BY <1>5
<1>14. ASSUME NEW d \in Conns, Job(d, "line")' PROVE InLine(d)'
  <2>1. PICK p \in DOMAIN s : s[p].writer = d
    BY <1>1, <1>3, <1>14 DEF LineInv, InLine, Job
  <2>2. QED BY <1>5, <1>6, <1>13, <2>1 DEF InLine
<1>15. ASSUME NEW p \in DOMAIN t, NEW q \in DOMAIN t, p < q
       PROVE  /\ t[p].writer # t[q].writer
              /\ t[p].event # Viewer /\ t[q].event # Viewer => t[p].event < t[q].event
  <2>1. /\ s[p].writer # s[q].writer
        /\ s[p].event # Viewer /\ s[q].event # Viewer => s[p].event < s[q].event
    BY <1>1, <1>3, <1>5, <1>15 DEF LineInv
  <2>2. QED BY <1>5, <1>13, <2>1
<1>16. LineInv'
  <2>1. \A p \in DOMAIN line' :
           \/ line'[p].writer = Viewer /\ line'[p].event = Viewer
           \/ /\ line'[p].writer \in Conns /\ line'[p].event \in Inputs
              /\ conn'[line'[p].writer].job = [input |-> line'[p].event, at |-> "line"]
              /\ line'[p].written <=> taken'[line'[p].event] > 0
    BY <1>6, <1>12
  <2>2. \A p, q \in DOMAIN line' : p < q =>
           /\ line'[p].writer # line'[q].writer
           /\ line'[p].event # Viewer /\ line'[q].event # Viewer => line'[p].event < line'[q].event
    BY <1>6, <1>15
  <2>3. ~active' => line' = <<>>
    BY <1>2, <1>7
  <2>4. QED BY <1>14, <2>1, <2>2, <2>3 DEF LineInv
<1>17. /\ rows \in Seq(RowRec) /\ Len(rows) \in Nat /\ DOMAIN rows = 1..Len(rows)
       /\ \A p \in DOMAIN rows : rows[p] = Row(p, rows[p].event)
       /\ events = rows /\ next = Len(rows) + 1
  BY <1>1, <1>2, <1>7, RoomNow
<1>18. PICK r \in Seq(RowRec) : r = rows
  BY <1>17
<1>19. PICK x \in RowRec : x = Row(next, s[1].event)
  <2>1. s[1] \in Writing
    BY <1>5
  <2>2. s[1].event \in Events /\ next \in Nat
    BY <1>1, <2>1 DEF Writing, RoomTypeOK
  <2>3. QED BY <2>2 DEF Row, RowRec
<1>20. x.sequence = Len(r) + 1 /\ x.event = s[1].event
  BY <1>17, <1>18, <1>19 DEF Row
<1>21. PICK u \in Seq(RowRec) : u = Append(r, x)
  BY AppendTyped
<1>22. rows' = u
  BY <1>2, <1>3, <1>5, <1>18, <1>19, <1>21
<1>23. u # <<>> /\ u[Len(r) + 1] = x /\ Len(u) = Len(r) + 1
  BY <1>21, AppendOrder
<1>24. ASSUME NEW p \in DOMAIN u PROVE u[p].sequence = p
  <2>1. (p \in DOMAIN r /\ u[p] = r[p]) \/ (p = Len(r) + 1 /\ u[p] = x)
    BY <1>21, AppendPlaces
  <2>2. p \in DOMAIN r => r[p].sequence = p
    BY <1>1, <1>18 DEF RoomInv
  <2>3. QED BY <1>20, <2>1, <2>2
<1>25. Front(u) = r
  BY <1>21, FrontOfAppend
<1>26. RoomMatchesLog'
  BY <1>2, <1>5, <1>6, <1>17, <1>18, <1>22, <1>24, <1>25 DEF RoomMatchesLog
<1>27. RoomInv'
  <2>1. u[Len(u)].event = t[1].event
    BY <1>5, <1>20, <1>23
  <2>2. QED BY <1>1, <1>2, <1>6, <1>22, <1>23, <1>24, <1>26, <2>1 DEF RoomInv
<1>28. RoomTypeOK'
  <2>1. \A p \in DOMAIN t : t[p].written => p = 1
    BY <1>1, <1>3, <1>5 DEF RoomTypeOK
  <2>2. QED BY <1>1, <1>2, <1>5, <1>6, <1>22, <2>1 DEF RoomTypeOK, RowRec
<1>29. QED BY <1>16, <1>27, <1>28 DEF RoomsInv
-----------------------------------------------------------------------------

\* The handler that holds the lock serves the oldest of the texts in line.
LEMMA HeadOfLine ==
  ASSUME TypeOK, RoomsInv, NEW c \in Conns, line # <<>>, Head(line).writer = c
  PROVE  /\ active /\ Job(c, "line") /\ Head(line).event = Input(c) /\ Input(c) \in Inputs
         /\ Head(line).written => taken[Input(c)] > 0
         /\ ~Head(line).written => taken[Input(c)] = 0
         /\ \A d \in Conns : d # c /\ Job(d, "line") => Input(c) < Input(d)
<1>1. LineInv /\ RoomTypeOK /\ taken \in [Inputs -> Nat]
  BY DEF RoomsInv, TypeOK
<1>2. PICK s \in Seq(Writing) : s = line
  BY <1>1 DEF RoomTypeOK
<1>3. s # <<>> /\ s[1].writer = c /\ Head(s) = s[1] /\ 1 \in DOMAIN s
  BY <1>2, TailFacts
<1>4. Viewer \notin Conns /\ Viewer \notin Inputs /\ Inputs \subseteq Nat
  BY ConnAssumption DEF Viewer
<1>5. \A p \in DOMAIN s : s[p].writer # Viewer =>
         /\ s[p].writer \in Conns /\ s[p].event \in Inputs
         /\ conn[s[p].writer].job = [input |-> s[p].event, at |-> "line"]
         /\ s[p].written <=> taken[s[p].event] > 0
  BY <1>1, <1>2 DEF LineInv
<1>6. /\ conn[c].job = [input |-> s[1].event, at |-> "line"] /\ s[1].event \in Inputs
      /\ s[1].written <=> taken[s[1].event] > 0
  BY <1>3, <1>4, <1>5
<1>7. Job(c, "line") /\ Input(c) = s[1].event
  BY <1>6 DEF Job, Input
<1>8. taken[s[1].event] \in Nat
  BY <1>1, <1>6
<1>9. s[1].written => taken[s[1].event] > 0
  BY <1>6
<1>10. ~s[1].written => taken[s[1].event] = 0
  <2>1. \A n \in Nat : ~(n > 0) => n = 0
    OBVIOUS
  <2>2. QED BY <1>6, <1>8, <2>1
<1>11. ASSUME NEW d \in Conns, d # c, Job(d, "line") PROVE Input(c) < Input(d)
  <2>1. PICK p \in DOMAIN s : s[p].writer = d
    BY <1>1, <1>2, <1>11 DEF LineInv, InLine
  <2>2. s[p].event \in Inputs /\ Input(d) = s[p].event
    <3>1. s[p].writer # Viewer
      BY <1>4, <2>1
    <3>2. s[p].event \in Inputs /\ conn[s[p].writer].job = [input |-> s[p].event, at |-> "line"]
      BY <1>5, <3>1
    <3>3. QED BY <2>1, <3>2 DEF Input
  <2>3. p \in Nat \ {0}
    <3>1. \A q \in DOMAIN s : q \in Nat \ {0}
      BY <1>2, <1>3, TailFacts
    <3>2. QED BY <2>1, <3>1
  <2>4. 1 < p
    <3>1. p # 1
      BY <1>3, <1>11, <2>1
    <3>2. QED BY <2>3, <3>1
  <2>5. \A a, b \in DOMAIN s : a < b =>
           (s[a].event # Viewer /\ s[b].event # Viewer => s[a].event < s[b].event)
    BY <1>1, <1>2 DEF LineInv
  <2>6. s[1].event < s[p].event
    BY <1>3, <1>4, <1>6, <2>2, <2>4, <2>5
  <2>7. QED BY <1>7, <2>2, <2>6
<1>12. active
  BY <1>1 DEF LineInv
<1>13. QED BY <1>2, <1>3, <1>6, <1>7, <1>9, <1>10, <1>11, <1>12

\* A text whose write failed, or whose session is over, is forgotten.
LEMMA TextFailsKeeps == ASSUME IInv, NEW c \in Conns, TextFails(c) PROVE IInv'
<1>1. /\ TypeOK /\ ConnInv /\ RoomsInv /\ JobInv /\ TriggerInv /\ LedgerInv /\ Fine(ledger)
  BY DEF IInv, FlightInv, WorkInv, LedgerInv
<1>2. Job(c, "line")
  BY DEF TextFails
<1>3. PICK i \in Inputs : i = Input(c)
  BY <1>2, JobFacts
<1>4. PICK x \in MessageRec : x = Asked(c)
  BY <1>2, JobFacts
<1>5. PICK m \in AnswerRec : m = Rejected(x) /\ m.type # "ack"
  BY AnswerTyped
<1>6. ~Job(c, "idle") /\ Kind(i) = "text"
  BY <1>1, <1>2, <1>3, JobFacts DEF JobInv, JobOK
<1>7. PICK l : l = ledger
  OBVIOUS
<1>8. /\ ledger' = Forget(l, i) /\ Answer(c, m) /\ GiveUp(c)
      /\ UNCHANGED <<scenario, told, tries, half, link, ready, view, session, status, batch,
                     taken, heard, lost>>
  BY <1>3, <1>4, <1>5, <1>7 DEF TextFails, client, history
<1>9. taken[i] = 0
  <2>1. line # <<>> /\ Head(line).writer = c /\ ~Head(line).written
    BY <1>8 DEF GiveUp
  <2>2. QED BY <1>1, <1>3, <2>1, HeadOfLine
<1>10. Settled(i) /\ ledger'.pending = ledger.pending
  <2>1. /\ Fine(l) /\ Entries(l) = Entries(ledger) /\ Len(l.seen) <= Len(ledger.seen)
        /\ Len(ledger.seen) \in Nat /\ l.floor = ledger.floor /\ l.pending = ledger.pending
    BY <1>1, <1>7, LedgerFacts
  <2>2. QED BY <1>8, <2>1, ForgetSettles
<1>11. /\ Ends(c, m) /\ \A d \in Conns : d # c => conn'[d] = conn[d]
       /\ \A d \in Conns : ~Job(d, "idle")' => ~Job(d, "idle") /\ Input(d)' = Input(d)
       /\ ~Job(c, "line")' /\ NoneOwesMore
  BY <1>1, <1>8, AnswerEnds
<1>12. RoomsInv' /\ RoomTypeOK'
  BY <1>1, <1>8, <1>11, GiveUpRooms
<1>13. TriggerInv'
  BY <1>1, <1>8, <1>11, EndTrigger
<1>14. AckOK(m)'
  BY <1>5, NoAckOK
<1>15. \A j \in Inputs : Accounted(j) => Accounted(j)'
  BY <1>8 DEF Accounted
<1>16. /\ batch' \in Batch /\ heard' \in [Inputs -> Nat] /\ lost' \subseteq Inputs
  BY <1>1, <1>8 DEF TypeOK
<1>17. ledger'.pending # i
  <2>1. i # None
    BY NoneAssumption, ConnAssumption
  <2>2. ledger.pending # None => Kind(ledger.pending) = "audio"
    BY <1>1 DEF LedgerInv
  <2>3. QED BY <1>6, <1>10, <2>1, <2>2
<1>18. Anew(i)'
  BY <1>8, <1>9 DEF Anew
<1>19. taken' = taken
  BY <1>8
<1>20. QED BY <1>3, <1>6, <1>8, <1>10, <1>11, <1>12, <1>13, <1>14, <1>15, <1>16, <1>17, <1>18, <1>19, EndKeeps

\* A text's event is shown in the room; its handler goes on to observe it.
LEMMA ShowTextKeeps == ASSUME IInv, NEW c \in Conns, ShowText(c) PROVE IInv'
<1>1. /\ TypeOK /\ ConnInv /\ RoomsInv /\ JobInv /\ TriggerInv /\ conn \in [Conns -> ConnRec]
  BY DEF IInv, FlightInv, WorkInv, TypeOK
<1>2. Job(c, "line")
  BY DEF ShowText
<1>3. PICK i \in Inputs : i = Input(c)
  BY <1>2, JobFacts
<1>4. ~Job(c, "idle") /\ Kind(i) = "text"
  BY <1>1, <1>2, <1>3, JobFacts DEF JobInv, JobOK
<1>5. /\ Turn(c, [input |-> i, at |-> "observe"]) /\ Show(c)
      /\ UNCHANGED <<scenario, told, tries, half, link, ready, view, ledger, session, status, batch,
                     taken, heard, lost>>
  BY <1>3 DEF ShowText, client, history
<1>6. taken[i] > 0
  <2>1. line # <<>> /\ Head(line).writer = c /\ Head(line).written
    BY <1>5 DEF Show
  <2>2. QED BY <1>1, <1>3, <2>1, HeadOfLine
<1>7. PICK job \in JobRec : job = [input |-> i, at |-> "observe"]
  BY DEF JobRec
<1>8. (\A d \in Conns : d # c => conn'[d] = conn[d]) /\ conn'[c].job = job
  BY <1>1, <1>5, <1>7, TurnFacts
<1>9. ~Job(c, "line")'
  BY <1>7, <1>8 DEF Job
<1>10. RoomsInv' /\ RoomTypeOK'
  BY <1>1, <1>5, <1>8, <1>9, ShowRooms
<1>11. QED BY <1>2, <1>3, <1>4, <1>5, <1>6, <1>10, TurnKeeps
-----------------------------------------------------------------------------

\* A write to the room disturbs nothing else.
LEMMA RoomFlight ==
  ASSUME IInv, TypeOK',
         UNCHANGED <<scenario, told, tries, half, link, ready, conn, ledger, session>>,
         \A j \in Inputs :
           \/ taken'[j] = taken[j]
           \/ taken'[j] > 0 /\ Serving(j) /\ (Counting => Tracked(ledger, j))
  PROVE  FlightInv'
<1>1. /\ TypeOK /\ FlightInv /\ TopicInv /\ ConnInv /\ conn \in [Conns -> ConnRec]
      /\ ledger.floor \in [Kinds -> Nat]
  BY DEF IInv, FlightInv, TypeOK, LedgerRec
<1>2. TopicInv' /\ ConnInv'
  BY <1>1 DEF TopicInv, ConnInv, Topic, Job, Input, NoJob
<1>3. \A j \in Inputs : (Serving(j)' <=> Serving(j)) /\ (Tracked(ledger, j)' <=> Tracked(ledger, j))
  BY DEF Serving, Input, Job, Tracked, Entries
<1>4. Counting' <=> Counting
  BY DEF Counting
<1>5. \A k \in Kinds : ledger.floor[k] <= ledger'.floor[k]
  BY <1>1
<1>6. \A d \in Conns : \E k \in Nat : \A p \in DOMAIN conn'[d].inbox :
          p + k \in DOMAIN conn[d].inbox /\ conn'[d].inbox[p] = conn[d].inbox[p + k]
  <2>1. ASSUME NEW d \in Conns
        PROVE  \E k \in Nat : \A p \in DOMAIN conn'[d].inbox :
                 p + k \in DOMAIN conn[d].inbox /\ conn'[d].inbox[p] = conn[d].inbox[p + k]
    <3>1. conn'[d].inbox = conn[d].inbox
      OBVIOUS
    <3>2. QED BY <1>1, <3>1, SameInbox
  <2>2. QED BY <2>1
<1>7. Onward({})
  BY <1>3, <1>4, <1>5, <1>6 DEF Onward
<1>8. QED BY <1>1, <1>2, <1>7, FlightKeeps

\* A write to the room makes no acknowledgement false.
LEMMA RoomAcks ==
  ASSUME IInv, UNCHANGED <<scenario, told, conn, heard, lost, batch>>,
         \A j \in Inputs : taken[j] > 0 => taken'[j] > 0
  PROVE  AckInv'
<1>1. AckInv /\ conn \in [Conns -> ConnRec] /\ conn' \in [Conns -> ConnRec]
  BY DEF IInv, TypeOK
<1>2. \A d \in Conns : \A p \in DOMAIN conn'[d].outbox :
         \E q \in DOMAIN conn[d].outbox : conn'[d].outbox[p] = conn[d].outbox[q]
  OBVIOUS
<1>3. \A j \in Inputs : Accounted(j) => Accounted(j)'
  BY DEF Accounted
<1>4. \A j \in Inputs : told'[j] = "acked" => told[j] = "acked"
  OBVIOUS
<1>5. scenario' = scenario
  OBVIOUS
<1>6. QED BY <1>1, <1>2, <1>3, <1>4, <1>5, AckKeeps

\* A step of the room alone keeps the invariant.
LEMMA RoomOnly ==
  ASSUME IInv, RoomTypeOK', RoomsInv',
         UNCHANGED <<scenario, told, tries, half, link, ready, view, conn, ledger, session, status,
                     batch, taken, heard, lost>>
  PROVE  IInv'
<1>1. /\ TypeOK /\ LedgerInv /\ JobInv /\ PendingIsAttended /\ TriggerInv
  BY DEF IInv, WorkInv
<1>2. TypeOK'
  BY <1>1 DEF TypeOK
<1>3. FlightInv'
  <2>1. \A j \in Inputs : taken'[j] = taken[j]
    OBVIOUS
  <2>2. QED BY <1>2, <2>1, RoomFlight
<1>4. Live' <=> Live
  BY DEF Live
<1>5. LedgerInv' /\ JobInv' /\ PendingIsAttended'
  BY <1>1, <1>4, LedgerKeeps, JobsKeep, AttendedKeeps
<1>6. AckInv'
  BY RoomAcks
<1>7. TriggerInv'
  BY <1>1, TriggerKeeps
<1>8. QED BY <1>2, <1>3, <1>5, <1>6, <1>7 DEF IInv, WorkInv

\* The viewer's own writing to the room.
LEMMA ViewerWritesKeeps == ASSUME IInv, ViewerWrites PROVE IInv'
<1>1. TypeOK /\ RoomsInv
  BY DEF IInv
<1>2. UNCHANGED <<scenario, told, tries, half, link, ready, view, conn, ledger, session, status,
                  batch, taken, heard, lost>>
  BY DEF ViewerWrites, client, history
<1>3. Viewer \notin Conns
  BY ConnAssumption DEF Viewer
<1>4. PICK w : w = Viewer
  OBVIOUS
<1>5. RoomsInv' /\ RoomTypeOK'
  <2>1. /\ \A d \in Conns : d # w => conn'[d].job = conn[d].job
        /\ w \in Conns => ~Job(w, "line")'
    BY <1>2, <1>3, <1>4
  <2>2. CASE Persist(w)
    BY <1>1, <1>2, <1>4, <2>2, PersistRooms
  <2>3. CASE Show(w)
    BY <1>1, <1>2, <2>1, <2>3, ShowRooms
  <2>4. CASE GiveUp(w)
    BY <1>1, <1>2, <2>1, <2>4, GiveUpRooms
  <2>5. QED BY <1>4, <2>2, <2>3, <2>4 DEF ViewerWrites
<1>6. QED BY <1>2, <1>5, RoomOnly

\* The viewer joins the room's line.
LEMMA ViewerSpeaksKeeps == ASSUME IInv, ViewerSpeaks PROVE IInv'
<1>1. TypeOK /\ LineInv /\ RoomInv /\ RoomTypeOK
  BY DEF IInv, RoomsInv, TypeOK
<1>2. /\ UNCHANGED <<scenario, told, tries, half, link, ready, view, conn, ledger, session, status,
                     batch, taken, heard, lost, rows, active, events, next>>
      /\ session = "running" /\ ~InLine(Viewer)
      /\ line' = Append(line, [writer |-> Viewer, event |-> Viewer, written |-> FALSE])
  BY DEF ViewerSpeaks, client, history, Accepting, Queue
<1>3. PICK s \in Seq(Writing) : s = line
  BY <1>1 DEF RoomTypeOK
<1>4. PICK w \in Writing : w = [writer |-> Viewer, event |-> Viewer, written |-> FALSE]
  BY RoomAssumption DEF Writing
<1>5. w.writer = Viewer /\ w.event = Viewer /\ w.written = FALSE
  BY <1>4
<1>6. PICK t \in Seq(Writing) : t = Append(s, w)
  BY AppendTyped
<1>7. line' = t
  BY <1>2, <1>3, <1>4, <1>6
<1>8. /\ t # <<>> /\ 1 \in DOMAIN t
      /\ Len(s) + 1 \in DOMAIN t /\ t[Len(s) + 1] = w
      /\ \A p \in DOMAIN s : p \in DOMAIN t /\ t[p] = s[p] /\ p < Len(s) + 1
      /\ t[1] = IF s = <<>> THEN w ELSE s[1]
      /\ Head(t) = t[1] /\ (s # <<>> => Head(s) = s[1] /\ 1 \in DOMAIN s)
      /\ DOMAIN t \subseteq Nat
  BY <1>6, AppendOrder
<1>9. \A p \in DOMAIN t : (p \in DOMAIN s /\ t[p] = s[p]) \/ (p = Len(s) + 1 /\ t[p] = w)
  BY <1>6, AppendPlaces
<1>10. \A p \in DOMAIN s :
          \/ s[p].writer = Viewer /\ s[p].event = Viewer
          \/ /\ s[p].writer \in Conns /\ s[p].event \in Inputs
             /\ conn[s[p].writer].job = [input |-> s[p].event, at |-> "line"]
             /\ s[p].written <=> taken[s[p].event] > 0
  BY <1>1, <1>3 DEF LineInv
<1>11. ASSUME NEW p \in DOMAIN t
       PROVE  \/ t[p].writer = Viewer /\ t[p].event = Viewer
              \/ /\ t[p].writer \in Conns /\ t[p].event \in Inputs
                 /\ conn'[t[p].writer].job = [input |-> t[p].event, at |-> "line"]
                 /\ t[p].written <=> taken'[t[p].event] > 0
  BY <1>2, <1>5, <1>9, <1>10
<1>12. ASSUME NEW d \in Conns, Job(d, "line")' PROVE InLine(d)'
  <2>1. PICK p \in DOMAIN s : s[p].writer = d
    BY <1>1, <1>2, <1>3, <1>12 DEF LineInv, InLine, Job
  <2>2. p \in DOMAIN t /\ t[p].writer = d
    BY <1>8, <2>1
  <2>3. QED BY <1>7, <2>2 DEF InLine
<1>13. ASSUME NEW p \in DOMAIN t, NEW q \in DOMAIN t, p < q
       PROVE  /\ t[p].writer # t[q].writer
              /\ t[p].event # Viewer /\ t[q].event # Viewer => t[p].event < t[q].event
  <2>1. p \in Nat /\ q \in Nat /\ Len(s) \in Nat
    BY <1>8, <1>13, LenNat
  <2>2. p \in DOMAIN s /\ t[p] = s[p]
    <3>1. CASE p = Len(s) + 1
      <4>1. q \in DOMAIN s \/ q = Len(s) + 1
        BY <1>9
      <4>2. q <= Len(s) + 1
        BY <1>8, <2>1, <4>1
      <4>3. QED BY <1>13, <2>1, <3>1, <4>2
    <3>2. QED BY <1>9, <3>1
  <2>3. CASE q \in DOMAIN s /\ t[q] = s[q]
    BY <1>1, <1>3, <1>13, <2>2, <2>3 DEF LineInv
  <2>4. CASE t[q] = w
    <3>1. s[p].writer # Viewer
      BY <1>2, <1>3, <2>2 DEF InLine
    <3>2. QED BY <1>5, <2>2, <2>4, <3>1
  <2>5. QED BY <1>9, <2>3, <2>4
<1>14. active /\ active'
  BY <1>1, <1>2 DEF RoomInv
<1>15. LineInv'
  BY <1>7, <1>11, <1>12, <1>13, <1>14 DEF LineInv
<1>16. RoomInv'
  <2>1. line' # <<>> /\ line'[1].written => line # <<>> /\ line[1].written /\ line'[1] = line[1]
    BY <1>3, <1>5, <1>7, <1>8
  <2>2. (line' # <<>> /\ Head(line').written) <=> (line # <<>> /\ Head(line).written)
    BY <1>3, <1>5, <1>7, <1>8
  <2>3. RoomMatchesLog'
    BY <1>1, <1>2, <2>2 DEF RoomInv, RoomMatchesLog
  <2>4. QED BY <1>1, <1>2, <2>1, <2>3 DEF RoomInv
<1>17. RoomTypeOK'
  <2>1. \A p \in DOMAIN t : t[p].written => p = 1
    BY <1>1, <1>3, <1>5, <1>9 DEF RoomTypeOK
  <2>2. QED BY <1>1, <1>2, <1>7, <2>1 DEF RoomTypeOK
<1>18. RoomsInv'
  BY <1>15, <1>16 DEF RoomsInv
<1>19. QED BY <1>2, <1>17, <1>18, RoomOnly
-----------------------------------------------------------------------------

\* A text's event is written: the text is taken.
LEMMA PersistTextKeeps == ASSUME IInv, NEW c \in Conns, PersistText(c) PROVE IInv'
<1>1. /\ TypeOK /\ RoomsInv /\ RoomInv /\ LedgerInv /\ JobInv /\ TriggerInv /\ Fine(ledger)
      /\ PendingIsAttended /\ taken \in [Inputs -> Nat]
  BY DEF IInv, WorkInv, TypeOK, RoomsInv, LedgerInv
<1>2. Job(c, "line") /\ Persist(c)
  BY DEF PersistText
<1>3. PICK i \in Inputs : i = Input(c)
  BY <1>2, JobFacts
<1>4. /\ UNCHANGED <<scenario, told, tries, half, link, ready, view, conn, ledger, session, status,
                     batch, heard, lost>>
      /\ taken' = [taken EXCEPT ![i] = @ + 1]
  BY <1>3 DEF PersistText, client
<1>5. /\ active /\ taken[i] = 0 /\ \A d \in Conns : d # c /\ Job(d, "line") => i < Input(d)
  <2>1. line # <<>> /\ Head(line).writer = c /\ ~Head(line).written
    BY <1>2 DEF Persist
  <2>2. QED BY <1>1, <1>3, <2>1, HeadOfLine
<1>6. /\ ~Job(c, "idle") /\ Kind(i) = "text" /\ Unsurpassed(i) /\ (Live => Kept(c))
      /\ \A a : a # "line" => ~Job(c, a)
  BY <1>1, <1>2, <1>3, <1>5, JobFacts DEF JobInv, JobOK, Unsurpassed
<1>7. taken' = [taken EXCEPT ![i] = @ + 1] /\ taken'[i] > 0 /\ \A j \in Inputs : j # i => taken'[j] = taken[j]
  BY <1>1, <1>4, <1>5
<1>8. RoomsInv' /\ RoomTypeOK'
  BY <1>1, <1>2, <1>3, <1>4, <1>7, PersistRooms
<1>9. TypeOK'
  <2>1. taken' \in [Inputs -> Nat]
    BY <1>1, <1>7
  <2>2. QED BY <1>1, <1>4, <1>8, <2>1 DEF TypeOK
<1>10. FlightInv'
  <2>1. Counting => Live
    BY <1>1, <1>5 DEF Counting, Live, RoomInv
  <2>2. Live => Tracked(ledger, i)
    BY <1>3, <1>6 DEF Kept, Tracked
  <2>3. Serving(i)
    BY <1>3, <1>6 DEF Serving
  <2>4. \A j \in Inputs :
           \/ taken'[j] = taken[j]
           \/ taken'[j] > 0 /\ Serving(j) /\ (Counting => Tracked(ledger, j))
    BY <1>7, <2>1, <2>2, <2>3
  <2>5. QED BY <1>4, <1>9, <2>4, RoomFlight
<1>11. \A j \in Inputs : taken[j] > 0 => taken'[j] > 0
  BY <1>7
<1>12. AckInv'
  BY <1>4, <1>11, RoomAcks
<1>13. TriggerInv'
  <2>1. \A d \in Conns : ~Job(d, "idle")' => ~Job(d, "idle") /\ Input(d)' = Input(d)
    BY <1>4 DEF Job, Input
  <2>2. NoneOwesMore
    BY <1>4 DEF NoneOwesMore, Owed, Job, Input
  <2>3. FirstTime(i)
    BY <1>5 DEF FirstTime
  <2>4. QED BY <1>1, <1>4, <1>7, <2>1, <2>2, <2>3, EndTrigger
<1>14. ASSUME NEW j \in Inputs, Kind(j) = "audio", Unsurpassed(j)
       PROVE  taken'[j] = taken[j] /\ Unsurpassed(j)'
  <2>1. Kind(i) # Kind(j)
    BY <1>6, <1>14
  <2>2. j # i
    BY <2>1
  <2>3. QED BY <1>1, <1>4, <1>7, <1>14, <2>1, <2>2, UnsurpassedKeeps
<1>15. LedgerInv'
  <2>1. Fine(ledger)'
    BY <1>1, <1>4 DEF Fine
  <2>2. Entries(ledger)' = Entries(ledger) /\ ledger' = ledger
    BY <1>4 DEF Entries
  <2>3. ASSUME NEW e \in Entries(ledger), NEW r \in e.receipts, e.kind # "audio" \/ r = "committed"
        PROVE  taken'[e.id] > 0
    <3>1. taken[e.id] > 0
      BY <1>1, <2>3 DEF LedgerInv
    <3>2. e.id \in Inputs
      BY <1>1, EntriesTyped DEF Fine, EntryRec
    <3>3. QED BY <1>11, <3>1, <3>2
  <2>4. ASSUME ledger.pending # None
        PROVE  /\ Kind(ledger.pending)' = "audio" /\ Anew(ledger.pending)'
               /\ Unsurpassed(ledger.pending)'
    <3>1. PICK j \in Inputs : j = ledger.pending
      BY <1>1, <2>4 DEF Fine, LedgerRec
    <3>2. Kind(j) = "audio" /\ Anew(j) /\ Unsurpassed(j)
      BY <1>1, <2>4, <3>1 DEF LedgerInv, Unsurpassed
    <3>3. Anew(j)' /\ Unsurpassed(j)'
      BY <1>4, <1>14, <3>2 DEF Anew, Topic, Kind
    <3>4. QED BY <1>4, <3>1, <3>2, <3>3 DEF Kind, Unsurpassed, Anew
  <2>5. \A e \in Entries(ledger) : e.kind = Kind(e.id)'
    BY <1>1, <1>4 DEF LedgerInv, Kind
  <2>6. Live' <=> Live
    BY <1>4 DEF Live
  <2>7. ~Live => ledger.seen = <<>> /\ ledger.pending = None
    BY <1>1 DEF LedgerInv
  <2>8. QED BY <2>1, <2>2, <2>3, <2>4, <2>5, <2>6, <2>7 DEF LedgerInv
<1>16. JobInv'
  <2>1. ASSUME NEW d \in Conns, ~Job(d, "idle") PROVE JobOK(d)'
    <3>1. PICK j \in Inputs : j = Input(d)
      BY <1>1, <2>1 DEF IInv, FlightInv, ConnInv
    <3>2. /\ \A a : Job(d, a)' <=> Job(d, a)
          /\ Input(d)' = j /\ Kind(Input(d))' = Kind(j) /\ (Live' <=> Live)
      BY <1>4, <3>1 DEF Job, Input, Kind, Live
    <3>3. \A e \in Conns : (Job(e, "idle")' <=> Job(e, "idle")) /\ Input(e)' = Input(e)
                           /\ Kind(Input(e))' = Kind(Input(e))
      BY <1>4 DEF Job, Input, Kind
    <3>4. \A e \in Conns : e # d /\ ~Job(e, "idle") =>
             Input(e) # j /\ (Kind(j) = "audio" => Kind(Input(e)) # "audio")
      BY <1>1, <2>1, <3>1 DEF JobInv, JobOK
    <3>5. Kept(d)' <=> Kept(d)
      BY <1>4 DEF Kept, Entries, Input, Kind
    <3>6. Live => Kept(d)
      BY <1>1, <2>1 DEF JobInv, JobOK
    <3>7. Job(d, "line") => Kind(j) = "text" /\ (taken'[j] = 0 => Unsurpassed(Input(d))')
      <4>1. SUFFICES ASSUME Job(d, "line") PROVE Kind(j) = "text" /\ (taken'[j] = 0 => Unsurpassed(j)')
        BY <3>2 DEF Unsurpassed
      <4>2. Kind(j) = "text" /\ (taken[j] = 0 => Unsurpassed(j))
        BY <1>1, <2>1, <3>1, <4>1 DEF JobInv, JobOK, Unsurpassed
      <4>3. ASSUME taken'[j] = 0 PROVE Unsurpassed(j)'
        <5>1. d # c /\ j # i /\ taken[j] = 0
          BY <1>3, <1>7, <3>1, <4>3
        <5>2. i < j
          BY <1>5, <3>1, <4>1, <5>1
        <5>3. ASSUME NEW k \in Inputs, Kind(k)' = Kind(j)', k > j PROVE taken'[k] = 0
          <6>1. Kind(k) = Kind(j)
            BY <1>4, <5>3 DEF Kind
          <6>2. k # i
            <7>1. \A a, b, e \in Nat : a < b /\ e > b => e # a
              OBVIOUS
            <7>2. i \in Nat /\ j \in Nat /\ k \in Nat
              BY ConnAssumption
            <7>3. QED BY <5>2, <5>3, <7>1, <7>2
          <6>3. taken[k] = 0
            BY <4>2, <5>1, <5>3, <6>1 DEF Unsurpassed
          <6>4. QED BY <1>7, <6>2, <6>3
        <5>4. QED BY <5>3 DEF Unsurpassed
      <4>4. QED BY <4>2, <4>3
    <3>8. Job(d, "observe") => Kind(j) # "audio" /\ taken'[j] > 0
      BY <1>1, <1>11, <2>1, <3>1 DEF JobInv, JobOK
    <3>9. Job(d, "push") \/ Job(d, "commit") =>
             Kind(j) = "audio" /\ FirstTime(Input(d))' /\ Unsurpassed(Input(d))'
      <4>1. SUFFICES ASSUME Job(d, "push") \/ Job(d, "commit")
                     PROVE  Kind(j) = "audio" /\ FirstTime(j)' /\ Unsurpassed(j)'
        BY <3>2 DEF Unsurpassed, FirstTime
      <4>2. Kind(j) = "audio" /\ FirstTime(j) /\ Unsurpassed(j)
        BY <1>1, <2>1, <3>1, <4>1 DEF JobInv, JobOK, Unsurpassed, FirstTime
      <4>3. QED BY <1>4, <1>14, <4>2 DEF FirstTime, Topic
    <3>10. QED BY <3>2, <3>3, <3>4, <3>5, <3>6, <3>7, <3>8, <3>9 DEF JobOK
  <2>2. ASSUME NEW d \in Conns PROVE JobOK(d)'
    <3>1. CASE Job(d, "idle")
      BY <1>4, <3>1 DEF JobOK, Job
    <3>2. CASE ~Job(d, "idle")
      BY <2>1, <3>2
    <3>3. QED BY <3>1, <3>2
  <2>3. QED BY <2>2 DEF JobInv
<1>17. PendingIsAttended'
  <2>1. \A d \in Conns : /\ conn'[d].job = conn[d].job
                         /\ conn[d].state \in {"open", "closing"} => conn'[d].state \in {"open", "closing"}
    BY <1>4
  <2>2. UNCHANGED <<scenario, ledger>>
    BY <1>4
  <2>3. QED BY <1>1, <2>1, <2>2, AttendedKeeps
<1>18. QED BY <1>8, <1>9, <1>10, <1>12, <1>13, <1>15, <1>16, <1>17 DEF IInv, WorkInv
-----------------------------------------------------------------------------

\* A connection that is gone.
LEMMA GoneTyped ==
  /\ [NoConn EXCEPT !.state = "gone"] \in ConnRec
  /\ [NoConn EXCEPT !.state = "gone"].state = "gone"
  /\ [NoConn EXCEPT !.state = "gone"].inbox = <<>>
  /\ [NoConn EXCEPT !.state = "gone"].outbox = <<>>
  /\ [NoConn EXCEPT !.state = "gone"].queue = <<>>
  /\ [NoConn EXCEPT !.state = "gone"].job = NoJob
<1>1. PICK n \in ConnRec : n = NoConn
  BY NoConnTyped
<1>2. n.inbox = <<>> /\ n.outbox = <<>> /\ n.job = NoJob /\ n.queue = <<>>
  BY <1>1, NoConnTyped
<1>3. /\ [n EXCEPT !.state = "gone"] \in ConnRec /\ [n EXCEPT !.state = "gone"].state = "gone"
      /\ [n EXCEPT !.state = "gone"].inbox = n.inbox
      /\ [n EXCEPT !.state = "gone"].outbox = n.outbox
      /\ [n EXCEPT !.state = "gone"].queue = n.queue /\ [n EXCEPT !.state = "gone"].job = n.job
  BY DEF ConnRec
<1>4. QED BY <1>1, <1>2, <1>3

\* The server ends a closed connection and clears what it reserved.
LEMMA HangupKeeps == ASSUME IInv, NEW c \in Conns, Hangup(c) PROVE IInv'
<1>1. /\ TypeOK /\ FlightInv /\ TopicInv /\ ConnInv /\ LedgerInv /\ JobInv /\ PendingIsAttended
      /\ RoomsInv /\ AckInv /\ TriggerInv /\ Fine(ledger) /\ conn \in [Conns -> ConnRec]
      /\ ledger \in LedgerRec
  BY DEF IInv, FlightInv, WorkInv, LedgerInv, TypeOK
<1>2. /\ conn[c].state = "closing" /\ conn[c].inbox = <<>> /\ conn[c].job = NoJob
      /\ ledger' = ClearConnection(ledger, c)
      /\ UNCHANGED <<scenario, told, tries, half, link, ready, view, session, status, batch,
                     taken, heard, lost, roomVars>>
  BY DEF Hangup, client, history
<1>3. PICK n \in ConnRec : /\ n = [NoConn EXCEPT !.state = "gone"] /\ n.state = "gone"
                           /\ n.inbox = <<>> /\ n.outbox = <<>> /\ n.queue = <<>> /\ n.job = NoJob
  BY GoneTyped
<1>4. /\ conn' = [conn EXCEPT ![c] = n] /\ conn'[c] = n /\ conn' \in [Conns -> ConnRec]
      /\ \A d \in Conns : d # c => conn'[d] = conn[d]
  BY <1>1, <1>3 DEF Hangup
<1>5. \A d \in Conns : conn'[d].job = conn[d].job
  BY <1>2, <1>3, <1>4
<1>6. PICK l : l = ledger
  OBVIOUS
<1>7. /\ Fine(ledger)' /\ ledger'.floor = ledger.floor /\ Len(ledger'.seen) <= Len(ledger.seen)
      /\ \/ ledger' = ledger /\ ~(ledger.pending # None /\ SentOver(ledger, ledger.pending, c))
         \/ /\ ledger.pending # None /\ SentOver(ledger, ledger.pending, c)
            /\ ledger'.pending = None
            /\ Entries(ledger)' = {e \in Entries(ledger) : e.id # ledger.pending}
  <2>1. PICK r : r = ClearConnection(l, c)
    OBVIOUS
  <2>2. /\ Fine(r) /\ r.floor = l.floor /\ Len(r.seen) <= Len(l.seen)
        /\ \/ r = l /\ ~(l.pending # None /\ SentOver(l, l.pending, c))
           \/ /\ l.pending # None /\ SentOver(l, l.pending, c)
              /\ r.pending = None /\ Entries(r) = {e \in Entries(l) : e.id # l.pending}
    BY <1>1, <1>6, <2>1, ClearFacts
  <2>3. ledger' = r
    BY <1>2, <1>6, <2>1
  <2>4. (Fine(ledger)' <=> Fine(r)) /\ Entries(ledger)' = Entries(r)
    BY <2>3 DEF Fine, Entries
  <2>5. QED BY <1>6, <2>2, <2>3, <2>4
<1>8. TypeOK'
  <2>1. Len(ledger'.seen) <= Capacity /\ ledger' \in LedgerRec
    <3>1. ledger' \in LedgerRec /\ Len(ledger'.seen) \in Nat /\ Len(ledger.seen) \in Nat
      BY <1>1, <1>7, EntriesTyped DEF Fine
    <3>2. Len(ledger.seen) <= Capacity
      BY <1>1 DEF TypeOK
    <3>3. QED BY <1>7, <3>1, <3>2, BoundAssumption
  <2>2. \A d \in Conns : Len(conn'[d].queue) <= QueueCapacity
    <3>1. Len(<<>>) <= QueueCapacity
      BY BoundAssumption
    <3>2. QED BY <1>1, <1>3, <1>4, <3>1 DEF TypeOK
  <2>3. QED BY <1>1, <1>2, <1>4, <2>1, <2>2 DEF TypeOK, RoomTypeOK, roomVars
<1>9. TopicInv' /\ ConnInv'
  <2>1. session # "down"
    BY <1>1, <1>2 DEF TopicInv
  <2>2. link # c
    BY <1>1, <1>2 DEF ConnInv
  <2>3. TopicInv'
    BY <1>1, <1>2, <2>1 DEF TopicInv, Topic
  <2>4. ASSUME NEW d \in Conns
        PROVE  /\ conn'[d].state \in {"none", "gone"} => conn'[d].inbox = <<>>
               /\ ~Job(d, "idle")' => conn'[d].state \in {"open", "closing"} /\ Input(d)' \in Inputs
               /\ Job(d, "idle")' => conn'[d].job = NoJob'
               /\ link' = d => conn'[d].state \in {"hello", "subscribed", "open"}
    <3>1. CASE d # c
      BY <1>1, <1>2, <1>4, <3>1 DEF ConnInv, Job, Input, NoJob
    <3>2. CASE d = c
      BY <1>2, <1>3, <1>4, <2>2, <3>2, NoConnTyped DEF Job, Input, NoJob
    <3>3. QED BY <3>1, <3>2
  <2>5. QED BY <1>1, <1>2, <2>3, <2>4 DEF ConnInv
<1>10. \A e \in Entries(ledger)' : e \in Entries(ledger)
  <2>1. CASE ledger' = ledger
    BY <2>1 DEF Entries
  <2>2. CASE Entries(ledger)' = {e \in Entries(ledger) : e.id # ledger.pending}
    BY <2>2
  <2>3. QED BY <1>7, <2>1, <2>2
<1>11. FlightInv'
  <2>1. \A j \in Inputs : Tracked(ledger, j)' => Tracked(ledger, j)
    BY <1>10 DEF Tracked
  <2>2. \A j \in Inputs : Serving(j)' => Serving(j)
    BY <1>5 DEF Serving, Job, Input
  <2>3. ASSUME NEW j \in Inputs, Tracked(ledger, j)
        PROVE  Tracked(ledger, j)' \/ taken'[j] = 0 \/ j <= ledger'.floor[Kind(j)]
    <3>1. CASE ledger' = ledger
      BY <2>3, <3>1 DEF Tracked, Entries
    <3>2. CASE /\ ledger.pending # None
               /\ Entries(ledger)' = {e \in Entries(ledger) : e.id # ledger.pending}
      <4>1. CASE j = ledger.pending
        BY <1>1, <1>2, <1>7, <3>2, <4>1 DEF LedgerInv, Anew
      <4>2. CASE j # ledger.pending
        BY <2>3, <3>2, <4>2 DEF Tracked
      <4>3. QED BY <4>1, <4>2
    <3>3. QED BY <1>7, <3>1, <3>2
  <2>4. \A k \in Kinds : ledger.floor[k] <= ledger'.floor[k]
    BY <1>1, <1>7 DEF LedgerRec
  <2>5. Counting' <=> Counting
    BY <1>2 DEF Counting
  <2>6. \A d \in Conns : \E k \in Nat : \A p \in DOMAIN conn'[d].inbox :
            p + k \in DOMAIN conn[d].inbox /\ conn'[d].inbox[p] = conn[d].inbox[p + k]
    <3>1. ASSUME NEW d \in Conns
          PROVE  \E k \in Nat : \A p \in DOMAIN conn'[d].inbox :
                   p + k \in DOMAIN conn[d].inbox /\ conn'[d].inbox[p] = conn[d].inbox[p + k]
      <4>1. conn'[d].inbox = conn[d].inbox
        BY <1>2, <1>3, <1>4
      <4>2. QED BY <1>1, <4>1, SameInbox
    <3>2. QED BY <3>1
  <2>7. Onward({})
    BY <1>2, <2>1, <2>2, <2>3, <2>4, <2>5, <2>6 DEF Onward
  <2>8. QED BY <1>1, <1>8, <1>9, <2>7, FlightKeeps
<1>12. LedgerInv'
  <2>1. Live' <=> Live
    BY <1>2 DEF Live
  <2>2. ASSUME NEW e \in Entries(ledger)'
        PROVE  /\ e.kind = Kind(e.id)'
               /\ \A r \in e.receipts : e.kind # "audio" \/ r = "committed" => taken'[e.id] > 0
    <3>1. e \in Entries(ledger)
      BY <1>10
    <3>2. QED BY <1>1, <1>2, <3>1 DEF LedgerInv, Kind
  <2>3. ledger'.pending # None =>
          /\ Kind(ledger.pending)' = "audio" /\ Anew(ledger.pending)'
          /\ Unsurpassed(ledger.pending)'
    <3>1. SUFFICES ASSUME ledger' = ledger, ledger.pending # None
                   PROVE  /\ Kind(ledger.pending)' = "audio" /\ Anew(ledger.pending)'
                          /\ Unsurpassed(ledger.pending)'
      BY <1>7
    <3>2. QED BY <1>1, <1>2, <3>1 DEF LedgerInv, Kind, Unsurpassed, Anew, Topic
  <2>4. ~Live => ledger'.seen = <<>> /\ ledger'.pending = None
    <3>1. SUFFICES ASSUME ~Live PROVE ledger'.seen = <<>> /\ ledger'.pending = None
      OBVIOUS
    <3>2. ledger.seen = <<>> /\ ledger.pending = None
      BY <1>1, <3>1 DEF LedgerInv
    <3>3. QED BY <1>7, <3>2
  <2>5. QED BY <1>7, <2>1, <2>2, <2>3, <2>4 DEF LedgerInv
<1>13. JobInv'
  <2>1. ASSUME NEW d \in Conns, ~Job(d, "idle"), Live, Kept(d) PROVE Kept(d)'
    <3>1. PICK j \in Inputs : j = Input(d)
      BY <1>1, <2>1 DEF ConnInv
    <3>2. Input(d)' = j /\ Kind(Input(d))' = Kind(j)
      BY <1>2, <1>5, <3>1 DEF Input, Kind
    <3>3. PICK e \in Entries(ledger) : e.id = j /\ e.conn = d /\ (Kind(j) # "audio" => ~e.accepted)
      BY <2>1, <3>1 DEF Kept
    <3>4. Kind(j) = "audio" => ledger.pending = j
      BY <2>1, <3>1 DEF Kept
    <3>5. CASE ledger' = ledger
      <4>1. e \in Entries(ledger)' /\ (Kind(j) = "audio" => ledger'.pending = j)
        BY <3>3, <3>4, <3>5 DEF Entries
      <4>2. QED BY <3>2, <3>3, <4>1 DEF Kept
    <3>6. CASE /\ ledger.pending # None /\ SentOver(ledger, ledger.pending, c)
               /\ Entries(ledger)' = {x \in Entries(ledger) : x.id # ledger.pending}
      <4>1. ledger.pending # j
        <5>1. SUFFICES ASSUME ledger.pending = j PROVE FALSE
          OBVIOUS
        <5>2. PICK f \in Entries(ledger) : f.id = j /\ f.conn = c
          BY <3>6, <5>1 DEF SentOver
        <5>3. e = f
          BY <1>1, <3>3, <5>2, OneEntry
        <5>4. d = c
          BY <3>3, <5>2, <5>3
        <5>5. QED BY <1>2, <2>1, <5>4, NoConnTyped DEF Job
      <4>2. e \in Entries(ledger)' /\ Kind(j) # "audio"
        BY <3>3, <3>4, <3>6, <4>1
      <4>3. QED BY <3>2, <3>3, <4>2 DEF Kept
    <3>7. QED BY <1>7, <3>5, <3>6
  <2>2. ASSUME NEW d \in Conns PROVE JobOK(d)'
    <3>1. JobOK(d)
      BY <1>1 DEF JobInv
    <3>2. \A e \in Conns : (\A a : Job(e, a)' <=> Job(e, a)) /\ Input(e)' = Input(e)
      BY <1>5 DEF Job, Input
    <3>3. \A e \in Conns : Kind(Input(e))' = Kind(Input(e))
      BY <1>2, <3>2 DEF Kind
    <3>4. Live' <=> Live
      BY <1>2 DEF Live
    <3>5. /\ taken'[Input(d)'] = taken[Input(d)] /\ (Unsurpassed(Input(d))' <=> Unsurpassed(Input(d)))
          /\ FirstTime(Input(d))' <=> FirstTime(Input(d))
      BY <1>2, <3>2 DEF Unsurpassed, Kind, FirstTime, Topic
    <3>6. QED BY <2>1, <3>1, <3>2, <3>3, <3>4, <3>5 DEF JobOK
  <2>3. QED BY <2>2 DEF JobInv
<1>14. PendingIsAttended'
  <2>1. CASE ledger'.pending = None
    BY <2>1 DEF PendingIsAttended
  <2>2. CASE ledger' = ledger /\ ~(ledger.pending # None /\ SentOver(ledger, ledger.pending, c))
    <3>1. SUFFICES ASSUME ledger.pending # None PROVE PendingIsAttended'
      BY <2>2 DEF PendingIsAttended
    <3>2. PICK d \in Conns :
            \/ conn[d].job.input = ledger.pending /\ conn[d].job # NoJob
            \/ /\ TwoPhase(ledger.pending)
               /\ SentOver(ledger, ledger.pending, d)
               /\ conn[d].state \in {"open", "closing"}
      BY <1>1, <3>1 DEF PendingIsAttended
    <3>3. CASE conn[d].job.input = ledger.pending /\ conn[d].job # NoJob
      <4>1. conn'[d].job.input = ledger'.pending /\ conn'[d].job # NoJob'
        BY <1>5, <2>2, <3>3 DEF NoJob
      <4>2. QED BY <4>1 DEF PendingIsAttended
    <3>4. CASE /\ TwoPhase(ledger.pending)
               /\ SentOver(ledger, ledger.pending, d)
               /\ conn[d].state \in {"open", "closing"}
      <4>1. d # c
        BY <2>2, <3>1, <3>4
      <4>2. /\ TwoPhase(ledger.pending)' /\ SentOver(ledger, ledger.pending, d)'
            /\ conn'[d].state \in {"open", "closing"}
        BY <1>2, <1>4, <2>2, <3>4, <4>1 DEF TwoPhase, Kind, SentOver, Entries
      <4>3. QED BY <4>2 DEF PendingIsAttended
    <3>5. QED BY <3>2, <3>3, <3>4
  <2>3. QED BY <1>7, <2>1, <2>2
<1>15. RoomsInv'
  <2>1. UNCHANGED <<taken, roomVars>> /\ session' = session
    BY <1>2
  <2>2. QED BY <1>1, <1>5, <2>1, RoomsKeep
<1>16. AckInv'
  <2>1. \A d \in Conns : \A p \in DOMAIN conn'[d].outbox :
           \E q \in DOMAIN conn[d].outbox : conn'[d].outbox[p] = conn[d].outbox[q]
    BY <1>3, <1>4
  <2>2. \A j \in Inputs : Accounted(j) => Accounted(j)'
    BY <1>2 DEF Accounted
  <2>3. \A j \in Inputs : (taken[j] > 0 => taken'[j] > 0) /\ (told'[j] = "acked" => told[j] = "acked")
    BY <1>2
  <2>4. scenario' = scenario
    BY <1>2
  <2>5. QED BY <1>1, <1>4, <2>1, <2>2, <2>3, <2>4, AckKeeps
<1>17. TriggerInv'
  <2>1. UNCHANGED <<scenario, session, taken, heard, lost, batch>>
    BY <1>2
  <2>2. QED BY <1>1, <1>5, <2>1, TriggerKeeps
<1>18. QED BY <1>8, <1>11, <1>12, <1>13, <1>14, <1>15, <1>16, <1>17 DEF IInv, WorkInv
-----------------------------------------------------------------------------

\* The end of a session leaves what is in flight as it is.
LEMMA EndingFlight ==
  ASSUME IInv, TypeOK', TopicInv', ~Counting' \/ (Counting /\ ledger' = ledger),
         UNCHANGED <<scenario, told, tries, half, link, ready, conn, taken>>,
         \A j \in Inputs : Tracked(ledger, j)' => Tracked(ledger, j)
  PROVE  FlightInv'
<1>1. /\ TypeOK /\ FlightInv /\ ConnInv /\ conn \in [Conns -> ConnRec] /\ ledger \in LedgerRec
  BY DEF IInv, FlightInv, TypeOK
<1>2. ConnInv'
  BY <1>1 DEF ConnInv, Job, Input, NoJob
<1>3. \A j \in Inputs : Serving(j)' => Serving(j)
  BY DEF Serving, Input, Job
<1>4. Counting' => /\ Counting
                   /\ \A j \in Inputs : Tracked(ledger, j) => Tracked(ledger, j)'
                   /\ \A k \in Kinds : ledger.floor[k] <= ledger'.floor[k]
  BY <1>1 DEF Tracked, Entries, LedgerRec
<1>5. \A d \in Conns : \E k \in Nat : \A p \in DOMAIN conn'[d].inbox :
          p + k \in DOMAIN conn[d].inbox /\ conn'[d].inbox[p] = conn[d].inbox[p + k]
  <2>1. ASSUME NEW d \in Conns
        PROVE  \E k \in Nat : \A p \in DOMAIN conn'[d].inbox :
                 p + k \in DOMAIN conn[d].inbox /\ conn'[d].inbox[p] = conn[d].inbox[p + k]
    <3>1. conn'[d].inbox = conn[d].inbox
      OBVIOUS
    <3>2. QED BY <1>1, <3>1, SameInbox
  <2>2. QED BY <2>1
<1>6. Onward({})
  BY <1>3, <1>4, <1>5 DEF Onward
<1>7. QED BY <1>1, <1>2, <1>6, FlightKeeps

\* A ledger cleared with its session.
LEMMA EmptyLedgerFacts ==
  /\ EmptyLedger \in LedgerRec /\ EmptyLedger.seen = <<>> /\ EmptyLedger.pending = None
  /\ Fine(EmptyLedger) /\ Entries(EmptyLedger) = {} /\ Len(EmptyLedger.seen) <= Capacity
<1>1. <<>> \in Seq(EntryRec) /\ Len(<<>>) = 0 /\ DOMAIN <<>> = {}
  OBVIOUS
<1>2. /\ EmptyLedger \in LedgerRec /\ EmptyLedger.seen = <<>> /\ EmptyLedger.pending = None
  BY <1>1 DEF EmptyLedger, LedgerRec
<1>3. Len(EmptyLedger.seen) <= Capacity
  BY <1>1, <1>2, BoundAssumption
<1>4. Entries(EmptyLedger) = {}
  BY <1>1, <1>2 DEF Entries, ToSet
<1>5. Fine(EmptyLedger)
  BY <1>1, <1>2 DEF Fine
<1>6. QED BY <1>2, <1>3, <1>4, <1>5

\* A ledger that was emptied.
LEMMA EmptyLedgerKeeps ==
  ASSUME ledger' = EmptyLedger
  PROVE  /\ LedgerInv' /\ PendingIsAttended' /\ ledger' \in LedgerRec /\ Len(ledger'.seen) <= Capacity
         /\ \A j : ~Tracked(ledger, j)'
<1>1. Fine(ledger)' /\ Entries(ledger)' = {} /\ ledger'.seen = <<>> /\ ledger'.pending = None
  BY EmptyLedgerFacts DEF Fine, Entries
<1>2. QED BY <1>1, EmptyLedgerFacts DEF LedgerInv, PendingIsAttended, Tracked

\* The session begins to stop.
LEMMA BeginStopKeeps == ASSUME IInv, BeginStop PROVE IInv'
<1>1. /\ TypeOK /\ FlightInv /\ TopicInv /\ LedgerInv /\ JobInv /\ PendingIsAttended /\ RoomsInv
      /\ TriggerInv
  BY DEF IInv, FlightInv, WorkInv
<1>2. /\ Topic = "process" /\ session = "running" /\ session' = "stopping"
      /\ UNCHANGED <<scenario, told, tries, half, link, ready, view, conn, ledger, status, batch,
                     taken, heard, lost, roomVars>>
  BY DEF BeginStop, Phase, client, history
<1>3. TypeOK'
  BY <1>1, <1>2 DEF TypeOK, RoomTypeOK, roomVars
<1>4. TopicInv'
  BY <1>2 DEF TopicInv, Topic
<1>5. Live /\ Live' /\ Counting /\ Counting'
  BY <1>2 DEF Live, Counting
<1>6. FlightInv'
  <2>1. \A j \in Inputs : Tracked(ledger, j)' => Tracked(ledger, j)
    BY <1>2 DEF Tracked, Entries
  <2>2. QED BY <1>2, <1>3, <1>4, <1>5, <2>1, EndingFlight
<1>7. LedgerInv' /\ JobInv' /\ PendingIsAttended'
  BY <1>1, <1>2, <1>5, LedgerKeeps, JobsKeep, AttendedKeeps
<1>8. RoomsInv'
  <2>1. UNCHANGED <<taken, roomVars>> /\ \A c \in Conns : conn'[c].job = conn[c].job
    BY <1>2
  <2>2. session' \in {"running", "stopping", "closing"} <=> session \in {"running", "stopping", "closing"}
    BY <1>2
  <2>3. QED BY <1>1, <2>1, <2>2, RoomsKeep
<1>9. AckInv'
  BY <1>2, RoomAcks
<1>10. TriggerInv'
  BY <1>1, <1>2, <1>5, TriggerStays
<1>11. QED BY <1>3, <1>6, <1>7, <1>8, <1>9, <1>10 DEF IInv, WorkInv

\* A batch that holds nothing.
LEMMA EmptyBatchFacts ==
  ASSUME NEW on \in BOOLEAN
  PROVE  /\ EmptyBatch(on) \in Batch /\ EmptyBatch(on).delta = {} /\ EmptyBatch(on).tick = {}
         /\ EmptyBatch(on).processed = {} /\ ~EmptyBatch(on).ticking
BY DEF EmptyBatch, Batch

\* A batch that was emptied: nothing new is accounted for.
LEMMA EmptyBatchKeeps ==
  ASSUME TypeOK, TriggerInv, Topic # "network",
         batch' = EmptyBatch(batch.on), UNCHANGED <<scenario, taken, heard, lost>>,
         \A d \in Conns : ~Job(d, "idle")' => ~Job(d, "idle") /\ Input(d)' = Input(d)
  PROVE  TriggerInv' /\ batch' \in Batch
<1>1. batch.on \in BOOLEAN
  BY DEF TypeOK, Batch
<1>2. /\ batch' \in Batch /\ batch'.delta = {} /\ batch'.tick = {}
      /\ batch'.processed = {} /\ ~batch'.ticking
  BY <1>1, EmptyBatchFacts
<1>0. AccountsInv /\ Topic' # "network"
  BY DEF TriggerInv, Topic
<1>3. ASSUME NEW j \in Inputs
      PROVE  Accounted(j)' \/ j \in batch'.processed =>
               taken'[j] > 0 /\ \A d \in Conns : (Job(d, "idle") \/ Input(d) # j)'
  <2>1. SUFFICES ASSUME Accounted(j)'
                 PROVE  taken'[j] > 0 /\ \A d \in Conns : (Job(d, "idle") \/ Input(d) # j)'
    BY <1>2
  <2>2. Accounted(j)
    BY <1>2, <2>1 DEF Accounted
  <2>3. taken[j] > 0 /\ \A d \in Conns : (Job(d, "idle") \/ Input(d) # j)
    BY <1>0, <2>2 DEF AccountsInv
  <2>4. QED BY <2>3
<1>4. \A j \in Inputs : /\ heard'[j] <= 1 /\ taken'[j] <= 1
                        /\ j \in lost' => heard'[j] = 0
  BY <1>0 DEF AccountsInv
<1>5. AccountsInv'
  BY <1>2, <1>3, <1>4 DEF AccountsInv
<1>6. QED BY <1>0, <1>2, <1>5 DEF TriggerInv

\* The intake is stopped: ledger and batch are cleared.
LEMMA StopIngestKeeps == ASSUME IInv, StopIngest PROVE IInv'
<1>1. /\ TypeOK /\ FlightInv /\ TopicInv /\ JobInv /\ RoomsInv /\ AckInv /\ TriggerInv
      /\ conn \in [Conns -> ConnRec]
  BY DEF IInv, FlightInv, WorkInv, TypeOK
<1>2. /\ session = "stopping" /\ session' = "closing"
      /\ ledger' = EmptyLedger /\ batch' = EmptyBatch(batch.on)
      /\ UNCHANGED <<scenario, told, tries, half, link, ready, view, conn, status,
                     taken, heard, lost, roomVars>>
  BY DEF StopIngest, Phase, client, history
<1>3. /\ LedgerInv' /\ PendingIsAttended' /\ ledger' \in LedgerRec /\ Len(ledger'.seen) <= Capacity
      /\ \A j : ~Tracked(ledger, j)'
  BY <1>2, EmptyLedgerKeeps
<1>4. TriggerInv' /\ batch' \in Batch
  <2>1. \A d \in Conns : ~Job(d, "idle")' => ~Job(d, "idle") /\ Input(d)' = Input(d)
    BY <1>2 DEF Job, Input
  <2>2. Topic # "network"
    BY <1>1, <1>2 DEF TopicInv
  <2>3. QED BY <1>1, <1>2, <2>1, <2>2, EmptyBatchKeeps
<1>5. TypeOK'
  BY <1>1, <1>2, <1>3, <1>4 DEF TypeOK, RoomTypeOK, roomVars
<1>6. Topic = "process" /\ TopicInv'
  <2>1. Topic \in {"network", "process", "batch", "feed"}
    BY <1>1, ScenarioAssumption DEF TypeOK, Topic
  <2>2. QED BY <1>1, <1>2 DEF TopicInv, Topic
<1>7. ~Counting' /\ ~Live'
  BY <1>2 DEF Counting, Live
<1>8. FlightInv'
  BY <1>2, <1>3, <1>5, <1>6, <1>7, EndingFlight
<1>9. JobInv'
  <2>1. \A c \in Conns : conn'[c].job = conn[c].job
    BY <1>2
  <2>2. QED BY <1>1, <1>2, <1>7, <2>1, JobsKeep
<1>10. RoomsInv'
  <2>1. UNCHANGED <<taken, roomVars>> /\ \A c \in Conns : conn'[c].job = conn[c].job
    BY <1>2
  <2>2. session' \in {"running", "stopping", "closing"} <=> session \in {"running", "stopping", "closing"}
    BY <1>2
  <2>3. QED BY <1>1, <2>1, <2>2, RoomsKeep
<1>11. AckInv'
  <2>1. Topic' # "batch" /\ \A i : Kind(i)' = Kind(i)
    BY <1>2, <1>6 DEF Topic, Kind
  <2>2. ASSUME NEW c \in Conns, NEW p \in DOMAIN conn[c].outbox PROVE AckOK(conn[c].outbox[p])'
    <3>1. PICK m : m = conn[c].outbox[p]
      OBVIOUS
    <3>2. AckOK(m)
      BY <1>1, <3>1 DEF AckInv
    <3>3. AckOK(m)'
      BY <1>2, <2>1, <3>2 DEF AckOK
    <3>4. AckOK(conn[c].outbox[p])' <=> AckOK(m)'
      BY <1>2, <3>1 DEF AckOK, Kind, Topic, Accounted
    <3>5. QED BY <3>3, <3>4
  <2>3. \A c \in Conns : \A p \in DOMAIN conn'[c].outbox : AckOK(conn[c].outbox[p])'
    BY <1>2, <2>2
  <2>4. QED BY <1>2, <2>1, <2>3 DEF AckInv
<1>12. QED BY <1>3, <1>4, <1>5, <1>8, <1>9, <1>10, <1>11 DEF IInv, WorkInv
-----------------------------------------------------------------------------

\* The room ends with the session.
LEMMA EndRoomKeeps == ASSUME IInv, EndRoom PROVE IInv'
<1>1. /\ TypeOK /\ FlightInv /\ TopicInv /\ LedgerInv /\ JobInv /\ PendingIsAttended /\ RoomsInv
      /\ LineInv /\ RoomInv /\ RoomTypeOK /\ TriggerInv
  BY DEF IInv, FlightInv, WorkInv, RoomsInv, TypeOK
<1>2. /\ session = "closing" /\ session' = "over"
      /\ active /\ line = <<>> /\ active' = FALSE /\ events' = <<>> /\ next' = 1
      /\ UNCHANGED <<scenario, told, tries, half, link, ready, view, conn, ledger, status, batch,
                     taken, heard, lost, rows, line>>
  BY DEF EndRoom, Phase, StopRoom, client, history
<1>3. RoomTypeOK'
  <2>1. <<>> \in Seq([sequence : Nat, event : Events])
    OBVIOUS
  <2>2. QED BY <1>1, <1>2, <2>1 DEF RoomTypeOK
<1>4. TypeOK'
  BY <1>1, <1>2, <1>3 DEF TypeOK
<1>5. TopicInv'
  BY <1>1, <1>2 DEF TopicInv, Topic
<1>6. ~Counting' /\ ~Live' /\ ~Live
  BY <1>2 DEF Counting, Live
<1>7. FlightInv'
  <2>1. \A j \in Inputs : Tracked(ledger, j)' => Tracked(ledger, j)
    BY <1>2 DEF Tracked, Entries
  <2>2. QED BY <1>2, <1>4, <1>5, <1>6, <2>1, EndingFlight
<1>8. LedgerInv' /\ JobInv' /\ PendingIsAttended'
  <2>1. \A c \in Conns : conn'[c].job = conn[c].job
    BY <1>2
  <2>2. QED BY <1>1, <1>2, <1>6, <2>1, LedgerKeeps, JobsKeep, AttendedKeeps
<1>9. RoomsInv'
  <2>1. LineInv'
    BY <1>1, <1>2 DEF LineInv, InLine, Job
  <2>2. RoomInv'
    BY <1>1, <1>2 DEF RoomInv, RoomMatchesLog
  <2>3. QED BY <2>1, <2>2 DEF RoomsInv
<1>10. AckInv'
  BY <1>2, RoomAcks
<1>11. TriggerInv'
  BY <1>1, <1>2, <1>6, TriggerStays
<1>12. QED BY <1>4, <1>7, <1>8, <1>9, <1>10, <1>11 DEF IInv, WorkInv

\* The process is up again, with the room its log holds.
LEMMA RecoverKeeps == ASSUME IInv, Recover PROVE IInv'
<1>1. /\ TypeOK /\ FlightInv /\ TopicInv /\ ConnInv /\ LedgerInv /\ JobInv /\ PendingIsAttended
      /\ RoomsInv /\ LineInv /\ RoomInv /\ RoomTypeOK /\ TriggerInv
  BY DEF IInv, FlightInv, WorkInv, RoomsInv, TypeOK
<1>2. /\ session = "down" /\ session' = "running"
      /\ ~active /\ active' = TRUE /\ events' = rows
      /\ next' = IF rows = <<>> THEN 1 ELSE rows[Len(rows)].sequence + 1
      /\ UNCHANGED <<scenario, told, tries, half, link, ready, view, conn, ledger, status, batch,
                     taken, heard, lost, rows, line>>
  BY DEF Recover, Phase, RestoreRoom, client, history
<1>3. PICK r \in Seq(RowRec) : r = rows
  BY <1>1 DEF RoomTypeOK, RowRec
<1>4. next' = Len(r) + 1 /\ next' \in Nat
  <2>1. CASE r = <<>>
    <3>1. Len(<<>>) = 0
      OBVIOUS
    <3>2. QED BY <1>2, <1>3, <2>1, <3>1
  <2>2. CASE r # <<>>
    <3>1. Len(r) \in DOMAIN r /\ Len(r) \in Nat
      BY <2>2
    <3>2. r[Len(r)].sequence = Len(r)
      BY <1>1, <1>3, <3>1 DEF RoomInv
    <3>3. QED BY <1>2, <1>3, <2>2, <3>1, <3>2
  <2>3. QED BY <2>1, <2>2
<1>5. RoomTypeOK'
  BY <1>1, <1>2, <1>4 DEF RoomTypeOK
<1>6. TypeOK'
  BY <1>1, <1>2, <1>5 DEF TypeOK
<1>7. TopicInv'
  BY <1>1, <1>2 DEF TopicInv, Topic
<1>8. Counting' /\ Counting /\ ~Live
  BY <1>2 DEF Counting, Live
<1>9. FlightInv'
  <2>1. \A j \in Inputs : Tracked(ledger, j)' => Tracked(ledger, j)
    BY <1>2 DEF Tracked, Entries
  <2>2. QED BY <1>2, <1>6, <1>7, <1>8, <2>1, EndingFlight
<1>10. \A c \in Conns : Job(c, "idle") /\ Job(c, "idle")'
  <2>1. ASSUME NEW c \in Conns PROVE Job(c, "idle")
    <3>1. conn[c].state \in {"none", "gone"}
      BY <1>1, <1>2 DEF TopicInv
    <3>2. QED BY <1>1, <3>1 DEF ConnInv
  <2>2. QED BY <1>2, <2>1 DEF Job
<1>11. JobInv'
  BY <1>10 DEF JobInv, JobOK
<1>12. LedgerInv'
  <2>1. ledger.seen = <<>> /\ ledger.pending = None /\ Fine(ledger)
    BY <1>1, <1>8 DEF LedgerInv
  <2>2. Fine(ledger)'
    BY <1>2, <2>1 DEF Fine
  <2>3. Entries(ledger)' = Entries(ledger)
    BY <1>2 DEF Entries
  <2>4. Entries(ledger) = {}
    <3>1. DOMAIN <<>> = {}
      OBVIOUS
    <3>2. QED BY <2>1, <3>1 DEF Entries, ToSet
  <2>5. QED BY <1>2, <2>1, <2>2, <2>3, <2>4 DEF LedgerInv
<1>13. PendingIsAttended'
  BY <1>1, <1>2, AttendedKeeps
<1>14. line' = <<>>
  BY <1>1, <1>2 DEF LineInv
<1>15. RoomsInv'
  <2>1. LineInv'
    <3>1. DOMAIN <<>> = {}
      OBVIOUS
    <3>2. \A c \in Conns : ~Job(c, "line")'
      BY <1>10 DEF Job
    <3>3. QED BY <1>2, <1>14, <3>1, <3>2 DEF LineInv
  <2>2. \A p \in DOMAIN rows : rows[p].sequence = p
    BY <1>1 DEF RoomInv
  <2>3. RoomMatchesLog'
    BY <1>2, <1>3, <1>4, <1>14, <2>2 DEF RoomMatchesLog
  <2>4. RoomInv'
    BY <1>2, <1>14, <2>2, <2>3 DEF RoomInv
  <2>5. QED BY <2>1, <2>4 DEF RoomsInv
<1>16. AckInv'
  BY <1>2, RoomAcks
<1>17. TriggerInv'
  BY <1>1, <1>2, <1>8, TriggerStays
<1>18. QED BY <1>6, <1>9, <1>11, <1>12, <1>13, <1>15, <1>16, <1>17 DEF IInv, WorkInv
-----------------------------------------------------------------------------

\* A crash takes everything that was in flight.
LEMMA CrashConns ==
  ASSUME TypeOK, ConnInv,
         conn' = [c \in Conns |-> IF conn[c].state = "none" THEN conn[c]
                                  ELSE [NoConn EXCEPT !.state = "gone"]]
  PROVE  /\ conn' \in [Conns -> ConnRec]
         /\ \A c \in Conns :
              /\ conn'[c].state \in {"none", "gone"} /\ conn'[c].inbox = <<>>
              /\ conn'[c].job = NoJob /\ Job(c, "idle")' /\ ~Job(c, "line")'
              /\ Len(conn'[c].queue) <= QueueCapacity
              /\ conn'[c].outbox = conn[c].outbox \/ conn'[c].outbox = <<>>
<1>1. PICK n \in ConnRec : /\ n = [NoConn EXCEPT !.state = "gone"] /\ n.state = "gone"
                           /\ n.inbox = <<>> /\ n.outbox = <<>> /\ n.queue = <<>> /\ n.job = NoJob
  BY GoneTyped
<1>2. conn \in [Conns -> ConnRec]
  BY DEF TypeOK
<1>3. conn' = [c \in Conns |-> IF conn[c].state = "none" THEN conn[c] ELSE n]
  BY <1>1
<1>4. Len(<<>>) <= QueueCapacity
  BY BoundAssumption
<1>5. ASSUME NEW c \in Conns
      PROVE  /\ conn'[c].state \in {"none", "gone"} /\ conn'[c].inbox = <<>>
             /\ conn'[c].job = NoJob
             /\ Len(conn'[c].queue) <= QueueCapacity
             /\ conn'[c].outbox = conn[c].outbox \/ conn'[c].outbox = <<>>
  <2>1. CASE conn[c].state = "none"
    <3>1. conn'[c] = conn[c]
      BY <1>3, <2>1
    <3>2. conn[c].inbox = <<>> /\ conn[c].job = NoJob
      BY <2>1 DEF ConnInv
    <3>3. QED BY <2>1, <3>1, <3>2 DEF TypeOK
  <2>2. CASE conn[c].state # "none"
    <3>1. conn'[c] = n
      BY <1>3, <2>2
    <3>2. QED BY <1>1, <1>4, <3>1
  <2>3. QED BY <2>1, <2>2
<1>6. conn' \in [Conns -> ConnRec]
  BY <1>2, <1>3
<1>7. \A c \in Conns : Job(c, "idle")' /\ ~Job(c, "line")'
  BY <1>5, NoConnTyped DEF Job
<1>8. QED BY <1>5, <1>6, <1>7

\* The process dies: every connection, the ledger and the batch are gone.
LEMMA CrashKeeps == ASSUME IInv, Crash PROVE IInv'
<1>1. /\ TypeOK /\ TopicInv /\ ConnInv /\ SentInv /\ RoomInv /\ RoomTypeOK /\ AckInv /\ TriggerInv
      /\ told \in [Inputs -> {"unsent", "waiting", "acked", "refused", "timeout", "closed"}]
  BY DEF IInv, FlightInv, RoomsInv, TypeOK
<1>2. /\ Topic = "process" /\ session = "running" /\ session' = "down"
      /\ active' = FALSE /\ events' = <<>> /\ next' = 1 /\ line' = <<>>
      /\ conn' = [c \in Conns |-> IF conn[c].state = "none" THEN conn[c]
                                  ELSE [NoConn EXCEPT !.state = "gone"]]
      /\ told' = Unanswered(told) /\ link' = None /\ ready' = FALSE
      /\ ledger' = EmptyLedger /\ batch' = EmptyBatch(batch.on)
      /\ UNCHANGED <<scenario, tries, half, view, status, taken, heard, lost, rows>>
  BY DEF Crash, Phase, CrashRoom, history
<1>3. /\ conn' \in [Conns -> ConnRec]
      /\ \A c \in Conns :
           /\ conn'[c].state \in {"none", "gone"} /\ conn'[c].inbox = <<>>
           /\ conn'[c].job = NoJob /\ Job(c, "idle")' /\ ~Job(c, "line")'
           /\ Len(conn'[c].queue) <= QueueCapacity
           /\ conn'[c].outbox = conn[c].outbox \/ conn'[c].outbox = <<>>
  BY <1>1, <1>2, CrashConns
<1>4. DOMAIN <<>> = {}
  OBVIOUS
<1>5. /\ told' \in [Inputs -> {"unsent", "waiting", "acked", "refused", "timeout", "closed"}]
      /\ \A i \in Inputs : /\ told'[i] # "waiting" /\ (told'[i] = "unsent" <=> told[i] = "unsent")
                           /\ (told'[i] = "acked" => told[i] = "acked")
  BY <1>1, <1>2 DEF Unanswered
<1>6. /\ LedgerInv' /\ PendingIsAttended' /\ ledger' \in LedgerRec /\ Len(ledger'.seen) <= Capacity
      /\ \A j : ~Tracked(ledger, j)'
  BY <1>2, EmptyLedgerKeeps
<1>7. TriggerInv' /\ batch' \in Batch
  BY <1>1, <1>2, <1>3, EmptyBatchKeeps
<1>8. RoomTypeOK'
  <2>1. /\ <<>> \in Seq([sequence : Nat, event : Events]) /\ <<>> \in Seq(Writing)
    OBVIOUS
  <2>2. QED BY <1>1, <1>2, <1>4, <2>1 DEF RoomTypeOK
<1>9. TypeOK'
  <2>1. \A c \in Conns : Len(conn'[c].queue) <= QueueCapacity
    BY <1>3
  <2>2. conn' \in [Conns -> ConnRec]
    BY <1>3
  <2>3. link' \in Conns \cup {None} /\ ready' \in BOOLEAN /\ session' = "down"
    BY <1>2
  <2>4. UNCHANGED <<scenario, tries, half, view, status, taken, heard, lost>>
    BY <1>2
  <2>5. QED BY <1>1, <1>5, <1>6, <1>7, <1>8, <2>1, <2>2, <2>3, <2>4 DEF TypeOK
<1>10. TopicInv'
  BY <1>2, <1>3, <1>5 DEF TopicInv, Topic
<1>11. ConnInv'
  <2>1. None \notin Conns
    BY NoneAssumption, ConnAssumption
  <2>2. NoJob' = NoJob
    BY DEF NoJob
  <2>3. QED BY <1>2, <1>3, <2>1, <2>2 DEF ConnInv
<1>12. \A i \in Inputs : ~InboxHas(i)' /\ ~Serving(i)'
  BY <1>3, <1>4 DEF InboxHas, Serving
<1>13. SentInv'
  <2>2. ASSUME NEW i \in Inputs
        PROVE  /\ tries'[i] = 0 <=> told'[i] = "unsent"
               /\ told'[i] = "unsent" =>
                    /\ i \notin half' /\ ~InboxHas(i)' /\ ~Serving(i)' /\ ~Tracked(ledger, i)'
                    /\ taken'[i] = 0
               /\ tries'[i] > 0 => i <= scenario'.count
               /\ \A j \in Inputs : j < i /\ told'[j] = "unsent" => told'[i] = "unsent"
    BY <1>1, <1>2, <1>5, <1>6, <1>12 DEF SentInv
  <2>3. ASSUME NEW i \in Inputs, tries'[i] = 2
        PROVE  Topic' = "network" /\ Kind(i)' # "text" /\ ~TwoPhase(i)'
    BY <1>1, <1>2, <2>3 DEF SentInv, Topic, Kind, TwoPhase
  <2>4. QED BY <2>2, <2>3 DEF SentInv
<1>14. OnceInv'
  <2>1. \A c \in Conns, p \in Nat, i \in Inputs : ~MainAt(c, p, i)'
    BY <1>3, <1>4 DEF MainAt
  <2>2. QED BY <2>1 DEF OnceInv
<1>16. CoveredInv'
  <2>1. ASSUME NEW j \in Inputs, taken[j] > 0, NEW i \in Inputs, told'[i] = "unsent" PROVE i > j
    <3>1. told[i] = "unsent" /\ taken[i] = 0
      BY <1>1, <1>5, <2>1 DEF SentInv
    <3>2. told[j] # "unsent"
      BY <1>1, <2>1 DEF SentInv
    <3>3. ~(i < j) /\ i # j
      BY <1>1, <2>1, <3>1, <3>2 DEF SentInv
    <3>4. i \in Nat /\ j \in Nat
      BY ConnAssumption
    <3>5. QED BY <3>3, <3>4
  <2>2. ASSUME NEW j \in Inputs, taken[j] > 0 PROVE Behind(j)'
    BY <1>5, <1>12, <2>1, <2>2 DEF Behind
  <2>3. QED BY <1>2, <2>2 DEF CoveredInv
<1>17. FlightInv'
  BY <1>10, <1>11, <1>13, <1>14, <1>16 DEF FlightInv
<1>18. JobInv'
  BY <1>3 DEF JobInv, JobOK
<1>19. RoomsInv'
  <2>1. LineInv'
    BY <1>2, <1>3, <1>4 DEF LineInv
  <2>2. RoomInv'
    BY <1>1, <1>2 DEF RoomInv, RoomMatchesLog
  <2>3. QED BY <2>1, <2>2 DEF RoomsInv
<1>20. AckInv'
  <2>1. Topic' # "batch" /\ \A i : Kind(i)' = Kind(i)
    BY <1>2 DEF Topic, Kind
  <2>2. ASSUME NEW c \in Conns, NEW p \in DOMAIN conn'[c].outbox PROVE AckOK(conn[c].outbox[p])'
    <3>1. conn'[c].outbox = conn[c].outbox
      BY <1>3, <1>4, <2>2
    <3>2. PICK m : m = conn[c].outbox[p]
      OBVIOUS
    <3>3. AckOK(m)
      BY <1>1, <2>2, <3>1, <3>2 DEF AckInv
    <3>4. AckOK(m)'
      BY <1>2, <2>1, <3>3 DEF AckOK
    <3>5. conn'[c].outbox[p] = m
      BY <3>1, <3>2
    <3>6. QED BY <3>4, <3>5 DEF AckOK, Kind, Topic, Accounted
  <2>3. QED BY <2>1, <2>2 DEF AckInv
<1>21. QED BY <1>6, <1>7, <1>9, <1>17, <1>18, <1>19, <1>20 DEF IInv, WorkInv
-----------------------------------------------------------------------------
(* The invariant.                                                          *)

\* The invariant holds at first.
LEMMA InitHolds == ASSUME Init PROVE IInv
<1>1. /\ scenario \in Scenarios /\ told = [i \in Inputs |-> "unsent"] /\ tries = [i \in Inputs |-> 0]
      /\ half = {} /\ link = None /\ ready = FALSE /\ view = 0
      /\ conn = [c \in Conns |-> NoConn] /\ ledger = EmptyLedger /\ session = "running" /\ status = 0
      /\ batch = EmptyBatch(scenario.topic = "batch")
      /\ taken = [i \in Inputs |-> 0] /\ heard = [i \in Inputs |-> 0] /\ lost = {}
      /\ rows = <<>> /\ active = TRUE /\ events = <<>> /\ next = 1 /\ line = <<>>
  BY DEF Init, RoomInit
<1>2. PICK n \in ConnRec : /\ n = NoConn /\ n.inbox = <<>> /\ n.outbox = <<>> /\ n.job = NoJob
                           /\ n.queue = <<>> /\ n.state = "none"
  BY NoConnTyped
<1>3. \A c \in Conns : conn[c] = n
  BY <1>1, <1>2
<1>4. \A c \in Conns : Job(c, "idle") /\ ~Job(c, "line")
  BY <1>2, <1>3, NoConnTyped DEF Job
<1>5. DOMAIN <<>> = {} /\ Len(<<>>) = 0
  OBVIOUS
<1>6. /\ Fine(ledger) /\ Entries(ledger) = {} /\ ledger.pending = None /\ ledger.seen = <<>>
      /\ ledger \in LedgerRec /\ Len(ledger.seen) <= Capacity
  BY <1>1, EmptyLedgerFacts
<1>7. \A i : ~Tracked(ledger, i)
  BY <1>6 DEF Tracked
<1>8. /\ batch \in Batch /\ batch.delta = {} /\ batch.tick = {} /\ batch.processed = {} /\ ~batch.ticking
  <2>1. (scenario.topic = "batch") \in BOOLEAN
    OBVIOUS
  <2>2. QED BY <1>1, <2>1, EmptyBatchFacts
<1>9. RoomTypeOK
  <2>1. /\ <<>> \in Seq([sequence : Nat, event : Events]) /\ <<>> \in Seq(Writing)
    OBVIOUS
  <2>2. QED BY <1>1, <1>5, <2>1 DEF RoomTypeOK
<1>10. TypeOK
  <2>1. conn \in [Conns -> ConnRec] /\ \A c \in Conns : Len(conn[c].queue) <= QueueCapacity
    BY <1>1, <1>2, <1>3, <1>5, BoundAssumption
  <2>2. 0 \in 0..MaxStatus
    BY BoundAssumption
  <2>3. /\ told \in [Inputs -> {"unsent", "waiting", "acked", "refused", "timeout", "closed"}]
        /\ tries \in [Inputs -> 0..2]
        /\ taken \in [Inputs -> Nat] /\ heard \in [Inputs -> Nat]
    BY <1>1
  <2>4. QED BY <1>1, <1>6, <1>8, <1>9, <2>1, <2>2, <2>3 DEF TypeOK
<1>11. \A i \in Inputs : ~InboxHas(i) /\ ~Serving(i)
  BY <1>2, <1>3, <1>4, <1>5 DEF InboxHas, Serving
<1>12. TopicInv /\ ConnInv
  <2>1. None \notin Conns
    BY NoneAssumption, ConnAssumption
  <2>2. QED BY <1>1, <1>2, <1>3, <1>4, <2>1 DEF TopicInv, ConnInv, Job
<1>13. SentInv
  BY <1>1, <1>7, <1>11 DEF SentInv
<1>14. OnceInv
  BY <1>2, <1>3, <1>5 DEF OnceInv, MainAt
<1>15. CoveredInv
  BY <1>1 DEF CoveredInv
<1>16. LedgerInv /\ PendingIsAttended
  BY <1>6 DEF LedgerInv, PendingIsAttended
<1>17. JobInv
  BY <1>4 DEF JobInv, JobOK
<1>18. RoomsInv
  <2>1. LineInv
    BY <1>1, <1>4, <1>5 DEF LineInv
  <2>2. RoomInv
    BY <1>1, <1>5 DEF RoomInv, RoomMatchesLog
  <2>3. QED BY <2>1, <2>2 DEF RoomsInv
<1>19. AckInv
  BY <1>1, <1>2, <1>3, <1>5 DEF AckInv
<1>20. TriggerInv
  <2>1. AccountsInv
    BY <1>1, <1>8 DEF AccountsInv, Accounted
  <2>2. Topic = "network" => CountInv
    <3>1. SUFFICES ASSUME Topic = "network" PROVE CountInv
      OBVIOUS
    <3>2. batch = EmptyBatch(FALSE)
      BY <1>1, <3>1 DEF Topic
    <3>3. ~batch.on
      BY <3>2 DEF EmptyBatch
    <3>4. QED BY <1>1, <1>4, <1>8, <3>3 DEF CountInv, Owed, Job
  <2>3. QED BY <1>8, <2>1, <2>2 DEF TriggerInv
<1>21. QED BY <1>10, <1>12, <1>13, <1>14, <1>15, <1>16, <1>17, <1>18, <1>19, <1>20
       DEF IInv, FlightInv, WorkInv

\* Every step of a handler keeps it.
LEMMA HandlerKeeps == ASSUME IInv, NEW c \in Conns, Handler(c) PROVE IInv'
BY SubscribeKeeps, WelcomeKeeps, HangupKeeps, ForwardKeeps, AgainKeeps, RefusedKeeps, TextKeeps,
   FrameKeeps, AudioKeeps, CommitServed, PersistTextKeeps, ShowTextKeeps, TextFailsKeeps,
   ObserveKeeps, ObserveFailsKeeps, PushKeeps, CommitKeeps, AudioFailsKeeps DEF Handler

\* So does every step.
LEMMA NextKeeps == IInv /\ [Next]_vars => IInv'
<1>1. SUFFICES ASSUME IInv, [Next]_vars PROVE IInv'
  OBVIOUS
<1>2. CASE Timer
  BY <1>1, <1>2, TakeTickKeeps, SubmitTickKeeps, TickFailsKeeps, DiscardKeeps DEF Timer
<1>3. CASE Desktop
  BY <1>1, <1>3, DialKeeps, ReceiveKeeps, SubmitKeeps, TimeoutKeeps DEF Desktop
<1>4. CASE Environment
  BY <1>1, <1>4, DropKeeps, ViewerSpeaksKeeps, ViewerWritesKeeps, PublishKeeps, SwitchKeeps,
     BeginStopKeeps, StopIngestKeeps, EndRoomKeeps, CrashKeeps, RecoverKeeps DEF Environment
<1>5. CASE \E c \in Conns : Handler(c)
  BY <1>1, <1>5, HandlerKeeps
<1>6. CASE UNCHANGED vars
  <2>1. UNCHANGED <<scenario, told, tries, half, link, ready, view, conn, ledger, session, status,
                    batch, taken, heard, lost, rows, active, events, next, line>>
    BY <1>6 DEF vars, roomVars
  <2>2. RoomsInv /\ RoomTypeOK
    BY <1>1 DEF IInv, TypeOK
  <2>3. RoomTypeOK'
    BY <2>1, <2>2 DEF RoomTypeOK
  <2>4. RoomsInv'
    <3>1. UNCHANGED <<taken, roomVars>> /\ \A c \in Conns : conn'[c].job = conn[c].job
      BY <2>1 DEF roomVars
    <3>2. session' \in {"running", "stopping", "closing"} <=> session \in {"running", "stopping", "closing"}
      BY <2>1
    <3>3. QED BY <2>2, <3>1, <3>2, RoomsKeep
  <2>5. QED BY <1>1, <2>1, <2>3, <2>4, RoomOnly
<1>7. QED BY <1>1, <1>2, <1>3, <1>4, <1>5, <1>6 DEF Next

\* The invariant holds of every behaviour.
THEOREM Invariance == Spec => []IInv
<1>1. Init => IInv
  BY InitHolds
<1>2. QED BY <1>1, NextKeeps, PTL DEF Spec

\* The books of the intake always agree (IntakeConsistent): room and log,
\* ledger and connections, whatever is resent, lost, fails half way or crashes.
THEOREM BooksAgree == Spec => []IntakeConsistent
<1>1. IInv => IntakeConsistent
  BY DEF IInv, WorkInv, RoomsInv, RoomInv, IntakeConsistent
<1>2. QED BY <1>1, Invariance, PTL

\* A trigger is in one place, and is never forgotten (TriggersKept).
THEOREM TriggersAreKept == Spec => []TriggersKept
<1>1. ASSUME IInv, NEW i \in Inputs
      PROVE  /\ heard[i] <= taken[i]
             /\ Cardinality({p \in {"delta", "tick", "heard", "lost"} :
                               \/ p = "delta" /\ i \in batch.delta
                               \/ p = "tick" /\ i \in batch.tick
                               \/ p = "heard" /\ heard[i] > 0
                               \/ p = "lost" /\ i \in lost}) <= 1
             /\ Topic = "batch" /\ told[i] = "acked" /\ Kind(i) = "text" =>
                  i \in batch.delta \cup batch.tick \cup lost \/ heard[i] > 0
  <2> DEFINE Places == {p \in {"delta", "tick", "heard", "lost"} :
                          \/ p = "delta" /\ i \in batch.delta
                          \/ p = "tick" /\ i \in batch.tick
                          \/ p = "heard" /\ heard[i] > 0
                          \/ p = "lost" /\ i \in lost}
  <2>1. TriggerInv /\ AckInv /\ heard[i] \in Nat /\ taken[i] \in Nat
    BY <1>1 DEF IInv, TypeOK
  <2>2. /\ Topic # "network" => heard[i] <= 1 /\ (heard[i] > 0 => taken[i] > 0)
        /\ Topic = "network" => heard[i] <= taken[i]
        /\ i \in batch.delta => i \notin batch.tick /\ i \notin lost /\ heard[i] = 0
        /\ i \in batch.tick => i \notin lost /\ heard[i] = 0
        /\ i \in lost => heard[i] = 0
    <3>1. CASE Topic = "network"
      <4>1. ~batch.ticking /\ CountInv /\ batch.tick = {}
        BY <2>1, <3>1 DEF TriggerInv, CountInv
      <4>2. QED BY <3>1, <4>1 DEF CountInv
    <3>2. CASE Topic # "network"
      <4>1. AccountsInv
        BY <2>1, <3>2 DEF TriggerInv
      <4>2. QED BY <3>2, <4>1 DEF AccountsInv, Accounted
    <3>3. QED BY <3>1, <3>2
  <2>3. heard[i] <= taken[i]
    BY <2>1, <2>2
  <2>4. Places = {} \/ \E p : Places = {p}
    <3>1. heard[i] > 0 => heard[i] # 0
      BY <2>1
    <3>2. CASE i \in batch.delta
      <4>1. Places = {"delta"}
        BY <2>2, <3>1, <3>2
      <4>2. QED BY <4>1
    <3>3. CASE i \in batch.tick
      <4>1. Places = {"tick"}
        BY <2>2, <3>1, <3>3
      <4>2. QED BY <4>1
    <3>4. CASE i \in lost
      <4>1. Places = {"lost"}
        BY <2>2, <3>1, <3>4
      <4>2. QED BY <4>1
    <3>5. CASE heard[i] > 0
      <4>1. Places = {"heard"}
        <5>1. i \notin batch.delta /\ i \notin batch.tick /\ i \notin lost
          BY <2>2, <3>1, <3>5
        <5>2. QED BY <3>5, <5>1
      <4>2. QED BY <4>1
    <3>6. CASE i \notin batch.delta /\ i \notin batch.tick /\ i \notin lost /\ ~(heard[i] > 0)
      <4>1. Places = {}
        BY <3>6
      <4>2. QED BY <4>1
    <3>7. QED BY <3>2, <3>3, <3>4, <3>5, <3>6
  <2>5. Cardinality(Places) <= 1
    <3>1. \A S : S = {} => Cardinality(S) = 0
      BY FS_EmptySet
    <3>2. \A p : Cardinality({p}) = 1
      BY FS_Singleton
    <3> HIDE DEF Places
    <3>3. Cardinality(Places) = 0 \/ Cardinality(Places) = 1
      <4>1. CASE Places = {}
        BY <3>1, <4>1
      <4>2. CASE \E p : Places = {p}
        BY <3>2, <4>2
      <4>3. QED BY <2>4, <4>1, <4>2
    <3>4. QED BY <3>3
  <2>6. Topic = "batch" /\ told[i] = "acked" /\ Kind(i) = "text" =>
          i \in batch.delta \cup batch.tick \cup lost \/ heard[i] > 0
    BY <2>1 DEF AckInv, Accounted
  <2>7. QED BY <2>3, <2>5, <2>6
<1>2. IInv => TriggersKept
  BY <1>1 DEF TriggersKept
<1>3. QED BY <1>2, Invariance, PTL
-----------------------------------------------------------------------------
(* The intake takes its inputs once.                                       *)

\* What InputOnce sees of a step.
OnceStep == [Once!Next]_(Once!vars)

Open == {i \in Known : taken[i] = 0 \/ ledger.pending = i}

ToldStates == {"unsent", "waiting", "acked", "refused", "timeout", "closed"}

\* A step that tells, remembers and takes nothing is nothing to InputOnce.
LEMMA SameToOnce ==
  ASSUME UNCHANGED <<scenario, told, taken>>, Known' = Known, Open' = Open PROVE OnceStep
BY DEF OnceStep, Once!vars, Open

\* The two modules count alike.
LEMMA SameCount == Once!Cardinality(Known) = Cardinality(Known)
BY Zenon DEF Once!Cardinality, Cardinality

\* An input that is remembered for the first time, or was only sent.
LEMMA AskToOnce ==
  ASSUME NEW i \in Inputs, i \notin Known,
         told \in [Inputs -> ToldStates],
         told' = told \/ (told[i] = "unsent" /\ told' = [told EXCEPT ![i] = "waiting"]),
         \/ Known' = Known \cup {i}
         \/ Cardinality(Known) >= Capacity /\ \E j \in Known : Known' = (Known \ {j}) \cup {i},
         Open' = (Open \cap Known') \cup {i},
         UNCHANGED <<scenario, taken>>
  PROVE  OnceStep
<1>1. Once!Admit(i)
  BY SameCount DEF Once!Admit
<1>2. \A j \in Inputs : (told'[j] \in {"unsent", "waiting"} <=> told[j] \in {"unsent", "waiting"})
                        /\ (told'[j] = "acked" <=> told[j] = "acked")
  BY DEF ToldStates
<1>3. Once!Ask(i)
  BY <1>1, <1>2 DEF Once!Ask, Open
<1>4. QED BY <1>3 DEF OnceStep, Once!Next

\* An input that is remembered and taken at once.
LEMMA AskAndTakeToOnce ==
  ASSUME NEW i \in Inputs, i \notin Known, Unsurpassed(i),
         \/ Known' = Known \cup {i}
         \/ Cardinality(Known) >= Capacity /\ \E j \in Known : Known' = (Known \ {j}) \cup {i},
         Open' = Open \cap Known', taken' = [taken EXCEPT ![i] = @ + 1],
         UNCHANGED <<scenario, told>>
  PROVE  OnceStep
<1>1. Once!Admit(i)
  BY SameCount DEF Once!Admit
<1>2. Once!Use(i)
  BY DEF Once!Use, Unsurpassed, Kind
<1>3. Once!AskAndTake(i)
  BY <1>1, <1>2 DEF Once!AskAndTake, Open
<1>4. QED BY <1>3 DEF OnceStep, Once!Next

\* Taking an input that was not taken since it was asked for, behind none
\* younger of its kind.
LEMMA TakeToOnce ==
  ASSUME NEW i \in Inputs, i \in Open, Unsurpassed(i), Known' = Known, Open' = Open \ {i},
         taken' = [taken EXCEPT ![i] = @ + 1],
         UNCHANGED <<scenario, told>>
  PROVE  OnceStep
<1>1. Once!Use(i)
  BY DEF Once!Use, Unsurpassed, Kind
<1>2. Once!Take(i)
  BY <1>1 DEF Once!Take, Open
<1>3. QED BY <1>2 DEF OnceStep, Once!Next

\* Forgetting an input that could not be taken.
LEMMA GiveUpToOnce ==
  ASSUME NEW i \in Inputs, i \in Open, Known' = Known \ {i}, Open' = Open \ {i},
         UNCHANGED <<scenario, told, taken>>
  PROVE  OnceStep
<1>1. Once!GiveUp(i)
  BY DEF Once!GiveUp, Open
<1>2. QED BY <1>1 DEF OnceStep, Once!Next

\* Calls of the desktop that fail.
LEMMA FailingToOnce ==
  ASSUME told \in [Inputs -> ToldStates], told' \in [Inputs -> ToldStates],
         \A i \in Inputs : \/ told'[i] = told[i]
                           \/ told[i] = "waiting" /\ told'[i] \in {"refused", "timeout", "closed"},
         UNCHANGED <<scenario, taken>>, Known' = Known, Open' = Open
  PROVE  OnceStep
<1>1. PICK F \in SUBSET Inputs :
         F = {i \in Inputs : told[i] = "waiting" /\ told'[i] \in {"refused", "timeout", "closed"}}
  OBVIOUS
<1>2. Once!Fail(F)
  BY <1>1 DEF Once!Fail, Open
<1>3. QED BY <1>2 DEF OnceStep, Once!Next

\* An acknowledgement of what was taken.
LEMMA AckToOnce ==
  ASSUME told \in [Inputs -> ToldStates],
         NEW i \in Inputs, told[i] = "waiting", told' = [told EXCEPT ![i] = "acked"],
         taken[i] > 0, UNCHANGED <<scenario, taken>>, Known' = Known, Open' = Open
  PROVE  OnceStep
<1>1. Once!Acknowledge(i)
  BY DEF Once!Acknowledge, Open
<1>2. QED BY <1>1 DEF OnceStep, Once!Next

-----------------------------------------------------------------------------
(* What is remembered.                                                     *)

\* A full ledger remembers as many inputs as it has entries.
LEMMA FullMemory ==
  ASSUME NEW l, Fine(l), Len(l.seen) = Capacity
  PROVE  Cardinality({i \in Inputs : Tracked(l, i)}) >= Capacity
<1>1. PICK n \in Nat : n = Capacity
  BY BoundAssumption
<1>2. /\ DOMAIN l.seen = 1..n /\ \A p \in 1..n : l.seen[p] \in Entries(l) /\ l.seen[p].id \in Inputs
      /\ \A p, q \in 1..n : l.seen[p].id = l.seen[q].id => p = q
      /\ \A e \in Entries(l) : \E p \in 1..n : l.seen[p] = e
  BY <1>1, EntriesTyped DEF Fine, EntryRec
<1>3. PICK S : S = {i \in Inputs : Tracked(l, i)}
  OBVIOUS
<1> DEFINE f == [p \in 1..n |-> l.seen[p].id]
<1>4. f \in [1..n -> S]
  BY <1>2, <1>3 DEF Tracked
<1>5. \A p, q \in 1..n : f[p] = f[q] => p = q
  BY <1>2
<1>6. \A i \in S : \E p \in 1..n : f[p] = i
  BY <1>2, <1>3 DEF Tracked
<1> HIDE DEF f
<1>7. f \in Bijection(1..n, S)
  BY <1>4, <1>5, <1>6 DEF Bijection, Injection, IsInjective, Surjection
<1>8. ExistsBijection(1..n, S)
  BY <1>7 DEF ExistsBijection
<1>9. Cardinality(S) = n
  BY <1>8, FS_CountingElements
<1>10. QED BY <1>1, <1>3, <1>9

\* Where inputs are sent again, what is known is what the ledger remembers.
LEMMA KnownHere ==
  ASSUME Topic = "network", scenario' = scenario
  PROVE  /\ \A i : i \in Known <=> i \in Inputs /\ Tracked(ledger, i)
         /\ \A i : i \in Known' <=> i \in Inputs /\ Tracked(ledger, i)'
BY DEF Known, Topic

\* Elsewhere it is what was sent, and what is open was not taken.
LEMMA KnownElsewhere ==
  ASSUME IInv, IInv', Topic # "network", scenario' = scenario
  PROVE  /\ \A i : i \in Known <=> i \in Inputs /\ tries[i] > 0
         /\ \A i : i \in Known' <=> i \in Inputs /\ tries'[i] > 0
         /\ Open = {i \in Known : taken[i] = 0}
         /\ Open' = {i \in Known' : taken'[i] = 0}
<1>1. Topic' # "network"
  BY DEF Topic
<1>2. \A i \in Inputs : ledger.pending = i => taken[i] = 0
  BY NoneAssumption, ConnAssumption DEF IInv, WorkInv, LedgerInv, Anew
<1>3. \A i \in Inputs : ledger'.pending = i => taken'[i] = 0
  BY <1>1, NoneAssumption, ConnAssumption DEF IInv, WorkInv, LedgerInv, Anew
<1>4. (\A i : i \in Known <=> i \in Inputs /\ tries[i] > 0)
      /\ \A i : i \in Known' <=> i \in Inputs /\ tries'[i] > 0
  BY <1>1 DEF Known
<1>5. QED BY <1>2, <1>3, <1>4 DEF Open

\* A step that neither adds an input nor drops one.
LEMMA Unmoved ==
  ASSUME IInv, IInv', UNCHANGED <<scenario, taken>>,
         \A i \in Inputs : tries'[i] > 0 <=> tries[i] > 0,
         Topic = "network" =>
            /\ \A i \in Inputs : Tracked(ledger, i)' <=> Tracked(ledger, i)
            /\ ledger'.pending = ledger.pending
  PROVE  Known' = Known /\ Open' = Open
<1>1. CASE Topic = "network"
  <2>1. Known' = Known
    BY <1>1, KnownHere
  <2>2. QED BY <1>1, <2>1 DEF Open
<1>2. CASE Topic # "network"
  <2>1. Known' = Known
    BY <1>2, KnownElsewhere
  <2>2. QED BY <1>2, <2>1, KnownElsewhere
<1>3. QED BY <1>1, <1>2

\* An answer leaves the ledger's inputs as they are.
LEMMA SettledMemory ==
  ASSUME NEW l, Fine(l), NEW i, NEW stages \in SUBSET Stages
  PROVE  /\ \A x : Tracked(Accept(l, i, stages), x) <=> Tracked(l, x)
         /\ Accept(l, i, stages).pending = l.pending
<1>1. PICK a : a = Accept(l, i, stages)
  OBVIOUS
<1>2. /\ a.pending = l.pending
      /\ \A x \in Entries(a) : x.id # i => x \in Entries(l)
      /\ \A x \in Entries(l) : x.id # i => x \in Entries(a)
      /\ \A x \in Entries(a) : x.id = i => \E o \in Entries(l) : o.id = i
      /\ \A o \in Entries(l) : o.id = i => \E x \in Entries(a) : x.id = i
  BY <1>1, AcceptFacts
<1>3. QED BY <1>1, <1>2 DEF Tracked

\* A new input is admitted, in the place of another one when the ledger is full.
LEMMA Admission ==
  ASSUME IInv, Topic = "network", NEW c \in Conns, NEW i \in Inputs, Reserved(c, i),
         ~Tracked(ledger, i), scenario' = scenario
  PROVE  /\ i \notin Known /\ i \in Known' /\ \A x \in Known' : x = i \/ x \in Known
         /\ \/ Known' = Known \cup {i}
            \/ Cardinality(Known) >= Capacity /\ \E j \in Known : Known' = (Known \ {j}) \cup {i}
<1>1. /\ \A x : x \in Known <=> x \in Inputs /\ Tracked(ledger, x)
      /\ \A x : x \in Known' <=> x \in Inputs /\ Tracked(ledger, x)'
  BY KnownHere
<1>2. Entry(i, Kind(i), c).id = i
  BY DEF Entry
<1>3. \A x : Tracked(ledger, x)' => Tracked(ledger, x) \/ x = i
  BY <1>2 DEF Reserved, Tracked
<1>4. Tracked(ledger, i)'
  BY <1>2 DEF Reserved, Tracked
<1>5. PICK d : \A x \in Entries(ledger) : x \in Entries(ledger)' \/ x.id = d
  BY DEF Reserved, OneDropped
<1>6. \A x : Tracked(ledger, x) /\ x # d => Tracked(ledger, x)'
  BY <1>5 DEF Tracked
<1>7. i \notin Known /\ i \in Known' /\ \A x \in Known' : x = i \/ x \in Known
  BY <1>1, <1>3, <1>4
<1>8. CASE \A x \in Known : x \in Known'
  <2>1. Known' = Known \cup {i}
    BY <1>7, <1>8
  <2>2. QED BY <1>7, <2>1
<1>9. CASE \E x \in Known : x \notin Known'
  <2>1. PICK x \in Known : x \notin Known'
    BY <1>9
  <2>2. x = d
    BY <1>1, <1>6, <2>1
  <2>3. Known' = (Known \ {x}) \cup {i}
    BY <1>1, <1>6, <1>7, <2>1, <2>2
  <2>4. Len(ledger.seen) = Capacity
    <3>1. PICK e \in Entries(ledger) : e.id = x
      BY <1>1, <2>1 DEF Tracked
    <3>2. e \notin Entries(ledger)'
      BY <1>1, <2>1, <3>1 DEF Tracked
    <3>3. QED BY <3>1, <3>2 DEF Reserved
  <2>5. Fine(ledger)
    BY DEF IInv, WorkInv, LedgerInv
  <2>6. Cardinality({j \in Inputs : Tracked(ledger, j)}) >= Capacity
    BY <2>4, <2>5, FullMemory
  <2>7. Known = {j \in Inputs : Tracked(ledger, j)}
    BY <1>1
  <2>8. Cardinality(Known) >= Capacity
    BY <2>6, <2>7
  <2>9. QED BY <1>7, <2>1, <2>3, <2>8
<1>10. QED BY <1>8, <1>9

-----------------------------------------------------------------------------
(* Step by step.                                                           *)

\* Sending an input asks for it, unless inputs may be sent again.
LEMMA SubmitToOnce == ASSUME IInv, IInv', NEW i \in Inputs, Submit(i) PROVE OnceStep
<1>1. /\ told \in [Inputs -> ToldStates] /\ told[i] = "unsent" /\ tries \in [Inputs -> 0..2]
      /\ told' = [told EXCEPT ![i] = "waiting"] /\ tries' = [tries EXCEPT ![i] = 1]
      /\ UNCHANGED <<scenario, taken, ledger>>
  BY DEF IInv, TypeOK, Submit, history, ToldStates
<1>2. tries[i] = 0 /\ taken[i] = 0 /\ ~Tracked(ledger, i)
  BY <1>1 DEF IInv, FlightInv, SentInv
<1>3. CASE Topic # "network"
  <2>1. i \notin Known /\ Known' = Known \cup {i}
    BY <1>1, <1>2, <1>3, KnownElsewhere
  <2>2. Open' = (Open \cap Known') \cup {i}
    BY <1>1, <1>2, <1>3, <2>1, KnownElsewhere
  <2>3. QED BY <1>1, <2>1, <2>2, AskToOnce
<1>4. CASE Topic = "network"
  <2>1. Known' = Known
    BY <1>1, <1>4, KnownHere
  <2>2. Open' = Open
    BY <1>1, <2>1 DEF Open
  <2>3. \A j \in Inputs : (told'[j] \in {"unsent", "waiting"} <=> told[j] \in {"unsent", "waiting"})
                          /\ (told'[j] = "acked" <=> told[j] = "acked")
    BY <1>1 DEF ToldStates
  <2>4. QED BY <1>1, <2>1, <2>2, <2>3 DEF OnceStep, Once!vars, Open
<1>5. QED BY <1>3, <1>4

\* What the desktop receives is an acknowledgement, a failure or nothing.
LEMMA ReceiveToOnce == ASSUME IInv, IInv', Receive PROVE OnceStep
<1>0. PICK c \in Conns : link = c
  BY DEF IInv, TypeOK, Receive
<1>1. TypeOK /\ AckInv /\ conn \in [Conns -> ConnRec] /\ told \in [Inputs -> ToldStates]
  BY DEF IInv, TypeOK, ToldStates
<1>2. conn[c].outbox # <<>> /\ UNCHANGED <<scenario, taken, tries, ledger>>
  BY <1>0 DEF Receive, history
<1>3. PICK m \in AnswerRec : m = Head(conn[c].outbox)
  BY <1>1, <1>2, HeadTaken
<1>4. PICK rest : rest = Tail(conn[c].outbox)
  OBVIOUS
<1>5. Known' = Known /\ Open' = Open
  BY <1>2, Unmoved DEF Tracked, Entries
<1>6. CASE m.type = "status"
  <2>1. told' = told
    BY <1>0, <1>3, <1>6 DEF Receive
  <2>2. QED BY <1>2, <1>5, <2>1, SameToOnce
<1>7. CASE m.type # "status"
  <2>0. PICK i \in Inputs : i = m.input
    BY <1>7 DEF AnswerRec
  <2>1. HearAnswer(m, rest)
    BY <1>0, <1>3, <1>4, <1>7 DEF Receive
  <2>2. CASE told' = told
    BY <1>2, <1>5, <2>2, SameToOnce
  <2>3. CASE /\ told[i] = "waiting" /\ m.type = "ack" /\ m.stage = Awaited(i)
             /\ TwoPhase(i) => i \in half
             /\ told' = [told EXCEPT ![i] = "acked"]
    <3>1. AckOK(m)
      BY <1>0, <1>1, <1>2, <1>3, HeadTaken DEF AckInv
    <3>2. Kind(i) = "audio" => m.stage = "committed"
      BY <2>3 DEF Awaited
    <3>3. taken[i] > 0
      BY <2>0, <2>3, <3>1, <3>2 DEF AckOK
    <3>4. QED BY <1>1, <1>2, <1>5, <2>3, <3>3, AckToOnce
  <2>4. CASE told[i] = "waiting" /\ told' = [told EXCEPT ![i] = "refused"]
    <3>1. told' \in [Inputs -> ToldStates]
      BY <1>1, <2>4 DEF ToldStates
    <3>2. \A j \in Inputs : \/ told'[j] = told[j]
                            \/ told[j] = "waiting" /\ told'[j] \in {"refused", "timeout", "closed"}
      BY <1>1, <2>4
    <3>3. QED BY <1>1, <1>2, <1>5, <3>1, <3>2, FailingToOnce
  <2>5. QED BY <2>0, <2>1, <2>2, <2>3, <2>4 DEF HearAnswer
<1>8. QED BY <1>6, <1>7

\* A call that times out has failed, or is sent again.
LEMMA TimeoutToOnce == ASSUME IInv, IInv', NEW i \in Inputs, AckTimeout(i) PROVE OnceStep
<1>1. told \in [Inputs -> ToldStates] /\ tries \in [Inputs -> 0..2]
  BY DEF IInv, TypeOK, ToldStates
<1>2. told[i] = "waiting" /\ UNCHANGED <<scenario, taken, ledger>>
      /\ (told' = told \/ told' = [told EXCEPT ![i] = "timeout"])
      /\ (tries' = tries \/ (tries[i] = 1 /\ tries' = [tries EXCEPT ![i] = 2]))
  BY DEF AckTimeout, history
<1>3. \A j \in Inputs : tries'[j] > 0 <=> tries[j] > 0
  BY <1>1, <1>2
<1>4. Known' = Known /\ Open' = Open
  BY <1>2, <1>3, Unmoved DEF Tracked, Entries
<1>5. CASE told' = told
  BY <1>2, <1>4, <1>5, SameToOnce
<1>6. CASE told' = [told EXCEPT ![i] = "timeout"]
  <2>1. told' \in [Inputs -> ToldStates]
    BY <1>1, <1>6 DEF ToldStates
  <2>2. \A j \in Inputs : \/ told'[j] = told[j]
                          \/ told[j] = "waiting" /\ told'[j] \in {"refused", "timeout", "closed"}
    BY <1>1, <1>2, <1>6
  <2>3. QED BY <1>1, <1>2, <1>4, <2>1, <2>2, FailingToOnce
<1>7. QED BY <1>2, <1>5, <1>6

\* The calls under way fail when the connection is lost.
LEMMA LossToOnce == ASSUME IInv, IInv', Drop \/ Crash PROVE OnceStep
<1>1. told \in [Inputs -> ToldStates]
  BY DEF IInv, TypeOK, ToldStates
<1>2. told' = Unanswered(told) /\ UNCHANGED <<scenario, taken, tries>>
  BY DEF Drop, Crash, history
<1>3. Topic = "network" => ledger' = ledger
  BY DEF Drop, Crash
<1>4. Known' = Known /\ Open' = Open
  BY <1>2, <1>3, Unmoved DEF Tracked, Entries
<1>5. told' \in [Inputs -> ToldStates]
  BY <1>1, <1>2 DEF Unanswered, ToldStates
<1>6. \A j \in Inputs : \/ told'[j] = told[j]
                        \/ told[j] = "waiting" /\ told'[j] \in {"refused", "timeout", "closed"}
  BY <1>1, <1>2 DEF Unanswered
<1>7. QED BY <1>1, <1>2, <1>4, <1>5, <1>6, FailingToOnce

\* The message at hand reserves an entry when its service begins.
LEMMA ServedAnew ==
  ASSUME IInv, NEW c \in Conns, ServeText(c) \/ ServeFrame(c) \/ ServeAudio(c)
  PROVE  \E i \in Inputs :
           /\ i = Incoming(c).input /\ Reserved(c, i) /\ Stranger(c, i)
           /\ ServeText(c) => Kind(i) = "text" /\ taken' = taken
           /\ ServeAudio(c) => Kind(i) = "audio" /\ taken' = taken
           /\ ServeFrame(c) => Kind(i) = "frame" /\ taken' = [taken EXCEPT ![i] = @ + 1]
           /\ UNCHANGED <<scenario, told, tries>>
<1>1. conn \in [Conns -> ConnRec] /\ AtHand(c)
  BY DEF IInv, TypeOK, ServeText, ServeFrame, ServeAudio
<1>2. PICK x \in MessageRec : x = Incoming(c)
  BY <1>1, AtHandFacts
<1>3. PICK i \in Inputs : i = x.input
  BY DEF MessageRec
<1>4. Fresh(c, x) /\ ledger' = Reserve(ledger, i, Kind(i), c) /\ ~CommitOnly(x)
      /\ UNCHANGED <<scenario, told, tries>>
  BY <1>2, <1>3 DEF ServeText, ServeFrame, ServeAudio, client, CommitOnly, TwoPhase
<1>5. Reserved(c, i) /\ Stranger(c, i)
  BY <1>1, <1>2, <1>3, <1>4, FreshFacts
<1>6. /\ ServeText(c) => Kind(i) = "text" /\ taken' = taken
      /\ ServeAudio(c) => Kind(i) = "audio" /\ taken' = taken
      /\ ServeFrame(c) => Kind(i) = "frame" /\ taken' = [taken EXCEPT ![i] = @ + 1]
  BY <1>2, <1>3 DEF ServeText, ServeFrame, ServeAudio, history
<1>7. QED BY <1>2, <1>3, <1>4, <1>5, <1>6

\* A text or a segment is asked for when its service begins, where inputs may
\* be sent again; a frame is taken as well.
LEMMA ServeToOnce ==
  ASSUME IInv, IInv', NEW c \in Conns, ServeText(c) \/ ServeFrame(c) \/ ServeAudio(c)
  PROVE  OnceStep
<1>1. PICK i \in Inputs :
           /\ Reserved(c, i) /\ Stranger(c, i)
           /\ ServeText(c) => Kind(i) = "text" /\ taken' = taken
           /\ ServeAudio(c) => Kind(i) = "audio" /\ taken' = taken
           /\ ServeFrame(c) => Kind(i) = "frame" /\ taken' = [taken EXCEPT ![i] = @ + 1]
           /\ UNCHANGED <<scenario, told, tries>>
  BY ServedAnew
<1>2. /\ tries[i] > 0 /\ Anew(i) /\ (Kind(i) = "text" => taken[i] = 0) /\ ~Tracked(ledger, i)
      /\ Unsurpassed(i) /\ taken \in [Inputs -> Nat] /\ told \in [Inputs -> ToldStates]
      /\ ledger'.pending = IF Kind(i) = "audio" THEN i ELSE ledger.pending
      /\ Kind(i) = "audio" => ledger.pending = None
      /\ \A x \in Inputs : x # None
  BY <1>1, NoneAssumption, ConnAssumption DEF Stranger, Reserved, IInv, TypeOK, ToldStates
<1>3. ledger.pending # None => Kind(ledger.pending) = "audio"
  BY DEF IInv, WorkInv, LedgerInv
<1>4. CASE Topic # "network"
  <2>1. Known' = Known /\ i \in Known /\ taken[i] = 0
    BY <1>1, <1>2, <1>4, KnownElsewhere DEF Anew
  <2>2. CASE taken' = taken
    <3>1. Open' = Open
      BY <1>1, <1>4, <2>1, <2>2, KnownElsewhere
    <3>2. QED BY <1>1, <2>1, <2>2, <3>1, SameToOnce
  <2>3. CASE taken' = [taken EXCEPT ![i] = @ + 1]
    <3>1. taken'[i] # 0 /\ \A x \in Inputs : x # i => taken'[x] = taken[x]
      BY <1>2, <2>3
    <3>2. i \in Open /\ Open' = Open \ {i}
      <4>1. Known \subseteq Inputs
        BY DEF Known
      <4>2. QED BY <1>1, <1>4, <2>1, <3>1, <4>1, KnownElsewhere
    <3>3. QED BY <1>1, <1>2, <2>1, <2>3, <3>2, TakeToOnce
  <2>4. QED BY <1>1, <2>2, <2>3
<1>5. CASE Topic = "network"
  <2>1. /\ i \notin Known /\ i \in Known' /\ \A x \in Known' : x = i \/ x \in Known
        /\ \/ Known' = Known \cup {i}
           \/ Cardinality(Known) >= Capacity /\ \E j \in Known : Known' = (Known \ {j}) \cup {i}
    BY <1>1, <1>2, <1>5, Admission
  <2>2. Known' \subseteq Inputs
    BY DEF Known
  <2>3. \A x \in Known' : x # i => (ledger'.pending = x <=> ledger.pending = x)
    BY <1>2, <2>2
  <2>4. CASE taken' = taken /\ (Kind(i) = "text" \/ Kind(i) = "audio")
    <3>1. taken'[i] = 0 \/ ledger'.pending = i
      BY <1>2, <2>4
    <3>2. Open' = (Open \cap Known') \cup {i}
      BY <2>1, <2>3, <2>4, <3>1 DEF Open
    <3>3. QED BY <1>1, <1>2, <2>1, <2>4, <3>2, AskToOnce
  <2>5. CASE taken' = [taken EXCEPT ![i] = @ + 1] /\ Kind(i) = "frame"
    <3>1. taken'[i] # 0 /\ \A x \in Inputs : x # i => taken'[x] = taken[x]
      BY <1>2, <2>5
    <3>2. ledger'.pending # i
      BY <1>2, <1>3, <2>5
    <3>3. Open' = Open \cap Known'
      BY <2>1, <2>2, <2>3, <3>1, <3>2 DEF Open
    <3>4. QED BY <1>1, <1>2, <2>1, <2>5, <3>3, AskAndTakeToOnce
  <2>6. QED BY <1>1, <2>4, <2>5
<1>6. QED BY <1>4, <1>5

\* What a handler serves is remembered where inputs are sent again.
LEMMA ServedIsKnown ==
  ASSUME IInv, NEW c \in Conns, ~Job(c, "idle"), Input(c) \in Inputs
  PROVE  /\ Input(c) \in Known
         /\ Topic = "network" =>
              /\ Tracked(ledger, Input(c))
              /\ Kind(Input(c)) = "audio" => ledger.pending = Input(c)
<1>1. JobOK(c) /\ SentInv /\ TopicInv /\ tries \in [Inputs -> 0..2]
  BY DEF IInv, WorkInv, JobInv, FlightInv, TypeOK
<1>2. CASE Topic = "network"
  <2>1. Kept(c)
    BY <1>1, <1>2 DEF TopicInv, JobOK, Live
  <2>2. QED BY <1>2, <2>1 DEF Kept, Tracked, Known
<1>3. CASE Topic # "network"
  <2>1. Serving(Input(c))
    BY DEF Serving
  <2>2. tries[Input(c)] # 0
    BY <1>1, <2>1 DEF SentInv
  <2>3. tries[Input(c)] > 0
    BY <1>1, <2>2
  <2>4. QED BY <1>3, <2>3 DEF Known
<1>4. QED BY <1>2, <1>3

\* A segment is taken at its commit.
LEMMA CommitToOnce == ASSUME IInv, IInv', NEW c \in Conns, Commit(c) PROVE OnceStep
<1>1. JobInv /\ taken \in [Inputs -> Nat] /\ Job(c, "commit") /\ Fine(ledger)
  BY DEF IInv, WorkInv, LedgerInv, TypeOK, Commit
<1>2. PICK i \in Inputs : i = Input(c)
  BY <1>1, JobFacts
<1>3. FirstTime(i) /\ Unsurpassed(i) /\ Kind(i) = "audio" /\ ~Job(c, "idle")
  BY <1>1, <1>2, JobFacts DEF JobInv, JobOK
<1>4. taken' = [taken EXCEPT ![i] = @ + 1] /\ UNCHANGED <<scenario, told, tries>>
      /\ ledger' = Accept(Release(ledger, i), i, {"committed"})
  BY <1>2 DEF Commit, client
<1>5. taken'[i] # 0 /\ \A x \in Inputs : x # i => taken'[x] = taken[x]
  BY <1>1, <1>4
<1>6. PICK r : /\ r = Release(ledger, i) /\ Fine(r) /\ Entries(r) = Entries(ledger)
               /\ r.pending = IF ledger.pending = i THEN None ELSE ledger.pending
  BY <1>1, LedgerFacts
<1>7. (\A x : Tracked(ledger', x) <=> Tracked(r, x)) /\ ledger'.pending = r.pending
  BY <1>4, <1>6, SettledMemory DEF Stages
<1>8. \A x : Tracked(ledger, x)' <=> Tracked(ledger, x)
  BY <1>6, <1>7 DEF Tracked, Entries
<1>9. ledger'.pending # i /\ \A x \in Inputs : x # i => (ledger'.pending = x <=> ledger.pending = x)
  BY <1>6, <1>7, NoneAssumption, ConnAssumption
<1>10. i \in Known /\ (Topic = "network" => ledger.pending = i)
  BY <1>2, <1>3, ServedIsKnown
<1>11. Known \subseteq Inputs
  BY DEF Known
<1>12. Known' = Known
  <2>1. CASE Topic = "network"
    BY <1>4, <1>8, <2>1, KnownHere
  <2>2. CASE Topic # "network"
    BY <1>4, <2>2, KnownElsewhere
  <2>3. QED BY <2>1, <2>2
<1>13. i \in Open
  BY <1>3, <1>10 DEF FirstTime, Open
<1>14. Open' = Open \ {i}
  BY <1>5, <1>9, <1>11, <1>12 DEF Open
<1>15. QED BY <1>3, <1>4, <1>12, <1>13, <1>14, TakeToOnce

\* A text is taken when its row is written.
LEMMA PersistToOnce == ASSUME IInv, IInv', NEW c \in Conns, PersistText(c) PROVE OnceStep
<1>1. /\ JobInv /\ TypeOK /\ RoomsInv /\ LedgerInv /\ taken \in [Inputs -> Nat]
      /\ Job(c, "line") /\ Persist(c)
  BY DEF IInv, WorkInv, TypeOK, PersistText
<1>2. PICK i \in Inputs : i = Input(c) /\ ~Job(c, "idle")
  BY <1>1, JobFacts
<1>3. taken[i] = 0
  <2>1. line # <<>> /\ Head(line).writer = c /\ ~Head(line).written
    BY <1>1 DEF Persist
  <2>2. QED BY <1>1, <1>2, <2>1, HeadOfLine
<1>4. Unsurpassed(i) /\ Kind(i) = "text"
  BY <1>1, <1>2, <1>3 DEF JobInv, JobOK
<1>5. taken' = [taken EXCEPT ![i] = @ + 1] /\ UNCHANGED <<scenario, told, tries, ledger>>
  BY <1>2 DEF PersistText, client
<1>6. taken'[i] # 0 /\ \A x \in Inputs : x # i => taken'[x] = taken[x]
  BY <1>1, <1>5
<1>7. ledger.pending # i
  BY <1>1, <1>4, NoneAssumption, ConnAssumption DEF LedgerInv
<1>8. i \in Known /\ Known \subseteq Inputs
  BY <1>2, ServedIsKnown DEF Known
<1>9. Known' = Known
  BY <1>5 DEF Known, Topic, Tracked, Entries
<1>10. i \in Open /\ Open' = Open \ {i}
  BY <1>3, <1>5, <1>6, <1>7, <1>8, <1>9 DEF Open
<1>11. QED BY <1>4, <1>5, <1>9, <1>10, TakeToOnce

\* An input that is forgotten was open; only where inputs are sent again it is
\* noticed.
LEMMA ForgetToOnce ==
  ASSUME IInv, IInv', NEW i \in Inputs, i \in Known,
         taken[i] = 0 \/ ledger.pending = i,
         \A x \in Inputs : Tracked(ledger, x)' <=> Tracked(ledger, x) /\ x # i,
         \A x \in Inputs : x # i => (ledger'.pending = x <=> ledger.pending = x),
         UNCHANGED <<scenario, told, tries, taken>>
  PROVE  OnceStep
<1>1. CASE Topic = "network"
  <2>1. Known' = Known \ {i}
    BY <1>1, KnownHere
  <2>2. Known \subseteq Inputs
    BY DEF Known
  <2>3. i \in Open /\ Open' = Open \ {i}
    BY <2>1, <2>2 DEF Open
  <2>4. QED BY <2>1, <2>3, GiveUpToOnce
<1>2. CASE Topic # "network"
  <2>1. Known' = Known /\ Open' = Open
    BY <1>2, Unmoved
  <2>2. QED BY <2>1, SameToOnce
<1>3. QED BY <1>1, <1>2

\* A segment that failed is given up.
LEMMA AudioFailsToOnce == ASSUME IInv, IInv', NEW c \in Conns, AudioFails(c) PROVE OnceStep
<1>1. JobInv /\ (Job(c, "push") \/ Job(c, "commit")) /\ Fine(ledger)
  BY DEF IInv, WorkInv, LedgerInv, AudioFails
<1>2. PICK i \in Inputs : i = Input(c) /\ ~Job(c, "idle")
  BY <1>1, JobFacts
<1>3. FirstTime(i) /\ Kind(i) = "audio"
  BY <1>1, <1>2 DEF JobInv, JobOK
<1>4. UNCHANGED <<scenario, told, tries, taken>> /\ ledger' = Forget(Release(ledger, i), i)
  BY <1>2 DEF AudioFails, client, history
<1>5. PICK r : /\ r = Release(ledger, i) /\ Fine(r) /\ Entries(r) = Entries(ledger)
               /\ r.pending = IF ledger.pending = i THEN None ELSE ledger.pending
  BY <1>1, LedgerFacts
<1>6. Entries(Forget(r, i)) = {e \in Entries(r) : e.id # i} /\ Forget(r, i).pending = r.pending
  BY <1>5, ForgetFacts
<1>7. \A x \in Inputs : Tracked(ledger, x)' <=> Tracked(ledger, x) /\ x # i
  BY <1>4, <1>5, <1>6 DEF Tracked, Entries
<1>8. \A x \in Inputs : x # i => (ledger'.pending = x <=> ledger.pending = x)
  BY <1>4, <1>5, <1>6, NoneAssumption, ConnAssumption
<1>9. i \in Known /\ (taken[i] = 0 \/ ledger.pending = i)
  BY <1>2, <1>3, ServedIsKnown DEF FirstTime
<1>10. QED BY <1>4, <1>7, <1>8, <1>9, ForgetToOnce

\* So is a text whose write failed.
LEMMA TextFailsToOnce == ASSUME IInv, IInv', NEW c \in Conns, TextFails(c) PROVE OnceStep
<1>1. TypeOK /\ RoomsInv /\ Job(c, "line") /\ Fine(ledger) /\ GiveUp(c)
  BY DEF IInv, WorkInv, LedgerInv, TextFails
<1>2. PICK i \in Inputs : i = Input(c) /\ ~Job(c, "idle")
  BY <1>1, JobFacts
<1>3. taken[i] = 0
  <2>1. line # <<>> /\ Head(line).writer = c /\ ~Head(line).written
    BY <1>1 DEF GiveUp
  <2>2. QED BY <1>1, <1>2, <2>1, HeadOfLine
<1>4. UNCHANGED <<scenario, told, tries, taken>> /\ ledger' = Forget(ledger, i)
  BY <1>2 DEF TextFails, client, history
<1>5. Entries(Forget(ledger, i)) = {e \in Entries(ledger) : e.id # i}
      /\ Forget(ledger, i).pending = ledger.pending
  BY <1>1, ForgetFacts
<1>6. \A x \in Inputs : Tracked(ledger, x)' <=> Tracked(ledger, x) /\ x # i
  BY <1>4, <1>5 DEF Tracked, Entries
<1>7. i \in Known
  BY <1>2, ServedIsKnown
<1>8. QED BY <1>3, <1>4, <1>5, <1>6, <1>7, ForgetToOnce

\* And the segment that waited for its commit on a connection that ends.
LEMMA HangupToOnce == ASSUME IInv, IInv', NEW c \in Conns, Hangup(c) PROVE OnceStep
<1>1. UNCHANGED <<scenario, told, tries, taken>> /\ ledger' = ClearConnection(ledger, c)
  BY DEF Hangup, client, history
<1>2. Fine(ledger) /\ ledger \in LedgerRec /\ TopicInv /\ SentInv /\ tries \in [Inputs -> 0..2]
      /\ LedgerInv
  BY DEF IInv, WorkInv, LedgerInv, TypeOK, FlightInv
<1>3. PICK r : r = ClearConnection(ledger, c)
  OBVIOUS
<1>4. \/ r = ledger /\ ~(ledger.pending # None /\ SentOver(ledger, ledger.pending, c))
      \/ /\ ledger.pending # None /\ SentOver(ledger, ledger.pending, c)
         /\ r.pending = None /\ Entries(r) = {e \in Entries(ledger) : e.id # ledger.pending}
  BY <1>2, <1>3, ClearFacts
<1>5. CASE r = ledger
  <2>1. Known' = Known /\ Open' = Open
    BY <1>1, <1>3, <1>5, Unmoved DEF Tracked, Entries
  <2>2. QED BY <1>1, <2>1, SameToOnce
<1>6. CASE /\ ledger.pending # None /\ SentOver(ledger, ledger.pending, c)
           /\ r.pending = None /\ Entries(r) = {e \in Entries(ledger) : e.id # ledger.pending}
  <2>1. PICK i \in Inputs : i = ledger.pending
    BY <1>2, <1>6 DEF LedgerRec
  <2>2. Tracked(ledger, i)
    BY <1>6, <2>1 DEF SentOver, Tracked
  <2>3. tries[i] # 0
    BY <1>2, <2>2 DEF SentInv
  <2>4. i \in Known
    BY <1>2, <2>2, <2>3 DEF Known
  <2>5. \A x \in Inputs : Tracked(ledger, x)' <=> Tracked(ledger, x) /\ x # i
    BY <1>1, <1>3, <1>6, <2>1 DEF Tracked, Entries
  <2>6. \A x \in Inputs : x # i => (ledger'.pending = x <=> ledger.pending = x)
    BY <1>1, <1>3, <1>6, <2>1, NoneAssumption, ConnAssumption
  <2>7. QED BY <1>1, <2>1, <2>4, <2>5, <2>6, ForgetToOnce
<1>7. QED BY <1>4, <1>5, <1>6

\* What a handler answers changes nothing that is remembered.
LEMMA AnswerToOnce ==
  ASSUME IInv, IInv', NEW c \in Conns,
         ServeAgain(c) \/ Observe(c) \/ ObserveFails(c) \/ Push(c)
  PROVE  OnceStep
<1>1. UNCHANGED <<scenario, told, tries, taken>> /\ Fine(ledger)
  BY DEF ServeAgain, Observe, ObserveFails, Push, client, history, IInv, WorkInv, LedgerInv
<1>2. /\ \A x \in Inputs : Tracked(ledger, x)' <=> Tracked(ledger, x)
      /\ ledger'.pending = ledger.pending
  <2>1. CASE ServeAgain(c)
    <3>1. PICK i : i = Incoming(c).input
      OBVIOUS
    <3>2. Tracked(ledger, i) /\ (ledger' = ledger \/ ledger' = Touch(ledger, i))
      BY <2>1, <3>1 DEF ServeAgain, HasReceipt
    <3>3. CASE ledger' = ledger
      BY <3>3 DEF Tracked, Entries
    <3>4. CASE ledger' = Touch(ledger, i)
      <4>1. Entries(Touch(ledger, i)) = Entries(ledger) /\ Touch(ledger, i).pending = ledger.pending
        BY <1>1, <3>2, TouchFacts
      <4>2. QED BY <3>4, <4>1 DEF Tracked, Entries
    <3>5. QED BY <3>2, <3>3, <3>4
  <2>2. CASE Observe(c) \/ ObserveFails(c) \/ Push(c)
    <3>1. PICK i : i = Input(c)
      OBVIOUS
    <3>2. ledger' = ledger \/ ledger' = Accept(ledger, i, {"received"})
      BY <2>2, <3>1 DEF Observe, ObserveFails, Push
    <3>3. (\A x : Tracked(Accept(ledger, i, {"received"}), x) <=> Tracked(ledger, x))
          /\ Accept(ledger, i, {"received"}).pending = ledger.pending
      BY <1>1, SettledMemory DEF Stages
    <3>4. CASE ledger' = ledger
      BY <3>4 DEF Tracked, Entries
    <3>5. CASE ledger' = Accept(ledger, i, {"received"})
      BY <3>3, <3>5 DEF Tracked, Entries
    <3>6. QED BY <3>2, <3>4, <3>5
  <2>3. QED BY <2>1, <2>2
<1>3. Known' = Known /\ Open' = Open
  BY <1>1, <1>2, Unmoved
<1>4. QED BY <1>1, <1>3, SameToOnce

\* A step that leaves the ledger and the desktop's calls alone, or ends a
\* session, where nothing is sent again.
LEMMA IdleToOnce ==
  ASSUME IInv, IInv', UNCHANGED <<scenario, told, tries, taken>>,
         Topic = "network" => ledger' = ledger
  PROVE  OnceStep
<1>1. Known' = Known /\ Open' = Open
  BY Unmoved DEF Tracked, Entries
<1>2. QED BY <1>1, SameToOnce

\* The steps of a handler.
LEMMA HandlerToOnce == ASSUME IInv, IInv', NEW c \in Conns, Handler(c) PROVE OnceStep
<1>1. CASE ServeText(c) \/ ServeFrame(c) \/ ServeAudio(c)
  BY <1>1, ServeToOnce
<1>2. CASE Commit(c) \/ PersistText(c)
  BY <1>2, CommitToOnce, PersistToOnce
<1>3. CASE AudioFails(c) \/ TextFails(c) \/ Hangup(c)
  BY <1>3, AudioFailsToOnce, TextFailsToOnce, HangupToOnce
<1>4. CASE ServeAgain(c) \/ Observe(c) \/ ObserveFails(c) \/ Push(c)
  BY <1>4, AnswerToOnce
<1>5. CASE \/ Subscribe(c) \/ Welcome(c) \/ ForwardStatus(c) \/ ServeRefused(c)
           \/ ServeCommit(c) \/ ShowText(c)
  <2>1. UNCHANGED <<scenario, told, tries, taken, ledger>>
    BY <1>5 DEF Subscribe, Welcome, ForwardStatus, ServeRefused, ServeCommit, ShowText,
       client, history
  <2>2. QED BY <2>1, IdleToOnce
<1>6. QED BY <1>1, <1>2, <1>3, <1>4, <1>5 DEF Handler

\* Every step is one of InputOnce or nothing to it.
LEMMA NextToOnce == IInv /\ IInv' /\ [Next]_vars => OnceStep
<1>1. SUFFICES ASSUME IInv, IInv', [Next]_vars PROVE OnceStep
  OBVIOUS
<1>2. CASE Timer
  <2>1. UNCHANGED <<scenario, told, tries, taken, ledger>>
    BY <1>2 DEF Timer, TakeTick, SubmitTick, TickFails, DiscardBatch, client, history
  <2>2. QED BY <1>1, <2>1, IdleToOnce
<1>3. CASE Desktop
  <2>1. CASE Dial
    <3>1. UNCHANGED <<scenario, told, tries, taken, ledger>>
      BY <2>1 DEF Dial, history
    <3>2. QED BY <1>1, <3>1, IdleToOnce
  <2>2. CASE Receive
    BY <1>1, <2>2, ReceiveToOnce
  <2>3. ASSUME NEW i \in Inputs, Submit(i) PROVE OnceStep
    BY <1>1, <2>3, SubmitToOnce
  <2>4. ASSUME NEW i \in Inputs, AckTimeout(i) PROVE OnceStep
    BY <1>1, <2>4, TimeoutToOnce
  <2>5. QED BY <1>3, <2>1, <2>2, <2>3, <2>4 DEF Desktop
<1>4. CASE Environment
  <2>1. CASE Drop \/ Crash
    BY <1>1, <2>1, LossToOnce
  <2>2. CASE \/ ViewerSpeaks \/ ViewerWrites \/ PublishStatus \/ SwitchMode
             \/ BeginStop \/ StopIngest \/ EndRoom \/ Recover
    <3>1. UNCHANGED <<scenario, told, tries, taken>>
      BY <2>2 DEF ViewerSpeaks, ViewerWrites, PublishStatus, SwitchMode, BeginStop, StopIngest,
         EndRoom, Recover, client, history
    <3>2. Topic = "network" => session = "running"
      BY <1>1 DEF IInv, FlightInv, TopicInv
    <3>3. Topic = "network" => ledger' = ledger
      BY <2>2, <3>2 DEF ViewerSpeaks, ViewerWrites, PublishStatus, SwitchMode, BeginStop,
         StopIngest, EndRoom, Recover, Phase
    <3>4. QED BY <1>1, <3>1, <3>3, IdleToOnce
  <2>3. QED BY <1>4, <2>1, <2>2 DEF Environment
<1>5. CASE \E c \in Conns : Handler(c)
  BY <1>1, <1>5, HandlerToOnce
<1>6. CASE UNCHANGED vars
  BY <1>1, <1>6, IdleToOnce DEF vars
<1>7. QED BY <1>1, <1>2, <1>3, <1>4, <1>5, <1>6 DEF Next

\* Whatever is resent, lost, fails half way or crashes, the inputs are taken
\* in order, an acknowledged input was taken, and none is taken again while it
\* is remembered, which ends for a taken one only when the ledger is full: the
\* intake implements InputOnce (InputsTakenOnce).
THEOREM IntakeImplementsOnce == Spec => InputsTakenOnce
<1>1. Init => Once!Init
  <2> SUFFICES ASSUME Init PROVE Once!Init
    OBVIOUS
  <2>2. PICK s \in Scenarios : scenario = s
    BY DEF Init
  <2>3. s \in [topic : {"network", "process", "batch", "feed"}, version : Nat,
                count : Nat, kind : [Inputs -> Kinds]]
    BY ScenarioAssumption
  <2>4. s.kind \in [Inputs -> Kinds]
    BY ONLY <2>3
  <2>5. /\ told = [i \in Inputs |-> "unsent"] /\ taken = [i \in Inputs |-> 0]
        /\ tries = [i \in Inputs |-> 0] /\ ledger = EmptyLedger
    BY DEF Init
  <2>6. scenario.kind \in [Inputs -> Kinds]
    BY <2>2, <2>4
  <2>7. Known = {}
    <3>1. Entries(EmptyLedger) = {}
      BY EmptyLedgerFacts
    <3>2. \A i \in Inputs : ~Tracked(ledger, i) /\ ~(tries[i] > 0)
      BY <2>5, <3>1 DEF Tracked
    <3>3. QED BY <3>2 DEF Known
  <2>8. QED BY <2>5, <2>6, <2>7 DEF Once!Init
<1>2. IInv /\ IInv' /\ [Next]_vars => [Once!Next]_(Once!vars)
  BY NextToOnce DEF OnceStep
<1>3. QED BY <1>1, <1>2, Invariance, PTL DEF Spec, InputsTakenOnce, Once!Spec

-----------------------------------------------------------------------------
(* The desktop's view of the status.                                       *)

\* The statuses on their way to a desktop come in their order, none is older
\* than what the desktop shows nor newer than the last one sent, and none is
\* on its way over a connection that is not open.
FeedOK(c) ==
    /\ conn[c].sent <= status
    /\ \A p \in DOMAIN conn[c].queue : conn[c].queue[p] <= status
    /\ \A p \in DOMAIN conn[c].outbox : conn[c].outbox[p].type = "status" =>
         /\ conn[c].state = "open"
         /\ conn[c].outbox[p].revision <= conn[c].sent
         /\ link = c => view <= conn[c].outbox[p].revision
         /\ \A q \in DOMAIN conn[c].outbox : p < q /\ conn[c].outbox[q].type = "status" =>
              conn[c].outbox[p].revision <= conn[c].outbox[q].revision
    /\ link = c /\ conn[c].state = "open" => view <= conn[c].sent

FeedInv == view <= status /\ \A c \in Conns : FeedOK(c)

\* What most steps do to a connection: they say nothing of the status, or the
\* connection is not open and nothing new is on its way.
Hushed(c) ==
    \/ /\ conn'[c].state = conn[c].state /\ conn'[c].queue = conn[c].queue
       /\ conn'[c].sent = conn[c].sent
       /\ \/ conn'[c].outbox = conn[c].outbox
          \/ \E m \in AnswerRec :
               m.type # "status" /\ conn'[c].outbox = Append(conn[c].outbox, m)
    \/ /\ conn'[c].state # "open"
       /\ conn'[c].queue \in {conn[c].queue, <<>>} /\ conn'[c].sent \in {conn[c].sent, 0}
       /\ \/ conn'[c].outbox = <<>>
          \/ conn[c].state # "open" /\ conn'[c].outbox = conn[c].outbox

\* The members of a sequence are of its set.
LEMMA MembersTyped ==
  ASSUME NEW S, NEW s \in Seq(S) PROVE \A p \in DOMAIN s : s[p] \in S
OBVIOUS

\* The first of a sequence, and the rest of it.
LEMMA FirstAndRest ==
  ASSUME NEW S, NEW s \in Seq(S), s # <<>>
  PROVE  /\ Head(s) \in S /\ Head(s) = s[1] /\ 1 \in DOMAIN s /\ Tail(s) \in Seq(S)
         /\ \A p \in DOMAIN Tail(s) :
              p \in Nat /\ p >= 1 /\ p + 1 \in DOMAIN s /\ Tail(s)[p] = s[p + 1]
OBVIOUS

\* The numbers of the feed.
LEMMA FeedTyped ==
  ASSUME IInv
  PROVE  /\ view \in Nat /\ status \in Nat /\ conn \in [Conns -> ConnRec]
         /\ \A c \in Conns :
              /\ conn[c].sent \in Nat
              /\ conn[c].outbox \in Seq(AnswerRec) /\ conn[c].queue \in Seq(0..MaxStatus)
              /\ \A p \in DOMAIN conn[c].queue : conn[c].queue[p] \in Nat
              /\ \A p \in DOMAIN conn[c].outbox :
                   conn[c].outbox[p].type = "status" => conn[c].outbox[p].revision \in Nat
<1>1. /\ view \in 0..MaxStatus /\ status \in 0..MaxStatus /\ conn \in [Conns -> ConnRec]
      /\ MaxStatus \in Nat
  BY BoundAssumption DEF IInv, TypeOK
<1>2. ASSUME NEW c \in Conns
      PROVE  /\ conn[c].sent \in Nat
             /\ conn[c].outbox \in Seq(AnswerRec) /\ conn[c].queue \in Seq(0..MaxStatus)
             /\ \A p \in DOMAIN conn[c].queue : conn[c].queue[p] \in Nat
             /\ \A p \in DOMAIN conn[c].outbox :
                  conn[c].outbox[p].type = "status" => conn[c].outbox[p].revision \in Nat
  <2>1. /\ conn[c].sent \in 0..MaxStatus /\ conn[c].outbox \in Seq(AnswerRec)
        /\ conn[c].queue \in Seq(0..MaxStatus)
    BY <1>1, ConnTyped
  <2>2. \A p \in DOMAIN conn[c].queue : conn[c].queue[p] \in 0..MaxStatus
    BY <2>1, MembersTyped
  <2>3. \A p \in DOMAIN conn[c].outbox : conn[c].outbox[p] \in AnswerRec
    BY <2>1, MembersTyped
  <2>4. \A m \in AnswerRec : m.type = "status" => m.revision \in Nat
    BY <1>1 DEF AnswerRec
  <2>5. \A n \in 0..MaxStatus : n \in Nat
    BY <1>1
  <2>6. QED BY <2>1, <2>2, <2>3, <2>4, <2>5
<1>3. view \in Nat /\ status \in Nat
  BY <1>1
<1>4. QED BY <1>1, <1>2, <1>3

\* A connection about which nothing is said keeps its feed in order.
LEMMA HushedOne ==
  ASSUME IInv, FeedInv, NEW c \in Conns, Hushed(c), view' = view, status' = status,
         link' = c => link = c \/ conn'[c].state # "open"
  PROVE  FeedOK(c)'
<1>1. /\ view \in Nat /\ status \in Nat /\ conn[c].sent \in Nat
      /\ conn[c].outbox \in Seq(AnswerRec) /\ FeedOK(c)
  BY FeedTyped DEF FeedInv
<1>2. CASE /\ conn'[c].state = conn[c].state /\ conn'[c].queue = conn[c].queue
           /\ conn'[c].sent = conn[c].sent
           /\ \/ conn'[c].outbox = conn[c].outbox
              \/ \E m \in AnswerRec :
                   m.type # "status" /\ conn'[c].outbox = Append(conn[c].outbox, m)
  <2>1. \A p \in DOMAIN conn'[c].outbox : conn'[c].outbox[p].type = "status" =>
          p \in DOMAIN conn[c].outbox /\ conn'[c].outbox[p] = conn[c].outbox[p]
    <3>1. CASE conn'[c].outbox = conn[c].outbox
      BY <3>1
    <3>2. ASSUME NEW m \in AnswerRec, m.type # "status",
                 conn'[c].outbox = Append(conn[c].outbox, m)
          PROVE  \A p \in DOMAIN conn'[c].outbox : conn'[c].outbox[p].type = "status" =>
                   p \in DOMAIN conn[c].outbox /\ conn'[c].outbox[p] = conn[c].outbox[p]
      <4>1. PICK s \in Seq(AnswerRec) : s = conn[c].outbox
        BY <1>1
      <4>2. \A p \in DOMAIN Append(s, m) :
              (p \in DOMAIN s /\ Append(s, m)[p] = s[p]) \/ Append(s, m)[p] = m
        OBVIOUS
      <4>3. QED BY <3>2, <4>1, <4>2
    <3>3. QED BY <1>2, <3>1, <3>2
  <2>2. conn'[c].state # "open" => ~(link = c /\ conn[c].state = "open")
    BY <1>2
  <2>3. link' = c /\ conn'[c].state = "open" => link = c
    OBVIOUS
  <2>4. ASSUME NEW p \in DOMAIN conn'[c].outbox, conn'[c].outbox[p].type = "status"
        PROVE  /\ conn'[c].state = "open"
               /\ conn'[c].outbox[p].revision <= conn'[c].sent
               /\ link' = c => view' <= conn'[c].outbox[p].revision
               /\ \A q \in DOMAIN conn'[c].outbox : p < q /\ conn'[c].outbox[q].type = "status" =>
                    conn'[c].outbox[p].revision <= conn'[c].outbox[q].revision
    <3>1. p \in DOMAIN conn[c].outbox /\ conn'[c].outbox[p] = conn[c].outbox[p]
      BY <2>1, <2>4
    <3>2. conn[c].outbox[p].type = "status"
      BY <2>4, <3>1
    <3>3. /\ conn[c].state = "open" /\ conn[c].outbox[p].revision <= conn[c].sent
          /\ link = c => view <= conn[c].outbox[p].revision
          /\ \A q \in DOMAIN conn[c].outbox : p < q /\ conn[c].outbox[q].type = "status" =>
               conn[c].outbox[p].revision <= conn[c].outbox[q].revision
      BY <1>1, <3>1, <3>2 DEF FeedOK
    <3>4. QED BY <1>2, <2>1, <2>3, <3>1, <3>3
  <2>5. /\ conn'[c].sent <= status'
        /\ \A p \in DOMAIN conn'[c].queue : conn'[c].queue[p] <= status'
        /\ link' = c /\ conn'[c].state = "open" => view' <= conn'[c].sent
    BY <1>1, <1>2, <2>3 DEF FeedOK
  <2>6. QED BY <2>4, <2>5 DEF FeedOK
<1>3. CASE /\ conn'[c].state # "open"
           /\ conn'[c].queue \in {conn[c].queue, <<>>} /\ conn'[c].sent \in {conn[c].sent, 0}
           /\ \/ conn'[c].outbox = <<>>
              \/ conn[c].state # "open" /\ conn'[c].outbox = conn[c].outbox
  <2>1. /\ conn[c].sent <= status /\ \A p \in DOMAIN conn[c].queue : conn[c].queue[p] <= status
        /\ conn[c].state # "open" =>
             \A p \in DOMAIN conn[c].outbox : conn[c].outbox[p].type # "status"
    BY <1>1 DEF FeedOK
  <2>2. \A p \in DOMAIN conn'[c].outbox : conn'[c].outbox[p].type # "status"
    BY <1>3, <2>1
  <2>3. conn'[c].sent = conn[c].sent \/ conn'[c].sent = 0
    BY <1>3
  <2>4. conn'[c].sent <= status'
    <3>1. 0 <= status
      BY <1>1
    <3>2. QED BY <2>1, <2>3, <3>1
  <2>5. conn'[c].queue = conn[c].queue \/ conn'[c].queue = <<>>
    BY <1>3
  <2>6. \A p \in DOMAIN conn'[c].queue : conn'[c].queue[p] <= status'
    BY <2>1, <2>5
  <2>7. conn'[c].state # "open"
    BY <1>3
  <2>8. QED BY <2>2, <2>4, <2>6, <2>7 DEF FeedOK
<1>4. QED BY <1>2, <1>3 DEF Hushed

\* A step that says nothing of the status.
LEMMA HushedAll ==
  ASSUME IInv, FeedInv, view' = view, status' = status,
         \A c \in Conns : Hushed(c) /\ (link' = c => link = c \/ conn'[c].state # "open")
  PROVE  FeedInv' /\ view' >= view
<1>1. \A c \in Conns : FeedOK(c)'
  BY HushedOne
<1>2. view \in Nat /\ view <= status
  BY FeedTyped DEF FeedInv
<1>3. QED BY <1>1, <1>2 DEF FeedInv

\* The step of one connection that says nothing of the status.
LEMMA HushedStep ==
  ASSUME IInv, FeedInv, UNCHANGED <<view, status, link>>, NEW c \in Conns, Hushed(c),
         \A d \in Conns : d # c => conn'[d] = conn[d]
  PROVE  FeedInv' /\ view' >= view
<1>1. \A d \in Conns : Hushed(d)
  BY DEF Hushed
<1>2. QED BY <1>1, HushedAll

\* A step that leaves the connections and the status alone.
LEMMA FeedUnchanged ==
  ASSUME IInv, FeedInv, UNCHANGED <<view, status, link, conn>>
  PROVE  FeedInv' /\ view' >= view
<1>1. \A d \in Conns : Hushed(d)
  BY DEF Hushed
<1>2. QED BY <1>1, HushedAll

-----------------------------------------------------------------------------
\* A handler that turns to its next stage says nothing.
LEMMA TurnHushed ==
  ASSUME IInv, NEW c \in Conns, NEW job \in JobRec, Turn(c, job)
  PROVE  Hushed(c) /\ \A d \in Conns : d # c => conn'[d] = conn[d]
<1>1. conn \in [Conns -> ConnRec] /\ conn[c] \in ConnRec
  BY FeedTyped
<1>2. conn' = [conn EXCEPT ![c].job = job]
  BY DEF Turn
<1>3. /\ conn'[c].state = conn[c].state /\ conn'[c].queue = conn[c].queue
      /\ conn'[c].sent = conn[c].sent /\ conn'[c].outbox = conn[c].outbox
      /\ \A d \in Conns : d # c => conn'[d] = conn[d]
  BY <1>1, <1>2 DEF ConnRec
<1>4. QED BY <1>3 DEF Hushed

\* A handler's answer says nothing of the status.
LEMMA AnswerHushed ==
  ASSUME IInv, NEW c \in Conns, NEW m \in AnswerRec, m.type # "status", Answer(c, m)
  PROVE  Hushed(c) /\ \A d \in Conns : d # c => conn'[d] = conn[d]
<1>1. conn \in [Conns -> ConnRec] /\ conn[c] \in ConnRec /\ conn[c].outbox \in Seq(AnswerRec)
  BY FeedTyped
<1>2. PICK q \in Seq(AnswerRec) :
         /\ q = IF conn[c].state = "open" THEN Append(conn[c].outbox, m) ELSE conn[c].outbox
         /\ q \in {conn[c].outbox, Append(conn[c].outbox, m)}
  BY <1>1, AppendTyped
<1>3. PICK j \in JobRec : j = NoJob
  BY NoConnTyped
<1>4. conn' = [conn EXCEPT ![c].job = j, ![c].outbox = q]
  BY <1>2, <1>3 DEF Answer
<1>5. /\ conn'[c].state = conn[c].state /\ conn'[c].queue = conn[c].queue
      /\ conn'[c].sent = conn[c].sent /\ conn'[c].outbox = q
      /\ \A d \in Conns : d # c => conn'[d] = conn[d]
  BY <1>1, <1>4 DEF ConnRec
<1>6. QED BY <1>2, <1>5 DEF Hushed

\* Neither does an answer to what has just arrived.
LEMMA AnswerNowHushed ==
  ASSUME IInv, NEW c \in Conns, AtHand(c), NEW m \in AnswerRec, m.type # "status",
         AnswerNow(c, m)
  PROVE  Hushed(c) /\ \A d \in Conns : d # c => conn'[d] = conn[d]
<1>1. conn \in [Conns -> ConnRec] /\ conn[c] \in ConnRec /\ conn[c].outbox \in Seq(AnswerRec)
  BY FeedTyped
<1>2. PICK q \in Seq(AnswerRec) :
         /\ q = IF conn[c].state = "open" THEN Append(conn[c].outbox, m) ELSE conn[c].outbox
         /\ q \in {conn[c].outbox, Append(conn[c].outbox, m)}
  BY <1>1, AppendTyped
<1>3. PICK t \in Seq(MessageRec) : t = Tail(conn[c].inbox)
  BY <1>1, AtHandFacts
<1>4. conn' = [conn EXCEPT ![c].inbox = t, ![c].outbox = q]
  BY <1>2, <1>3 DEF AnswerNow
<1>5. /\ conn'[c].state = conn[c].state /\ conn'[c].queue = conn[c].queue
      /\ conn'[c].sent = conn[c].sent /\ conn'[c].outbox = q
      /\ \A d \in Conns : d # c => conn'[d] = conn[d]
  BY <1>1, <1>4 DEF ConnRec
<1>6. QED BY <1>2, <1>5 DEF Hushed

\* Nor the message that is taken up.
LEMMA TakeUpHushed ==
  ASSUME IInv, NEW c \in Conns, AtHand(c),
         NEW at \in {"line", "observe", "push", "commit"}, TakeUp(c, at)
  PROVE  Hushed(c) /\ \A d \in Conns : d # c => conn'[d] = conn[d]
<1>1. conn \in [Conns -> ConnRec] /\ conn[c] \in ConnRec
  BY FeedTyped
<1>2. PICK t \in Seq(MessageRec) : t = Tail(conn[c].inbox)
  BY <1>1, AtHandFacts
<1>3. PICK j \in JobRec : j = [input |-> Incoming(c).input, at |-> at]
  BY <1>1, AtHandFacts DEF MessageRec, JobRec
<1>4. conn' = [conn EXCEPT ![c].inbox = t, ![c].job = j]
  BY <1>2, <1>3 DEF TakeUp
<1>5. /\ conn'[c].state = conn[c].state /\ conn'[c].queue = conn[c].queue
      /\ conn'[c].sent = conn[c].sent /\ conn'[c].outbox = conn[c].outbox
      /\ \A d \in Conns : d # c => conn'[d] = conn[d]
  BY <1>1, <1>4 DEF ConnRec
<1>6. QED BY <1>5 DEF Hushed

\* Nor a message that is posted.
LEMMA PostHushed ==
  ASSUME IInv, NEW c \in Conns, NEW m \in MessageRec, Post(c, m)
  PROVE  Hushed(c) /\ \A d \in Conns : d # c => conn'[d] = conn[d]
<1>1. conn \in [Conns -> ConnRec] /\ conn[c] \in ConnRec
  BY FeedTyped
<1>2. PICK q \in Seq(MessageRec) : q = Append(conn[c].inbox, m)
  BY <1>1, ConnTyped, AppendTyped
<1>3. conn' = [conn EXCEPT ![c].inbox = q]
  BY <1>2 DEF Post
<1>4. /\ conn'[c].state = conn[c].state /\ conn'[c].queue = conn[c].queue
      /\ conn'[c].sent = conn[c].sent /\ conn'[c].outbox = conn[c].outbox
      /\ \A d \in Conns : d # c => conn'[d] = conn[d]
  BY <1>1, <1>3 DEF ConnRec
<1>5. QED BY <1>4 DEF Hushed

\* A handler that asks for the line, pushes, waits or answers, step by step.
LEMMA ServesHushed ==
  ASSUME IInv, FeedInv, NEW c \in Conns,
         \/ ServeAgain(c) \/ ServeRefused(c) \/ ServeText(c) \/ ServeFrame(c)
         \/ ServeAudio(c) \/ ServeCommit(c)
  PROVE  FeedInv' /\ view' >= view
<1>1. conn \in [Conns -> ConnRec] /\ AtHand(c)
  BY FeedTyped DEF ServeAgain, ServeRefused, ServeText, ServeFrame, ServeAudio, ServeCommit
<1>2. UNCHANGED <<view, status, link>>
  BY DEF ServeAgain, ServeRefused, ServeText, ServeFrame, ServeAudio, ServeCommit, client
<1>3. PICK x \in MessageRec : x = Incoming(c)
  BY <1>1, AtHandFacts
<1>4. PICK ack \in AnswerRec, rejected \in AnswerRec :
        /\ ack = Ack(x) /\ rejected = Rejected(x)
        /\ ack.type # "status" /\ rejected.type # "status"
  BY AnswerTyped
<1>5. Hushed(c) /\ \A d \in Conns : d # c => conn'[d] = conn[d]
  <2>1. CASE ServeAgain(c)
    <3>1. AnswerNow(c, ack)
      BY <1>3, <1>4, <2>1 DEF ServeAgain
    <3>2. QED BY <1>1, <1>4, <3>1, AnswerNowHushed
  <2>2. CASE ServeRefused(c)
    <3>1. AnswerNow(c, rejected)
      BY <1>3, <1>4, <2>2 DEF ServeRefused
    <3>2. QED BY <1>1, <1>4, <3>1, AnswerNowHushed
  <2>3. CASE ServeText(c) \/ ServeFrame(c) \/ ServeAudio(c) \/ ServeCommit(c)
    <3>1. \E at \in {"line", "observe", "push", "commit"} : TakeUp(c, at)
      BY <2>3 DEF ServeText, ServeFrame, ServeAudio, ServeCommit
    <3>2. QED BY <1>1, <3>1, TakeUpHushed
  <2>4. QED BY <2>1, <2>2, <2>3
<1>6. QED BY <1>2, <1>5, HushedStep

\* A handler that goes on with its job.
LEMMA JobsHushed ==
  ASSUME IInv, FeedInv, NEW c \in Conns,
         \/ ShowText(c) \/ TextFails(c) \/ Observe(c) \/ ObserveFails(c)
         \/ Push(c) \/ Commit(c) \/ AudioFails(c)
  PROVE  FeedInv' /\ view' >= view
<1>1. PICK at \in {"line", "observe", "push", "commit"} : Job(c, at)
  BY DEF ShowText, TextFails, Observe, ObserveFails, Push, Commit, AudioFails
<1>2. UNCHANGED <<view, status, link>>
  BY DEF ShowText, TextFails, Observe, ObserveFails, Push, Commit, AudioFails, client
<1>3. PICK x \in MessageRec : x = Asked(c)
  BY <1>1, JobFacts
<1>4. PICK ack \in AnswerRec, rejected \in AnswerRec :
        /\ ack = Ack(x) /\ rejected = Rejected(x)
        /\ ack.type # "status" /\ rejected.type # "status"
  BY AnswerTyped
<1>5. \A stage \in {"observe", "commit"} : [input |-> Input(c), at |-> stage] \in JobRec
  <2>1. Input(c) \in Inputs
    BY <1>1, JobFacts
  <2>2. QED BY <2>1 DEF JobRec
<1>6. \/ Answer(c, ack) \/ Answer(c, rejected)
      \/ \E job \in JobRec : Turn(c, job)
  BY <1>3, <1>4, <1>5
     DEF ShowText, TextFails, Observe, ObserveFails, Push, Commit, AudioFails
<1>7. Hushed(c) /\ \A d \in Conns : d # c => conn'[d] = conn[d]
  BY <1>4, <1>6, AnswerHushed, TurnHushed
<1>8. QED BY <1>2, <1>7, HushedStep

\* The desktop's messages, and the attempts that are given up.
LEMMA SendsHushed ==
  ASSUME IInv, FeedInv, NEW i \in Inputs, Submit(i) \/ AckTimeout(i)
  PROVE  FeedInv' /\ view' >= view
<1>1. UNCHANGED <<view, status, link>>
  BY DEF Submit, AckTimeout
<1>2. PICK m \in MessageRec : m = Message(i)
  BY AwaitedTyped
<1>3. conn' = conn \/ Post(link, m)
  BY <1>2 DEF Submit, AckTimeout
<1>4. CASE Post(link, m)
  <2>1. CASE link \in Conns
    BY <1>1, <1>4, <2>1, PostHushed, HushedStep
  <2>2. CASE link \notin Conns
    <3>1. conn \in [Conns -> ConnRec]
      BY FeedTyped
    <3>2. \A d \in Conns : d # link
      BY <2>2
    <3>3. \A d \in Conns : conn'[d] = conn[d]
      BY <1>4, <3>1, <3>2 DEF Post
    <3>4. \A d \in Conns : Hushed(d)
      BY <3>3 DEF Hushed
    <3>5. QED BY <1>1, <3>4, HushedAll
  <2>3. QED BY <2>1, <2>2
<1>5. QED BY <1>1, <1>3, <1>4, FeedUnchanged

\* A connection begins: nothing is on its way yet.
LEMMA DialFeeds == ASSUME IInv, FeedInv, Dial PROVE FeedInv' /\ view' >= view
<1>1. PICK c \in Conns :
        /\ conn[c].state = "none" /\ link' = c
        /\ conn' = [conn EXCEPT ![c].state = "hello"] /\ UNCHANGED <<view, status>>
  BY DEF Dial
<1>2. conn \in [Conns -> ConnRec] /\ conn[c] \in ConnRec
  BY FeedTyped
<1>3. /\ \A d \in Conns : d # c => conn'[d] = conn[d]
      /\ conn'[c].state = "hello" /\ conn'[c].outbox = conn[c].outbox
      /\ conn'[c].sent = conn[c].sent /\ conn'[c].queue = conn[c].queue
  BY <1>1, <1>2 DEF ConnRec
<1>4. \A d \in Conns : Hushed(d)
  BY <1>1, <1>3 DEF Hushed
<1>5. \A d \in Conns : link' = d => conn'[d].state # "open"
  BY <1>1, <1>3
<1>6. QED BY <1>1, <1>4, <1>5, HushedAll

\* A connection is lost, with what was on its way.
LEMMA DropFeeds == ASSUME IInv, FeedInv, Drop PROVE FeedInv' /\ view' >= view
<1>1. PICK c \in Conns : link = c
  BY DEF Drop, IInv, TypeOK
<1>2. PICK k \in 0..Len(conn[c].inbox) :
        conn' = [conn EXCEPT ![c].state = "closing", ![c].outbox = <<>>,
                             ![c].inbox = SubSeq(@, 1, k)]
  BY <1>1 DEF Drop
<1>3. link' = None /\ UNCHANGED <<view, status>>
  BY DEF Drop
<1>4. conn \in [Conns -> ConnRec] /\ conn[c] \in ConnRec
  BY FeedTyped
<1>5. PICK q : q = SubSeq(conn[c].inbox, 1, k)
  OBVIOUS
<1>6. conn' = [conn EXCEPT ![c].state = "closing", ![c].outbox = <<>>, ![c].inbox = q]
  BY <1>2, <1>5
<1>7. /\ \A d \in Conns : d # c => conn'[d] = conn[d]
      /\ conn'[c].state = "closing" /\ conn'[c].outbox = <<>>
      /\ conn'[c].sent = conn[c].sent /\ conn'[c].queue = conn[c].queue
  BY <1>4, <1>6 DEF ConnRec
<1>8. \A d \in Conns : Hushed(d)
  BY <1>7 DEF Hushed
<1>9. \A d \in Conns : link' # d
  BY <1>3, NoneAssumption, ConnAssumption
<1>10. QED BY <1>3, <1>8, <1>9, HushedAll

\* The handshake: a subscribed connection was told nothing.
LEMMA SubscribeFeeds ==
  ASSUME IInv, FeedInv, NEW c \in Conns, Subscribe(c) PROVE FeedInv' /\ view' >= view
<1>1. /\ conn[c].state = "hello" /\ conn' = [conn EXCEPT ![c].state = "subscribed"]
      /\ UNCHANGED <<view, status, link>>
  BY DEF Subscribe, client
<1>2. conn \in [Conns -> ConnRec] /\ conn[c] \in ConnRec
  BY FeedTyped
<1>3. /\ \A d \in Conns : d # c => conn'[d] = conn[d]
      /\ conn'[c].state = "subscribed" /\ conn'[c].outbox = conn[c].outbox
      /\ conn'[c].sent = conn[c].sent /\ conn'[c].queue = conn[c].queue
  BY <1>1, <1>2 DEF ConnRec
<1>4. Hushed(c)
  BY <1>1, <1>3 DEF Hushed
<1>5. QED BY <1>1, <1>3, <1>4, HushedStep

\* A connection that has come to its end, or to that of the process.
LEMMA GoneSilent ==
  LET gone == [NoConn EXCEPT !.state = "gone"] IN
  gone.state = "gone" /\ gone.outbox = <<>> /\ gone.queue = <<>> /\ gone.sent = 0
<1>1. PICK n \in ConnRec :
        n = NoConn /\ n.outbox = <<>> /\ n.queue = <<>> /\ n.sent = 0
  <2>1. NoConn.sent = 0
    BY DEF NoConn
  <2>2. QED BY <2>1, NoConnTyped
<1>2. /\ [n EXCEPT !.state = "gone"].state = "gone"
      /\ [n EXCEPT !.state = "gone"].outbox = n.outbox
      /\ [n EXCEPT !.state = "gone"].queue = n.queue
      /\ [n EXCEPT !.state = "gone"].sent = n.sent
  BY DEF ConnRec
<1>3. QED BY <1>1, <1>2

LEMMA GoneHushed ==
  ASSUME NEW c \in Conns, conn'[c] = [NoConn EXCEPT !.state = "gone"] PROVE Hushed(c)
<1>1. PICK n : n = [NoConn EXCEPT !.state = "gone"]
  OBVIOUS
<1>2. n.state = "gone" /\ n.outbox = <<>> /\ n.queue = <<>> /\ n.sent = 0
  BY <1>1, GoneSilent
<1>3. QED BY <1>1, <1>2 DEF Hushed

LEMMA HangupFeeds ==
  ASSUME IInv, FeedInv, NEW c \in Conns, Hangup(c) PROVE FeedInv' /\ view' >= view
<1>1. UNCHANGED <<view, status, link>>
  BY DEF Hangup, client
<1>2. PICK n : n = [NoConn EXCEPT !.state = "gone"]
  OBVIOUS
<1>3. conn' = [conn EXCEPT ![c] = n]
  BY <1>2 DEF Hangup
<1>4. conn'[c] = n /\ \A d \in Conns : d # c => conn'[d] = conn[d]
  BY <1>3, FeedTyped
<1>5. Hushed(c)
  BY <1>2, <1>4, GoneHushed
<1>6. QED BY <1>1, <1>4, <1>5, HushedStep

LEMMA CrashFeeds == ASSUME IInv, FeedInv, Crash PROVE FeedInv' /\ view' >= view
<1>1. link' = None /\ UNCHANGED <<view, status>>
  BY DEF Crash
<1>2. PICK n : n = [NoConn EXCEPT !.state = "gone"]
  OBVIOUS
<1>3. conn' = [c \in Conns |-> IF conn[c].state = "none" THEN conn[c] ELSE n]
  BY <1>2 DEF Crash
<1>4. ASSUME NEW c \in Conns PROVE Hushed(c)
  <2>1. conn'[c] = conn[c] \/ conn'[c] = n
    BY <1>3
  <2>2. CASE conn'[c] = conn[c]
    BY <2>2 DEF Hushed
  <2>3. CASE conn'[c] = n
    BY <1>2, <2>3, GoneHushed
  <2>4. QED BY <2>1, <2>2, <2>3
<1>5. \A d \in Conns : link' # d
  BY <1>1, NoneAssumption, ConnAssumption
<1>6. QED BY <1>1, <1>4, <1>5, HushedAll

\* A status sent is the newest on its way.
LEMMA SentInOrder ==
  ASSUME IInv, FeedInv, NEW c \in Conns, NEW x \in Nat, NEW m \in AnswerRec,
         m.type = "status", m.revision = x, x <= status,
         UNCHANGED <<view, status, link>>,
         conn'[c].state = "open", conn'[c].sent = x,
         conn'[c].outbox = Append(conn[c].outbox, m),
         \A p \in DOMAIN conn'[c].queue : conn'[c].queue[p] <= status,
         \A p \in DOMAIN conn[c].outbox :
           conn[c].outbox[p].type = "status" => conn[c].outbox[p].revision <= x,
         link = c => view <= x
  PROVE  FeedOK(c)'
<1>1. /\ view \in Nat /\ status \in Nat /\ conn[c].outbox \in Seq(AnswerRec) /\ FeedOK(c)
      /\ \A p \in DOMAIN conn[c].outbox :
           conn[c].outbox[p].type = "status" => conn[c].outbox[p].revision \in Nat
  BY FeedTyped DEF FeedInv
<1>2. PICK s \in Seq(AnswerRec) : s = conn[c].outbox
  BY <1>1
<1>3. PICK t \in Seq(AnswerRec) : t = Append(s, m) /\ t = conn'[c].outbox
  BY <1>2, AppendTyped
<1>4. \A p \in DOMAIN t : \/ p \in DOMAIN s /\ t[p] = s[p]
                          \/ p = Len(s) + 1 /\ t[p] = m
  <2>1. ASSUME NEW p \in DOMAIN Append(s, m)
        PROVE  \/ p \in DOMAIN s /\ Append(s, m)[p] = s[p]
               \/ p = Len(s) + 1 /\ Append(s, m)[p] = m
    BY AppendPlaces
  <2>2. QED BY <1>3, <2>1
<1>5. \A p \in DOMAIN s : s[p].type = "status" =>
        /\ s[p].revision \in Nat /\ s[p].revision <= x
        /\ link = c => view <= s[p].revision
        /\ \A q \in DOMAIN s : p < q /\ s[q].type = "status" => s[p].revision <= s[q].revision
  BY <1>1, <1>2 DEF FeedOK
<1>6. ASSUME NEW p \in DOMAIN t, t[p].type = "status"
      PROVE  /\ t[p].revision <= x
             /\ link = c => view <= t[p].revision
             /\ \A q \in DOMAIN t : p < q /\ t[q].type = "status" =>
                  t[p].revision <= t[q].revision
  <2>1. CASE p \in DOMAIN s /\ t[p] = s[p]
    <3>1. /\ s[p].revision \in Nat /\ s[p].revision <= x
          /\ link = c => view <= s[p].revision
          /\ \A q \in DOMAIN s : p < q /\ s[q].type = "status" => s[p].revision <= s[q].revision
      BY <1>5, <1>6, <2>1
    <3>2. ASSUME NEW q \in DOMAIN t, p < q, t[q].type = "status"
          PROVE  t[p].revision <= t[q].revision
      BY <1>4, <2>1, <3>1, <3>2
    <3>3. QED BY <2>1, <3>1, <3>2
  <2>2. CASE p = Len(s) + 1 /\ t[p] = m
    <3>1. Len(s) \in Nat /\ DOMAIN s = 1..Len(s) /\ x <= x
      OBVIOUS
    <3>2. ASSUME NEW q \in DOMAIN t, p < q PROVE FALSE
      BY <1>4, <2>2, <3>1, <3>2
    <3>3. QED BY <2>2, <3>1, <3>2
  <2>3. QED BY <1>4, <2>1, <2>2
<1>7. \A p \in DOMAIN conn'[c].outbox : conn'[c].outbox[p].type = "status" =>
        /\ conn'[c].state = "open"
        /\ conn'[c].outbox[p].revision <= conn'[c].sent
        /\ link' = c => view' <= conn'[c].outbox[p].revision
        /\ \A q \in DOMAIN conn'[c].outbox : p < q /\ conn'[c].outbox[q].type = "status" =>
             conn'[c].outbox[p].revision <= conn'[c].outbox[q].revision
  BY <1>3, <1>6
<1>8. QED BY <1>7 DEF FeedOK

\* The others are not concerned.
LEMMA FeedOfOne ==
  ASSUME IInv, FeedInv, NEW c \in Conns, FeedOK(c)', UNCHANGED <<view, status, link>>,
         \A d \in Conns : d # c => conn'[d] = conn[d]
  PROVE  FeedInv' /\ view' >= view
<1>1. ASSUME NEW d \in Conns, d # c PROVE FeedOK(d)'
  BY <1>1, HushedOne DEF Hushed
<1>2. view \in Nat /\ view <= status
  BY FeedTyped DEF FeedInv
<1>3. QED BY <1>1, <1>2 DEF FeedInv

\* backend.ready carries the status as it is; nothing older follows.
LEMMA WelcomeFeeds ==
  ASSUME IInv, FeedInv, NEW c \in Conns, Welcome(c) PROVE FeedInv' /\ view' >= view
<1>1. /\ conn \in [Conns -> ConnRec] /\ conn[c] \in ConnRec /\ status \in Nat
      /\ conn[c].outbox \in Seq(AnswerRec) /\ FeedOK(c) /\ view <= status
      /\ status \in 0..MaxStatus
  BY FeedTyped DEF FeedInv, IInv, TypeOK
<1>2. PICK m \in AnswerRec : m = [type |-> "status", revision |-> status]
  BY <1>1 DEF AnswerRec
<1>3. PICK q \in Seq(AnswerRec) : q = Append(conn[c].outbox, m)
  BY <1>1, AppendTyped
<1>4. /\ conn[c].state = "subscribed" /\ UNCHANGED <<view, status, link>>
      /\ conn' = [conn EXCEPT ![c].state = "open", ![c].sent = status, ![c].outbox = q]
  BY <1>2, <1>3 DEF Welcome, client
<1>5. /\ \A d \in Conns : d # c => conn'[d] = conn[d]
      /\ conn'[c].state = "open" /\ conn'[c].outbox = q /\ conn'[c].sent = status
      /\ conn'[c].queue = conn[c].queue
  BY <1>1, <1>4 DEF ConnRec
<1>6. /\ \A p \in DOMAIN conn[c].queue : conn[c].queue[p] <= status
      /\ \A p \in DOMAIN conn[c].outbox :
           conn[c].outbox[p].type = "status" => conn[c].outbox[p].revision <= status
  BY <1>1, <1>4 DEF FeedOK
<1>7. m.type = "status" /\ m.revision = status /\ status <= status
  BY <1>1, <1>2
<1>8. \A p \in DOMAIN conn'[c].queue : conn'[c].queue[p] <= status
  BY <1>5, <1>6
<1>9. conn'[c].outbox = Append(conn[c].outbox, m)
  BY <1>3, <1>5
<1>10. PICK x \in Nat : x = status
  BY <1>1
<1>11. /\ m.type = "status" /\ m.revision = x /\ x <= status /\ conn'[c].sent = x
       /\ \A p \in DOMAIN conn[c].outbox :
            conn[c].outbox[p].type = "status" => conn[c].outbox[p].revision <= x
       /\ link = c => view <= x
  BY <1>1, <1>5, <1>6, <1>7, <1>10
<1>12. FeedOK(c)'
  BY <1>4, <1>5, <1>8, <1>9, <1>11, SentInOrder
<1>13. QED BY <1>4, <1>5, <1>12, FeedOfOne

\* A status that is news is forwarded, one that is not is left out.
LEMMA ForwardFeeds ==
  ASSUME IInv, FeedInv, NEW c \in Conns, ForwardStatus(c) PROVE FeedInv' /\ view' >= view
<1>1. /\ conn \in [Conns -> ConnRec] /\ conn[c] \in ConnRec /\ status \in Nat /\ view \in Nat
      /\ conn[c].outbox \in Seq(AnswerRec) /\ conn[c].queue \in Seq(0..MaxStatus)
      /\ conn[c].sent \in Nat /\ FeedOK(c) /\ MaxStatus \in Nat
      /\ \A p \in DOMAIN conn[c].outbox :
           conn[c].outbox[p].type = "status" => conn[c].outbox[p].revision \in Nat
  BY FeedTyped, BoundAssumption DEF FeedInv
<1>2. conn[c].state = "open" /\ conn[c].queue # <<>> /\ UNCHANGED <<view, status, link>>
  BY DEF ForwardStatus, client
<1>3. PICK b \in Seq(0..MaxStatus) : b = conn[c].queue /\ b # <<>>
  BY <1>1, <1>2
<1>4. PICK r \in 0..MaxStatus : r = Head(b) /\ r = b[1] /\ 1 \in DOMAIN b
  BY <1>3, FirstAndRest
<1>5. PICK t \in Seq(0..MaxStatus) :
        t = Tail(b) /\ \A p \in DOMAIN t : p + 1 \in DOMAIN b /\ t[p] = b[p + 1]
  <2>1. /\ Tail(b) \in Seq(0..MaxStatus)
        /\ \A p \in DOMAIN Tail(b) : p + 1 \in DOMAIN b /\ Tail(b)[p] = b[p + 1]
    BY <1>3, FirstAndRest
  <2>2. QED BY <2>1
<1>6. r \in Nat /\ r <= status /\ \A p \in DOMAIN t : t[p] <= status
  <2>1. \A p \in DOMAIN b : b[p] <= status
    BY <1>1, <1>3 DEF FeedOK
  <2>2. QED BY <1>1, <1>4, <1>5, <2>1
<1>7. PICK m \in AnswerRec : m = [type |-> "status", revision |-> r]
  BY DEF AnswerRec
<1>8. PICK q \in Seq(AnswerRec) : q = Append(conn[c].outbox, m)
  BY <1>1, AppendTyped
<1>9. /\ r > conn[c].sent /\ conn' = [conn EXCEPT ![c].queue = t, ![c].sent = r, ![c].outbox = q]
      \/ conn' = [conn EXCEPT ![c].queue = t]
  BY <1>3, <1>4, <1>5, <1>7, <1>8 DEF ForwardStatus, IsNews
<1>10. CASE r > conn[c].sent /\ conn' = [conn EXCEPT ![c].queue = t, ![c].sent = r, ![c].outbox = q]
  <2>1. /\ \A d \in Conns : d # c => conn'[d] = conn[d]
        /\ conn'[c].state = "open" /\ conn'[c].outbox = q /\ conn'[c].sent = r
        /\ conn'[c].queue = t
    BY <1>1, <1>2, <1>10 DEF ConnRec
  <2>2. m.type = "status" /\ m.revision = r
    BY <1>7
  <2>3. \A p \in DOMAIN conn[c].outbox :
          conn[c].outbox[p].type = "status" => conn[c].outbox[p].revision <= r
    <3>1. \A p \in DOMAIN conn[c].outbox :
            conn[c].outbox[p].type = "status" => conn[c].outbox[p].revision <= conn[c].sent
      BY <1>1 DEF FeedOK
    <3>2. \A n \in Nat : n <= conn[c].sent => n <= r
      BY <1>1, <1>6, <1>10
    <3>3. QED BY <1>1, <3>1, <3>2
  <2>4. link = c => view <= r
    <3>1. link = c => view <= conn[c].sent
      BY <1>1, <1>2 DEF FeedOK
    <3>2. QED BY <1>1, <1>6, <1>10, <3>1
  <2>5. \A p \in DOMAIN conn'[c].queue : conn'[c].queue[p] <= status
    BY <1>6, <2>1
  <2>6. conn'[c].outbox = Append(conn[c].outbox, m)
    BY <1>8, <2>1
  <2>7. FeedOK(c)'
    BY <1>2, <1>6, <2>1, <2>2, <2>3, <2>4, <2>5, <2>6, SentInOrder
  <2>8. QED BY <1>2, <2>1, <2>7, FeedOfOne
<1>11. CASE conn' = [conn EXCEPT ![c].queue = t]
  <2>1. /\ \A d \in Conns : d # c => conn'[d] = conn[d]
        /\ conn'[c].state = conn[c].state /\ conn'[c].outbox = conn[c].outbox
        /\ conn'[c].sent = conn[c].sent /\ conn'[c].queue = t
    BY <1>1, <1>11 DEF ConnRec
  <2>2. FeedOK(c)'
    BY <1>1, <1>2, <1>6, <2>1 DEF FeedOK
  <2>3. QED BY <1>2, <2>1, <2>2, FeedOfOne
<1>12. QED BY <1>9, <1>10, <1>11

\* What the desktop reads is not older than what it shows.
LEMMA ReceiveFeeds == ASSUME IInv, FeedInv, Receive PROVE FeedInv' /\ view' >= view
<1>1. PICK c \in Conns : link = c
  BY DEF Receive, IInv, TypeOK
<1>2. /\ conn \in [Conns -> ConnRec] /\ conn[c] \in ConnRec /\ status \in Nat /\ view \in Nat
      /\ conn[c].outbox \in Seq(AnswerRec) /\ conn[c].sent \in Nat /\ FeedOK(c) /\ view <= status
      /\ conn[c].inbox \in Seq(MessageRec)
  BY FeedTyped, ConnTyped DEF FeedInv
<1>3. PICK s \in Seq(AnswerRec) : s = conn[c].outbox /\ s # <<>>
  BY <1>1, <1>2 DEF Receive
<1>4. PICK m \in AnswerRec : m = Head(s) /\ m = s[1] /\ 1 \in DOMAIN s
  BY <1>3
<1>5. PICK t \in Seq(AnswerRec) :
        t = Tail(s) /\ \A p \in DOMAIN t : p \in Nat /\ p >= 1 /\ p + 1 \in DOMAIN s /\ t[p] = s[p + 1]
  <2>1. /\ Tail(s) \in Seq(AnswerRec)
        /\ \A p \in DOMAIN Tail(s) :
             p \in Nat /\ p >= 1 /\ p + 1 \in DOMAIN s /\ Tail(s)[p] = s[p + 1]
    BY <1>3, FirstAndRest
  <2>2. QED BY <2>1
<1>6. UNCHANGED <<link, status>>
  BY DEF Receive
<1>7. /\ \A d \in Conns : d # c => conn'[d] = conn[d]
      /\ conn'[c].state = conn[c].state /\ conn'[c].outbox = t
      /\ conn'[c].sent = conn[c].sent /\ conn'[c].queue = conn[c].queue
  <2>1. \/ conn' = [conn EXCEPT ![c].outbox = t]
        \/ conn' = [conn EXCEPT ![c].outbox = t,
                        ![c].inbox = Append(@, [input |-> m.input, stage |-> "committed"])]
    BY <1>1, <1>3, <1>4, <1>5 DEF Receive, HearStatus, HearAnswer
  <2>2. PICK b : b = Append(conn[c].inbox, [input |-> m.input, stage |-> "committed"])
    OBVIOUS
  <2>3. \/ conn' = [conn EXCEPT ![c].outbox = t]
        \/ conn' = [conn EXCEPT ![c].outbox = t, ![c].inbox = b]
    BY <2>1, <2>2
  <2>4. QED BY <1>2, <2>3 DEF ConnRec
<1>8. /\ view' = view \/ (m.type = "status" /\ view' = m.revision)
  BY <1>1, <1>3, <1>4 DEF Receive, HearStatus
<1>9. \A p \in DOMAIN s : s[p].type = "status" =>
        /\ conn[c].state = "open" /\ s[p].revision \in Nat /\ s[p].revision <= conn[c].sent
        /\ view <= s[p].revision
        /\ \A q \in DOMAIN s : p < q /\ s[q].type = "status" => s[p].revision <= s[q].revision
  BY <1>1, <1>2, <1>3, FeedTyped DEF FeedOK
<1>10. /\ view' \in Nat /\ view' >= view /\ view' <= status
       /\ \A p \in DOMAIN t : t[p].type = "status" => view' <= t[p].revision
       /\ conn[c].state = "open" => view' <= conn[c].sent
  <2>1. conn[c].sent <= status
    BY <1>2 DEF FeedOK
  <2>2. CASE view' = view
    <3>1. conn[c].state = "open" => view <= conn[c].sent
      BY <1>1, <1>2 DEF FeedOK
    <3>2. \A p \in DOMAIN t : t[p].type = "status" => view <= t[p].revision
      BY <1>5, <1>9
    <3>3. QED BY <1>2, <2>2, <3>1, <3>2
  <2>3. CASE m.type = "status" /\ view' = m.revision
    <3>1. /\ m.revision \in Nat /\ m.revision <= conn[c].sent /\ view <= m.revision
          /\ \A q \in DOMAIN s : 1 < q /\ s[q].type = "status" => m.revision <= s[q].revision
      BY <1>4, <1>9, <2>3
    <3>2. \A p \in DOMAIN t : t[p].type = "status" => m.revision <= t[p].revision
      <4>1. \A p \in DOMAIN t : p + 1 \in DOMAIN s /\ 1 < p + 1 /\ t[p] = s[p + 1]
        BY <1>5
      <4>2. QED BY <3>1, <4>1
    <3>3. QED BY <1>2, <2>1, <2>3, <3>1, <3>2
  <2>4. QED BY <1>8, <2>2, <2>3
<1>11. FeedOK(c)'
  <2>1. ASSUME NEW p \in DOMAIN t, t[p].type = "status"
        PROVE  /\ conn[c].state = "open" /\ t[p].revision <= conn[c].sent
               /\ \A q \in DOMAIN t : p < q /\ t[q].type = "status" =>
                    t[p].revision <= t[q].revision
    <3>1. p \in Nat /\ p + 1 \in DOMAIN s /\ t[p] = s[p + 1]
      BY <1>5
    <3>2. ASSUME NEW q \in DOMAIN t, p < q, t[q].type = "status"
          PROVE  t[p].revision <= t[q].revision
      <4>1. q \in Nat /\ q + 1 \in DOMAIN s /\ t[q] = s[q + 1]
        BY <1>5
      <4>2. p + 1 < q + 1
        BY <3>1, <3>2, <4>1
      <4>3. QED BY <1>9, <2>1, <3>1, <3>2, <4>1, <4>2
    <3>3. QED BY <1>9, <2>1, <3>1, <3>2
  <2>2. /\ conn[c].sent <= status /\ \A p \in DOMAIN conn[c].queue : conn[c].queue[p] <= status
    BY <1>2 DEF FeedOK
  <2>3. \A p \in DOMAIN conn'[c].outbox : conn'[c].outbox[p].type = "status" =>
          /\ conn'[c].state = "open"
          /\ conn'[c].outbox[p].revision <= conn'[c].sent
          /\ link' = c => view' <= conn'[c].outbox[p].revision
          /\ \A q \in DOMAIN conn'[c].outbox : p < q /\ conn'[c].outbox[q].type = "status" =>
               conn'[c].outbox[p].revision <= conn'[c].outbox[q].revision
    BY <1>7, <1>10, <2>1
  <2>4. /\ conn'[c].sent <= status' /\ \A p \in DOMAIN conn'[c].queue : conn'[c].queue[p] <= status'
        /\ link' = c /\ conn'[c].state = "open" => view' <= conn'[c].sent
    BY <1>6, <1>7, <1>10, <2>2
  <2>5. QED BY <2>3, <2>4 DEF FeedOK
<1>12. ASSUME NEW d \in Conns, d # c PROVE FeedOK(d)'
  <2>1. FeedOK(d) /\ conn'[d] = conn[d] /\ link # d /\ link' # d
    BY <1>1, <1>6, <1>7, <1>12 DEF FeedInv
  <2>2. QED BY <1>6, <2>1 DEF FeedOK
<1>13. QED BY <1>6, <1>10, <1>11, <1>12 DEF FeedInv

\* A full queue keeps its newest statuses, and the new one is the newest.
LEMMA PutMembers ==
  ASSUME NEW q \in Seq(0..MaxStatus), NEW x \in 0..MaxStatus, NEW p \in DOMAIN PutLatest(q, x)
  PROVE  PutLatest(q, x)[p] = x \/ \E r \in DOMAIN q : PutLatest(q, x)[p] = q[r]
<1>1. QueueCapacity \in Nat \ {0}
  BY BoundAssumption
<1>2. PICK t \in Seq(0..MaxStatus) :
        /\ t = IF Len(q) = QueueCapacity THEN Tail(q) ELSE q
        /\ \A n \in DOMAIN t : \E r \in DOMAIN q : t[n] = q[r]
  <2>1. CASE Len(q) = QueueCapacity
    <3>1. q # <<>>
      BY <1>1, <2>1
    <3>2. /\ Tail(q) \in Seq(0..MaxStatus)
          /\ \A n \in DOMAIN Tail(q) : n + 1 \in DOMAIN q /\ Tail(q)[n] = q[n + 1]
      BY <3>1, FirstAndRest
    <3>3. \A n \in DOMAIN Tail(q) : \E r \in DOMAIN q : Tail(q)[n] = q[r]
      BY <3>2
    <3>4. QED BY <2>1, <3>2, <3>3
  <2>2. QED BY <2>1
<1>3. PutLatest(q, x) = Append(t, x)
  BY <1>2 DEF PutLatest
<1>4. ASSUME NEW n \in DOMAIN Append(t, x)
      PROVE  (n \in DOMAIN t /\ Append(t, x)[n] = t[n]) \/ Append(t, x)[n] = x
  BY AppendPlaces
<1>5. QED BY <1>2, <1>3, <1>4

\* A new status is queued for every subscriber.
LEMMA PublishFeeds == ASSUME IInv, FeedInv, PublishStatus PROVE FeedInv' /\ view' >= view
<1>1. /\ status \in Nat /\ view \in Nat /\ view <= status /\ status < MaxStatus
      /\ MaxStatus \in Nat /\ status' = status + 1 /\ UNCHANGED <<view, link>>
  BY FeedTyped, BoundAssumption DEF FeedInv, PublishStatus, client
<1>2. PICK x \in 0..MaxStatus : x = status' /\ x \in Nat /\ status <= x /\ view <= x
  BY <1>1
<1>3. ASSUME NEW c \in Conns PROVE FeedOK(c)'
  <2>1. /\ FeedOK(c) /\ conn[c] \in ConnRec /\ conn[c].queue \in Seq(0..MaxStatus)
        /\ conn[c].sent \in Nat /\ \A p \in DOMAIN conn[c].queue : conn[c].queue[p] \in Nat
    BY FeedTyped DEF FeedInv
  <2>2. \A n \in Nat : n <= status => n <= x
    BY <1>1, <1>2
  <2>3. PICK b \in Seq(0..MaxStatus) : b = conn[c].queue /\ Len(b) <= QueueCapacity
    BY <2>1 DEF IInv, TypeOK
  <2>4. PICK q \in Seq(0..MaxStatus) : q = PutLatest(b, x)
    BY <2>3, PutLatestFacts
  <2>5. \A p \in DOMAIN b : b[p] <= x
    BY <2>1, <2>2, <2>3 DEF FeedOK
  <2>6. \A p \in DOMAIN q : q[p] <= x
    <3>1. x <= x
      BY <1>2
    <3>2. ASSUME NEW p \in DOMAIN q PROVE q[p] = x \/ \E r \in DOMAIN b : q[p] = b[r]
      BY <2>4, PutMembers
    <3>3. QED BY <2>5, <3>1, <3>2
  <2>7. conn'[c] = conn[c] \/ conn'[c] = [conn[c] EXCEPT !.queue = q]
    BY <1>2, <2>3, <2>4 DEF PublishStatus
  <2>8. /\ conn'[c].state = conn[c].state /\ conn'[c].sent = conn[c].sent
        /\ conn'[c].outbox = conn[c].outbox /\ conn'[c].queue \in {b, q}
    BY <2>1, <2>3, <2>7 DEF ConnRec
  <2>9. \A p \in DOMAIN conn'[c].queue : conn'[c].queue[p] <= x
    BY <2>5, <2>6, <2>8
  <2>10. conn'[c].sent <= x
    BY <2>1, <2>2, <2>8 DEF FeedOK
  <2>11. QED BY <1>1, <1>2, <2>1, <2>8, <2>9, <2>10 DEF FeedOK
<1>4. QED BY <1>1, <1>2, <1>3 DEF FeedInv

\* At first nothing is on its way.
LEMMA FeedBegins == ASSUME Init PROVE FeedInv
<1>1. /\ view = 0 /\ status = 0 /\ \A c \in Conns : conn[c] = NoConn
  BY DEF Init
<1>2. PICK n \in ConnRec :
        n = NoConn /\ n.outbox = <<>> /\ n.queue = <<>> /\ n.sent = 0 /\ n.state # "open"
  <2>1. NoConn.sent = 0
    BY DEF NoConn
  <2>2. QED BY <2>1, NoConnTyped
<1>3. \A c \in Conns : FeedOK(c)
  BY <1>1, <1>2 DEF FeedOK
<1>4. QED BY <1>1, <1>3 DEF FeedInv

\* Every step keeps the feed in order, and the view does not go back.
LEMMA NextFeeds == IInv /\ FeedInv /\ [Next]_vars => FeedInv' /\ view' >= view
<1>1. SUFFICES ASSUME IInv, FeedInv, [Next]_vars PROVE FeedInv' /\ view' >= view
  OBVIOUS
<1>2. CASE Timer
  <2>1. UNCHANGED <<view, status, link, conn>>
    BY <1>2 DEF Timer, TakeTick, SubmitTick, TickFails, DiscardBatch, client
  <2>2. QED BY <1>1, <2>1, FeedUnchanged
<1>3. CASE Desktop
  BY <1>1, <1>3, DialFeeds, ReceiveFeeds, SendsHushed DEF Desktop
<1>4. CASE Environment
  <2>1. CASE \/ ViewerSpeaks \/ ViewerWrites \/ SwitchMode \/ BeginStop \/ StopIngest
             \/ EndRoom \/ Recover
    <3>1. UNCHANGED <<view, status, link, conn>>
      BY <2>1 DEF ViewerSpeaks, ViewerWrites, SwitchMode, BeginStop, StopIngest, EndRoom, Recover,
                  client
    <3>2. QED BY <1>1, <3>1, FeedUnchanged
  <2>2. QED BY <1>1, <1>4, <2>1, DropFeeds, PublishFeeds, CrashFeeds DEF Environment
<1>5. CASE \E c \in Conns : Handler(c)
  <2>1. PICK c \in Conns : Handler(c)
    BY <1>5
  <2>2. CASE PersistText(c)
    <3>1. UNCHANGED <<view, status, link, conn>>
      BY <2>2 DEF PersistText, client
    <3>2. QED BY <1>1, <3>1, FeedUnchanged
  <2>3. QED BY <1>1, <2>1, <2>2, SubscribeFeeds, WelcomeFeeds, HangupFeeds, ForwardFeeds,
               ServesHushed, JobsHushed DEF Handler
<1>6. CASE UNCHANGED vars
  <2>1. UNCHANGED <<view, status, link, conn>>
    BY <1>6 DEF vars
  <2>2. QED BY <1>1, <2>1, FeedUnchanged
<1>7. QED BY <1>1, <1>2, <1>3, <1>4, <1>5, <1>6 DEF Next

\* The desktop never shows an older status than it has shown (NeverGoesBack):
\* the status read for backend.ready after the subscription, the queue that
\* drops its oldest, the check of what was sent, and a new connection after a
\* lost one (_forward_statuses, applySession) keep the statuses in order.
THEOREM TheViewNeverGoesBack == Spec => NeverGoesBack
<1>1. Init => IInv /\ FeedInv
  BY InitHolds, FeedBegins
<1>2. IInv /\ FeedInv /\ [Next]_vars => IInv' /\ FeedInv'
  BY NextKeeps, NextFeeds
<1>3. IInv /\ FeedInv /\ [Next]_vars => [Topic = "feed" => view' >= view]_vars
  BY NextFeeds
<1>4. QED BY <1>1, <1>2, <1>3, PTL DEF Spec, NeverGoesBack
=============================================================================
