--------------------------- MODULE VoiceTurns_proofs ---------------------------
(***************************************************************************)
(* Proofs about VoiceTurns, for any finite streams, turns and numbers of   *)
(* attempts: every final is credited to the audio it was made of and turns *)
(* are kept, and a turn is heard at most once.                             *)
(***************************************************************************)
EXTENDS VoiceTurns, SequenceTheorems, FiniteSetTheorems, TLAPS

----------------------------------------------------------------------------
(* Numbers and queues.                                                     *)

\* The order of the numbers, as a relation.
Less == {p \in Nat \X Nat : p[1] < p[2]}

\* A set of numbers that is not empty has a least one.
LEMMA MinExists ==
  ASSUME NEW S \in SUBSET Nat, S # {}
  PROVE  Min(S) \in S /\ \A x \in S : Min(S) <= x
<1>1. IsWellFoundedOn(Less, Nat)
  BY NatLessThanWellFounded DEF OpToRel, Less
<1>2. PICK m \in S : \A n \in S : ~(<<n, m>> \in Less)
  BY <1>1, WFMin
<1>3. ASSUME NEW n \in S PROVE m <= n
  <2>1. n \in Nat /\ m \in Nat
    OBVIOUS
  <2>2. n < m => <<n, m>> \in Less
    BY <2>1 DEF Less
  <2>3. QED BY <1>2, <2>1, <2>2
<1>4. QED BY <1>3 DEF Min

\* x stands somewhere before y.
Before(q, x, y) == \E i, j \in DOMAIN q : i < j /\ q[i] = x /\ q[j] = y

\* Who is in a queue, and where.
LEMMA Places ==
  ASSUME NEW S, NEW q \in Seq(S)
  PROVE  /\ Len(q) \in Nat /\ DOMAIN q = 1..Len(q)
         /\ \A i \in 1..Len(q) : q[i] \in S /\ q[i] \in ToSet(q)
         /\ \A x : x \in ToSet(q) <=> \E i \in 1..Len(q) : q[i] = x
         /\ ToSet(q) \subseteq S
BY LenProperties DEF ToSet

\* A queue with one more at its end.
LEMMA AppendFacts ==
  ASSUME NEW S, NEW q \in Seq(S), NEW e \in S
  PROVE  /\ Append(q, e) \in Seq(S) /\ Len(Append(q, e)) = Len(q) + 1
         /\ \A i \in 1..Len(q) : Append(q, e)[i] = q[i]
         /\ Append(q, e)[Len(q) + 1] = e
         /\ ToSet(Append(q, e)) = ToSet(q) \cup {e}
         /\ DOMAIN q \subseteq DOMAIN Append(q, e)
<1>1. /\ Append(q, e) \in Seq(S) /\ Len(Append(q, e)) = Len(q) + 1
      /\ \A i \in 1..Len(q) : Append(q, e)[i] = q[i]
      /\ Append(q, e)[Len(q) + 1] = e /\ Len(q) \in Nat
  BY AppendProperties
<1>2. \A x : x \in ToSet(q) <=> \E i \in 1..Len(q) : q[i] = x
  BY Places
<1>3. \A x : x \in ToSet(Append(q, e)) <=> \E i \in 1..Len(q)+1 : Append(q, e)[i] = x
  <2>1. PICK a \in Seq(S) : a = Append(q, e)
    BY <1>1
  <2>2. \A x : x \in ToSet(a) <=> \E i \in 1..Len(a) : a[i] = x
    BY Places
  <2>3. QED BY <1>1, <2>1, <2>2
<1>4. \A x : x \in ToSet(Append(q, e)) <=> x \in ToSet(q) \/ x = e
  BY <1>1, <1>2, <1>3
<1>5. DOMAIN q = 1..Len(q) /\ DOMAIN Append(q, e) = 1..Len(q)+1
  BY <1>1, Places
<1>6. ToSet(Append(q, e)) = ToSet(q) \cup {e}
  BY <1>4, Zenon
<1>7. DOMAIN q \subseteq DOMAIN Append(q, e)
  BY <1>1, <1>5
<1>8. QED BY <1>1, <1>6, <1>7

\* A queue without its first.
LEMMA TailFacts ==
  ASSUME NEW S, NEW q \in Seq(S), q # <<>>
  PROVE  /\ Tail(q) \in Seq(S) /\ Len(Tail(q)) = Len(q) - 1 /\ Len(q) \in Nat \ {0}
         /\ \A i \in 1..Len(q)-1 : Tail(q)[i] = q[i+1]
         /\ Head(q) = q[1] /\ Head(q) \in ToSet(q) /\ Head(q) \in S
         /\ ToSet(q) = {Head(q)} \cup ToSet(Tail(q))
<1>1. /\ Tail(q) \in Seq(S) /\ Len(Tail(q)) = Len(q) - 1 /\ Len(q) \in Nat \ {0}
      /\ \A i \in 1..Len(q)-1 : Tail(q)[i] = q[i+1]
      /\ Head(q) = q[1] /\ Head(q) \in S
  BY HeadTailProperties, EmptySeq, LenProperties
<1>2. \A x : x \in ToSet(q) <=> \E i \in 1..Len(q) : q[i] = x
  BY Places
<1>3. \A x : x \in ToSet(Tail(q)) <=> \E i \in 1..Len(q)-1 : Tail(q)[i] = x
  <2>1. PICK a \in Seq(S) : a = Tail(q)
    BY <1>1
  <2>2. \A x : x \in ToSet(a) <=> \E i \in 1..Len(a) : a[i] = x
    BY Places
  <2>3. QED BY <1>1, <2>1, <2>2
<1>4. ASSUME NEW x PROVE x \in ToSet(q) <=> x = Head(q) \/ x \in ToSet(Tail(q))
  <2>1. ASSUME x \in ToSet(q) PROVE x = Head(q) \/ x \in ToSet(Tail(q))
    <3>1. PICK i \in 1..Len(q) : q[i] = x
      BY <1>2, <2>1
    <3>2. CASE i = 1
      BY <1>1, <3>1, <3>2
    <3>3. CASE i # 1
      <4>1. i - 1 \in 1..Len(q)-1 /\ i = (i - 1) + 1
        BY <1>1, <3>3
      <4>2. Tail(q)[i-1] = q[i]
        BY <1>1, <4>1
      <4>3. QED BY <1>3, <3>1, <4>1, <4>2
    <3>4. QED BY <3>2, <3>3
  <2>2. ASSUME x \in ToSet(Tail(q)) PROVE x \in ToSet(q)
    <3>1. PICK i \in 1..Len(q)-1 : Tail(q)[i] = x
      BY <1>3, <2>2
    <3>2. i + 1 \in 1..Len(q)
      BY <1>1
    <3>3. QED BY <1>1, <1>2, <3>1, <3>2
  <2>3. ASSUME x = Head(q) PROVE x \in ToSet(q)
    <3>1. 1 \in 1..Len(q)
      BY <1>1
    <3>2. QED BY <1>1, <1>2, <2>3, <3>1
  <2>4. QED BY <2>1, <2>2, <2>3
<1>5. ToSet(q) = {Head(q)} \cup ToSet(Tail(q)) /\ Head(q) \in ToSet(q)
  BY <1>4, Zenon
<1>6. QED BY <1>1, <1>5

\* Where the search finds an element that is in the queue.
LEMMA Found ==
  ASSUME NEW S, NEW q \in Seq(S), NEW x, x \in ToSet(q)
  PROVE  LET k == SelectInSeq(q, LAMBDA y : y = x) IN k \in 1..Len(q) /\ q[k] = x
<1> DEFINE k == SelectInSeq(q, LAMBDA y : y = x)
           I == {j \in 1..Len(q) : q[j] = x}
<1>1. PICK i \in 1..Len(q) : q[i] = x
  BY Places
<1>2. Len(q) \in Nat /\ I # {} /\ I \in SUBSET Nat
  BY <1>1, Places
<1>3. k = Min(I)
  BY <1>2 DEF SelectInSeq
<1>4. Min(I) \in I
  BY <1>2, MinExists
<1>5. QED BY <1>3, <1>4

\* What follows a place of a queue.
LEMMA SubSeqFacts ==
  ASSUME NEW S, NEW q \in Seq(S), NEW k \in 1..Len(q)
  PROVE  /\ SubSeq(q, k + 1, Len(q)) \in Seq(S) /\ Len(SubSeq(q, k + 1, Len(q))) = Len(q) - k
         /\ \A i \in 1..Len(q)-k : SubSeq(q, k + 1, Len(q))[i] = q[i + k]
<1>0. Len(q) \in Nat /\ \A i \in 1..Len(q) : q[i] \in S
  BY Places
<1>1. CASE k = Len(q)
  BY <1>0, <1>1
<1>2. CASE k < Len(q)
  <2>1. k + 1 \in Int /\ Len(q) \in Int /\ k + 1 <= Len(q) /\ \A i \in k+1..Len(q) : q[i] \in S
    BY <1>0, <1>2
  <2>2. /\ SubSeq(q, k + 1, Len(q)) \in Seq(S)
        /\ Len(SubSeq(q, k + 1, Len(q))) = Len(q) - (k + 1) + 1
        /\ \A i \in 1..Len(q)-(k+1)+1 : SubSeq(q, k + 1, Len(q))[i] = q[k + 1 + i - 1]
    BY <2>1, SubSeqProperties
  <2>3. Len(q) - (k + 1) + 1 = Len(q) - k
    BY <1>0
  <2>4. \A i \in 1..Len(q)-k : k + 1 + i - 1 = i + k
    BY <1>0
  <2>5. QED BY <2>2, <2>3, <2>4
<1>3. QED BY <1>0, <1>1, <1>2

\* The audio that is consumed is in the queue, or nothing happens.
LEMMA AfterCases ==
  ASSUME NEW S, NEW q \in Seq(S), NEW x
  PROVE  \/ x \notin ToSet(q) /\ After(q, x) = q
         \/ \E k \in 1..Len(q) : q[k] = x /\ After(q, x) = SubSeq(q, k + 1, Len(q))
<1>1. CASE x \notin ToSet(q)
  BY <1>1 DEF After
<1>2. CASE x \in ToSet(q)
  <2> DEFINE k == SelectInSeq(q, LAMBDA y : y = x)
  <2>1. k \in 1..Len(q) /\ q[k] = x
    BY <1>2, Found
  <2>2. After(q, x) = SubSeq(q, k + 1, Len(q))
    BY <1>2 DEF After
  <2> HIDE DEF k
  <2>3. QED BY <2>1, <2>2
<1>3. QED BY <1>1, <1>2

\* Taking a place out of a queue without repetitions, and all before it: what came
\* after it stays, in its order.
LEMMA AfterFacts ==
  ASSUME NEW S, NEW q \in Seq(S), IsInjective(q), NEW x
  PROVE  /\ After(q, x) \in Seq(S) /\ IsInjective(After(q, x))
         /\ ToSet(After(q, x)) \subseteq ToSet(q)
         /\ \A y : Before(q, x, y) => y \in ToSet(After(q, x))
         /\ \A y, z : Before(q, x, y) /\ Before(q, y, z) => Before(After(q, x), y, z)
<1>0. /\ Len(q) \in Nat /\ DOMAIN q = 1..Len(q)
      /\ \A i \in 1..Len(q) : q[i] \in S
      /\ \A y : y \in ToSet(q) <=> \E i \in 1..Len(q) : q[i] = y
  BY Places
<1>1. \A i, j \in 1..Len(q) : q[i] = q[j] => i = j
  BY <1>0 DEF IsInjective
<1>2. CASE x \notin ToSet(q)
  <2>1. After(q, x) = q
    BY <1>2 DEF After
  <2>2. \A y : ~Before(q, x, y)
    BY <1>0, <1>2 DEF Before
  <2>3. QED BY <2>1, <2>2
<1>3. CASE x \in ToSet(q)
  <2>1. PICK k \in 1..Len(q) : q[k] = x /\ After(q, x) = SubSeq(q, k + 1, Len(q))
    BY <1>3, AfterCases
  <2> DEFINE r == After(q, x)
  <2>3. r \in Seq(S) /\ Len(r) = Len(q) - k /\ \A i \in 1..Len(q)-k : r[i] = q[i + k]
    BY <2>1, SubSeqFacts
  <2> HIDE DEF r
  <2>4. DOMAIN r = 1..Len(q)-k /\ Len(q) - k \in Nat
    BY <1>0, <2>1, <2>3, Places
  <2>5. \A y : y \in ToSet(r) <=> \E i \in 1..Len(q)-k : r[i] = y
    BY <2>3, Places
  <2>6. \A i \in 1..Len(q)-k : i + k \in 1..Len(q)
    BY <1>0, <2>1
  <2>7. IsInjective(r)
    <3>1. ASSUME NEW i \in 1..Len(q)-k, NEW j \in 1..Len(q)-k, r[i] = r[j] PROVE i = j
      <4>1. q[i + k] = q[j + k] /\ i + k \in 1..Len(q) /\ j + k \in 1..Len(q)
        BY <2>3, <2>6, <3>1
      <4>2. i + k = j + k
        BY <1>1, <4>1
      <4>3. QED BY <1>0, <2>1, <4>2
    <3>2. QED BY <2>4, <3>1 DEF IsInjective
  <2>8. ToSet(r) \subseteq ToSet(q)
    BY <1>0, <2>3, <2>5, <2>6
  <2>9. ASSUME NEW y, Before(q, x, y)
        PROVE  \E i \in 1..Len(q)-k : r[i] = y /\ q[i + k] = y
    <3>1. PICK i \in 1..Len(q), j \in 1..Len(q) : i < j /\ q[i] = x /\ q[j] = y
      BY <1>0, <2>9 DEF Before
    <3>2. i = k
      BY <1>1, <2>1, <3>1
    <3>3. j - k \in 1..Len(q)-k /\ (j - k) + k = j
      BY <1>0, <2>1, <3>1, <3>2
    <3>4. QED BY <2>3, <3>1, <3>3
  <2>10. ASSUME NEW y, NEW z, Before(q, x, y), Before(q, y, z) PROVE Before(r, y, z)
    <3>1. PICK i \in 1..Len(q)-k : r[i] = y /\ q[i + k] = y
      BY <2>9, <2>10
    <3>2. PICK a \in 1..Len(q), b \in 1..Len(q) : a < b /\ q[a] = y /\ q[b] = z
      BY <1>0, <2>10 DEF Before
    <3>3. a = i + k
      BY <1>1, <2>6, <3>1, <3>2
    <3>4. b - k \in 1..Len(q)-k /\ (b - k) + k = b /\ i < b - k
      BY <1>0, <2>1, <3>2, <3>3
    <3>5. r[b - k] = z
      BY <2>3, <3>2, <3>4
    <3>6. QED BY <2>4, <3>1, <3>4, <3>5 DEF Before
  <2>11. QED BY <2>3, <2>5, <2>7, <2>8, <2>9, <2>10 DEF r
<1>4. QED BY <1>2, <1>3
-----------------------------------------------------------------------------
(* The audio of one source: what the client has not sent, what the recogniser *)
(* has, what waits for its final.  done are the finals the code has handled.  *)

\* Whatever of a is not handled comes after x.
Leads(p, x, a, done) == \A y \in ToSet(a) \ done : Before(p, x, y)

\* Unsent audio is new; audio without a handled final waits in p, in the order of a.
InOrder(u, a, p, done) ==
    /\ IsInjective(u) /\ IsInjective(p)
    /\ \A s \in ToSet(u) : s \notin ToSet(a) /\ s \notin ToSet(p) /\ s \notin done
    /\ \A s \in ToSet(a) \ done : s \in ToSet(p)
    /\ \A i, j \in DOMAIN a :
         i < j /\ a[i] \notin done /\ a[j] \notin done => Before(p, a[i], a[j])

\* A commit registers the audio last on both sides.
LEMMA SubmitKeepsOrder ==
  ASSUME NEW S, NEW u \in Seq(S), NEW a \in Seq(S), NEW p \in Seq(S), NEW done,
         InOrder(u, a, p, done), u # <<>>
  PROVE  /\ InOrder(Tail(u), Append(a, Head(u)), Append(p, Head(u)), done)
         /\ Head(u) \notin done
         /\ \A x \in ToSet(p) : Leads(p, x, a, done)
              => Leads(Append(p, Head(u)), x, Append(a, Head(u)), done)
<1> DEFINE s == Head(u)
           b == Append(a, s)
           r == Append(p, s)
           v == Tail(u)
<1>1. /\ v \in Seq(S) /\ s \in S /\ s \in ToSet(u) /\ s = u[1]
      /\ Len(v) = Len(u) - 1 /\ Len(u) \in Nat \ {0}
      /\ \A i \in 1..Len(u)-1 : v[i] = u[i+1]
      /\ ToSet(v) \subseteq ToSet(u)
  BY TailFacts
<1> HIDE DEF s, v
<1>2. /\ b \in Seq(S) /\ Len(b) = Len(a) + 1 /\ b[Len(a) + 1] = s
      /\ \A i \in 1..Len(a) : b[i] = a[i]
      /\ ToSet(b) = ToSet(a) \cup {s}
  BY <1>1, AppendFacts
<1>3. /\ r \in Seq(S) /\ Len(r) = Len(p) + 1 /\ r[Len(p) + 1] = s
      /\ \A i \in 1..Len(p) : r[i] = p[i]
      /\ ToSet(r) = ToSet(p) \cup {s}
  BY <1>1, AppendFacts
<1> HIDE DEF b, r
<1>4. /\ Len(u) \in Nat /\ DOMAIN u = 1..Len(u) /\ Len(a) \in Nat /\ DOMAIN a = 1..Len(a)
      /\ Len(p) \in Nat /\ DOMAIN p = 1..Len(p)
      /\ \A x : x \in ToSet(p) <=> \E i \in 1..Len(p) : p[i] = x
      /\ \A i \in 1..Len(a) : a[i] \in ToSet(a)
  BY Places
<1>5. /\ DOMAIN v = 1..Len(v) /\ DOMAIN b = 1..Len(b) /\ DOMAIN r = 1..Len(r)
      /\ \A x : x \in ToSet(v) <=> \E i \in 1..Len(v) : v[i] = x
  BY <1>1, <1>2, <1>3, Places
<1>6. s \notin ToSet(a) /\ s \notin ToSet(p) /\ s \notin done
  BY <1>1 DEF InOrder
<1>7. IsInjective(v) /\ s \notin ToSet(v)
  <2>1. \A i, j \in 1..Len(u) : u[i] = u[j] => i = j
    BY <1>4 DEF InOrder, IsInjective
  <2>2. ASSUME NEW i \in 1..Len(v), NEW j \in 1..Len(v), v[i] = v[j] PROVE i = j
    <3>1. i + 1 \in 1..Len(u) /\ j + 1 \in 1..Len(u) /\ u[i+1] = u[j+1]
      BY <1>1, <2>2
    <3>2. i + 1 = j + 1
      BY <2>1, <3>1
    <3>3. QED BY <1>1, <3>2
  <2>3. ASSUME NEW i \in 1..Len(v), v[i] = s PROVE FALSE
    <3>1. i + 1 \in 1..Len(u) /\ 1 \in 1..Len(u) /\ u[i+1] = u[1]
      BY <1>1, <2>3
    <3>2. i + 1 = 1
      BY <2>1, <3>1
    <3>3. QED BY <1>1, <3>2
  <2>4. QED BY <1>5, <2>2, <2>3 DEF IsInjective
<1>8. IsInjective(r)
  <2>1. \A i, j \in 1..Len(p) : p[i] = p[j] => i = j
    BY <1>4 DEF InOrder, IsInjective
  <2>2. \A i \in 1..Len(r) : i \in 1..Len(p) \/ i = Len(p) + 1
    BY <1>3, <1>4
  <2>3. \A i \in 1..Len(p) : r[i] # s
    BY <1>3, <1>4, <1>6
  <2>4. ASSUME NEW i \in 1..Len(r), NEW j \in 1..Len(r), r[i] = r[j] PROVE i = j
    BY <1>3, <2>1, <2>2, <2>3, <2>4
  <2>5. QED BY <1>5, <2>4 DEF IsInjective
<1>9. \A x, y : Before(p, x, y) => Before(r, x, y)
  <2>1. ASSUME NEW x, NEW y, Before(p, x, y) PROVE Before(r, x, y)
    <3>1. PICK i \in 1..Len(p), j \in 1..Len(p) : i < j /\ p[i] = x /\ p[j] = y
      BY <1>4, <2>1 DEF Before
    <3>2. i \in 1..Len(r) /\ j \in 1..Len(r) /\ r[i] = x /\ r[j] = y
      BY <1>3, <1>4, <3>1
    <3>3. QED BY <1>5, <3>1, <3>2 DEF Before
  <2>2. QED BY <2>1
<1>10. \A x \in ToSet(p) : Before(r, x, s)
  <2>1. ASSUME NEW x \in ToSet(p) PROVE Before(r, x, s)
    <3>1. PICK i \in 1..Len(p) : p[i] = x
      BY <1>4
    <3>2. i \in 1..Len(r) /\ Len(p) + 1 \in 1..Len(r) /\ i < Len(p) + 1 /\ r[i] = x
      BY <1>3, <1>4, <3>1
    <3>3. QED BY <1>3, <1>5, <3>2 DEF Before
  <2>2. QED BY <2>1
<1>11. \A x \in ToSet(v) : x \notin ToSet(b) /\ x \notin ToSet(r) /\ x \notin done
  BY <1>1, <1>2, <1>3, <1>7 DEF InOrder
<1>12. \A x \in ToSet(b) \ done : x \in ToSet(r)
  BY <1>2, <1>3 DEF InOrder
<1>13. ASSUME NEW i \in 1..Len(b), NEW j \in 1..Len(b), i < j, b[i] \notin done, b[j] \notin done
       PROVE  Before(r, b[i], b[j])
  <2>1. i \in 1..Len(a) /\ b[i] = a[i]
    BY <1>2, <1>4, <1>13
  <2>2. CASE j \in 1..Len(a)
    <3>1. b[j] = a[j]
      BY <1>2, <2>2
    <3>2. Before(p, a[i], a[j])
      BY <1>4, <1>13, <2>1, <2>2, <3>1 DEF InOrder
    <3>3. QED BY <1>9, <2>1, <3>1, <3>2
  <2>3. CASE j \notin 1..Len(a)
    <3>1. b[j] = s
      <4>1. j = Len(a) + 1
        BY <1>2, <1>4, <2>3
      <4>2. QED BY <1>2, <4>1
    <3>2. a[i] \in ToSet(p)
      BY <1>4, <1>13, <2>1 DEF InOrder
    <3>3. QED BY <1>10, <2>1, <3>1, <3>2
  <2>4. QED BY <2>2, <2>3
<1>14. InOrder(v, b, r, done)
  BY <1>5, <1>7, <1>8, <1>11, <1>12, <1>13 DEF InOrder
<1>15. \A x \in ToSet(p) : Leads(p, x, a, done) => Leads(r, x, b, done)
  BY <1>2, <1>9, <1>10 DEF Leads
<1>16. QED BY <1>6, <1>14, <1>15 DEF s, b, r, v

\* The recogniser gives its oldest segment back: it comes before all the others.
LEMMA TakeKeepsOrder ==
  ASSUME NEW S, NEW u \in Seq(S), NEW a \in Seq(S), NEW p \in Seq(S), NEW done,
         InOrder(u, a, p, done), a # <<>>
  PROVE  /\ InOrder(u, Tail(a), p, done)
         /\ Head(a) \notin done => Head(a) \in ToSet(p) /\ Leads(p, Head(a), Tail(a), done)
         /\ Head(a) \notin ToSet(u)
         /\ \A x : Leads(p, x, a, done) => Leads(p, x, Tail(a), done)
<1> DEFINE b == Tail(a)
<1>1. /\ b \in Seq(S) /\ Head(a) \in ToSet(a) /\ Head(a) = a[1]
      /\ Len(b) = Len(a) - 1 /\ Len(a) \in Nat \ {0}
      /\ \A i \in 1..Len(a)-1 : b[i] = a[i+1]
      /\ ToSet(b) \subseteq ToSet(a)
  BY TailFacts
<1> HIDE DEF b
<1>2. /\ DOMAIN a = 1..Len(a) /\ DOMAIN b = 1..Len(b)
      /\ \A x : x \in ToSet(b) <=> \E i \in 1..Len(b) : b[i] = x
  BY <1>1, Places
<1>3. \A i, j \in 1..Len(a) : i < j /\ a[i] \notin done /\ a[j] \notin done => Before(p, a[i], a[j])
  BY <1>2 DEF InOrder
<1>4. \A i \in 1..Len(b) : i + 1 \in 1..Len(a) /\ 1 < i + 1 /\ b[i] = a[i+1]
  BY <1>1
<1>5. ASSUME NEW i \in 1..Len(b), NEW j \in 1..Len(b), i < j, b[i] \notin done, b[j] \notin done
      PROVE  Before(p, b[i], b[j])
  <2>1. i + 1 < j + 1
    BY <1>1, <1>5
  <2>2. QED BY <1>3, <1>4, <1>5, <2>1
<1>6. InOrder(u, b, p, done)
  BY <1>1, <1>2, <1>5 DEF InOrder
<1>7. ASSUME Head(a) \notin done PROVE Head(a) \in ToSet(p) /\ Leads(p, Head(a), b, done)
  <2>1. 1 \in 1..Len(a)
    BY <1>1
  <2>2. ASSUME NEW y \in ToSet(b) \ done PROVE Before(p, Head(a), y)
    <3>1. PICK i \in 1..Len(b) : b[i] = y
      BY <1>2
    <3>2. Before(p, a[1], a[i+1])
      BY <1>1, <1>3, <1>4, <1>7, <2>1, <3>1
    <3>3. QED BY <1>1, <1>4, <3>1, <3>2
  <2>3. QED BY <1>1, <1>7, <2>2 DEF InOrder, Leads
<1>8. QED BY <1>1, <1>6, <1>7 DEF b, InOrder, Leads

\* The client gives an input up.
LEMMA GiveUpKeepsOrder ==
  ASSUME NEW S, NEW u \in Seq(S), NEW a \in Seq(S), NEW p \in Seq(S), NEW done,
         InOrder(u, a, p, done), u # <<>>
  PROVE  InOrder(Tail(u), a, p, done)
<1> DEFINE v == Tail(u)
<1>1. /\ v \in Seq(S) /\ ToSet(v) \subseteq ToSet(u) /\ Len(v) = Len(u) - 1 /\ Len(u) \in Nat \ {0}
      /\ \A i \in 1..Len(u)-1 : v[i] = u[i+1]
  BY TailFacts
<1> HIDE DEF v
<1>2. DOMAIN u = 1..Len(u) /\ DOMAIN v = 1..Len(v)
  BY <1>1, Places
<1>3. \A i, j \in 1..Len(u) : u[i] = u[j] => i = j
  BY <1>2 DEF InOrder, IsInjective
<1>4. ASSUME NEW i \in 1..Len(v), NEW j \in 1..Len(v), v[i] = v[j] PROVE i = j
  <2>1. i + 1 \in 1..Len(u) /\ j + 1 \in 1..Len(u) /\ u[i+1] = u[j+1]
    BY <1>1, <1>4
  <2>2. i + 1 = j + 1
    BY <1>3, <2>1
  <2>3. QED BY <1>1, <2>2
<1>5. IsInjective(v)
  BY <1>2, <1>4 DEF IsInjective
<1>6. QED BY <1>1, <1>5 DEF v, InOrder

\* A final that comes a second time does not count.
LEMMA ResendKeepsOrder ==
  ASSUME NEW S, NEW u \in Seq(S), NEW a \in Seq(S), NEW p \in Seq(S), NEW done,
         InOrder(u, a, p, done), NEW s \in S, s \in done
  PROVE  /\ InOrder(u, Append(a, s), p, done)
         /\ \A x : Leads(p, x, a, done) => Leads(p, x, Append(a, s), done)
<1> DEFINE b == Append(a, s)
<1>1. /\ b \in Seq(S) /\ Len(b) = Len(a) + 1 /\ b[Len(a) + 1] = s
      /\ \A i \in 1..Len(a) : b[i] = a[i]
      /\ ToSet(b) = ToSet(a) \cup {s}
  BY AppendFacts
<1> HIDE DEF b
<1>2. DOMAIN a = 1..Len(a) /\ DOMAIN b = 1..Len(b) /\ Len(a) \in Nat
  BY <1>1, Places
<1>3. \A i \in 1..Len(b) : b[i] \notin done => i \in 1..Len(a) /\ b[i] = a[i]
  <2>1. \A i \in 1..Len(b) : i \in 1..Len(a) \/ i = Len(a) + 1
    BY <1>1, <1>2
  <2>2. QED BY <1>1, <2>1
<1>4. \A i, j \in DOMAIN b :
        i < j /\ b[i] \notin done /\ b[j] \notin done => Before(p, b[i], b[j])
  BY <1>2, <1>3 DEF InOrder
<1>5. QED BY <1>1, <1>4 DEF b, InOrder, Leads

\* A final is handled: its audio leaves, with all that came before it.
LEMMA ConsumeKeepsOrder ==
  ASSUME NEW S, NEW u \in Seq(S), NEW a \in Seq(S), NEW p \in Seq(S), NEW done,
         InOrder(u, a, p, done), NEW x, Leads(p, x, a, done)
  PROVE  InOrder(u, a, After(p, x), done)
<1> DEFINE r == After(p, x)
<1>1. /\ r \in Seq(S) /\ IsInjective(r) /\ ToSet(r) \subseteq ToSet(p)
      /\ \A y : Before(p, x, y) => y \in ToSet(r)
      /\ \A y, z : Before(p, x, y) /\ Before(p, y, z) => Before(r, y, z)
  BY AfterFacts DEF InOrder
<1> HIDE DEF r
<1>2. DOMAIN a = 1..Len(a) /\ \A i \in 1..Len(a) : a[i] \in ToSet(a)
  BY Places
<1>3. ASSUME NEW i \in 1..Len(a), NEW j \in 1..Len(a), i < j, a[i] \notin done, a[j] \notin done
      PROVE  Before(r, a[i], a[j])
  BY <1>1, <1>2, <1>3 DEF InOrder, Leads
<1>4. \A s \in ToSet(a) \ done : s \in ToSet(r)
  BY <1>1 DEF Leads
<1>5. QED BY <1>1, <1>2, <1>3, <1>4 DEF r, InOrder

\* Another final counts as handled.
LEMMA DoneKeepsOrder ==
  ASSUME NEW u, NEW a, NEW p, NEW done, InOrder(u, a, p, done), NEW x, x \notin ToSet(u)
  PROVE  InOrder(u, a, p, done \cup {x})
BY DEF InOrder
-----------------------------------------------------------------------------
(* The inductive invariant.                                                *)

\* A turn, the free voice turn, the consumer of finals and a round on its way.
TurnRec == [committed : SUBSET Sources, completed : SUBSET Sources,
            events : SUBSET Segments, timer : {"none", "expire", "finalize"}]
VoiceRec == [events : SUBSET Segments, armed : BOOLEAN]
ConsumerRec == [at : {"idle", "append", "again", "finish", "trigger"},
                seg : Segments \cup {None}, audio : Segments \cup {None},
                attempt : 1..MaxAttempts]
CarrierRec == [events : SUBSET Segments, at : {"decide", "submit"}]

\* The shape of every variable.
Typed ==
    /\ session \in {"running", "paused", "stopping", "stopped"}
    /\ unsent \in [Sources -> Seq(Segments)]
    /\ asr \in [Sources -> Seq(Segments)]
    /\ pending \in [Sources -> Seq(Segments)]
    /\ turns \in [Turns -> TurnRec \cup {None}]
    /\ voice \in VoiceRec \cup {None}
    /\ consumer \in ConsumerRec
    /\ seen \subseteq Segments /\ resent \subseteq Segments
    /\ spoken \in [Segments -> Nat] /\ heard \in [Segments -> Nat]
    /\ delta \subseteq Segments /\ dropped \subseteq Segments
    /\ flush \in BOOLEAN /\ cooldown \in {"never", "cooling", "over"}
    /\ carriers \in SUBSET CarrierRec

\* The consumer has a final in its hands.
Working == consumer.at \in {"append", "again", "finish"}

\* Audio stays in the order of its source, and the final at hand is credited to
\* its own audio.
QueueSound(src) ==
    /\ ToSet(unsent[src]) \subseteq From(src)
    /\ ToSet(asr[src]) \subseteq From(src)
    /\ InOrder(unsent[src], asr[src], pending[src], seen)

\* Both sources, and the final at hand.
Fifo ==
    /\ \A src \in Sources : QueueSound(src)
    /\ Working =>
         LET src == SourceOf(consumer.seg) IN
         /\ consumer.seg \in Segments \ seen
         /\ consumer.seg \in ToSet(pending[src])
         /\ consumer.audio = consumer.seg
         /\ Leads(pending[src], consumer.seg, asr[src], seen)
    /\ session = "stopped" => consumer.at = "idle"

\* What was written to the room is marked as seen, or is about to be.
Counted ==
    \A s \in Segments :
        /\ spoken[s] \in {0, 1}
        /\ spoken[s] = 1 =>
             \/ session = "stopped" \/ s \in seen
             \/ consumer.at = "finish" /\ consumer.seg = s

\* What a turn, the voice turn and the consumer have gathered.
TurnSound(t, turn, done) ==
    /\ turn.completed \subseteq turn.committed
    /\ \A s \in turn.events : Turn[s] = t /\ s \in done
    /\ turn.timer # "none" <=> Mic \in turn.completed
    /\ Mic \in turn.completed => \E m \in From(Mic) \cap done : Turn[m] = t

\* The same of all turns and timers.
Gathered ==
    /\ \A t \in Turns : turns[t] # None => TurnSound(t, turns[t], seen)
    /\ voice # None =>
         \A s \in voice.events : Turn[s] = NoTurn /\ s \in seen \cap From(Mic)
    /\ consumer.at = "trigger" =>
         consumer.seg \in seen \cap From(Sys) /\ Turn[consumer.seg] = NoTurn
    /\ delta # {} => flush
    /\ session = "stopped" => voice = None /\ \A t \in Turns : turns[t] = None

\* Segments that are to be heard together, and what rounds have taken.
Mates(s, r) == s = r \/ (Turn[s] = Turn[r] /\ Turn[s] # NoTurn)
InRound(s) == \E c \in carriers : s \in c.events
Taken == {s \in Segments : InRound(s) \/ s \in delta \/ heard[s] # 0}

\* The rounds have nothing in common with each other, nor with what was heard.
Apart ==
    /\ \A c, d \in carriers : c # d =>
         \A s \in c.events, r \in d.events : ~Mates(s, r)
    /\ \A c \in carriers : \A s \in delta, r \in c.events : ~Mates(s, r)
    /\ \A s, r \in Segments : (InRound(s) \/ s \in delta) /\ Mates(s, r) => heard[r] = 0

\* What a round has taken, nothing that is still gathered goes with.
Spent ==
    /\ session # "stopped" =>
         \A s \in Taken :
           /\ s \in seen
           /\ Turn[s] # NoTurn =>
                /\ \E m \in From(Mic) \cap seen : Turn[m] = Turn[s]
                /\ turns[Turn[s]] # None => Mic \notin turns[Turn[s]].completed
    /\ voice # None => \A s \in voice.events : s \notin Taken
    /\ consumer.at = "trigger" => consumer.seg \notin Taken

\* The inductive invariant.
IInv == Typed /\ Fifo /\ Counted /\ Gathered /\ Apart /\ Spent

----------------------------------------------------------------------------
(* What single steps do to the books.                                      *)

\* Where a segment and its turn belong.
LEMMA Belongs ==
  /\ Mic \in Sources /\ Sys \in Sources /\ Mic # Sys
  /\ \A src \in Sources : src = Mic \/ src = Sys
  /\ \A src \in Sources : From(src) \subseteq Segments
  /\ \A s \in Segments : SourceOf(s) \in Sources /\ s \in From(SourceOf(s))
  /\ \A src \in Sources : \A s \in From(src) : SourceOf(s) = src
  /\ \A s \in Segments : Turn[s] # NoTurn => Turn[s] \in Turns
  /\ NoTurn \notin Turns
<1>1. \A s \in Segments : s \in From(Mic) \/ s \in From(Sys)
  BY DEF Segments
<1>2. From(Mic) \subseteq Segments /\ From(Sys) \subseteq Segments
  BY DEF Segments
<1>3. \A s : ~(s \in From(Mic) /\ s \in From(Sys))
  BY SegmentsHaveOneSource
<1>4. QED BY <1>1, <1>2, <1>3, SourcesDiffer DEF Sources, SourceOf, Turns

\* The audio a final is credited to.
LEMMA AudioTyped ==
  ASSUME Typed, NEW src \in Sources, NEW s \in Segments
  PROVE  CommittedAudioFor(s, src) \in Segments \cup {None}
<1>1. pending[src] \in Seq(Segments)
  BY DEF Typed
<1>2. pending[src] # <<>> => Head(pending[src]) \in Segments
  BY <1>1, TailFacts
<1>3. QED BY <1>2 DEF CommittedAudioFor

\* What a final of src adds to a turn that stays.
Advanced(turn, src, events, after) ==
    /\ src \in turn.committed
    /\ after.completed = turn.completed \cup {src}
    /\ after.events = turn.events \cup events
    /\ src = Mic => events # {}
    /\ after.timer # "none" \/ after.timer = turn.timer
    /\ src = Mic => after.timer # "none"
    /\ after.timer # turn.timer => Mic \in after.completed

\* What becomes of a turn when the final of one of its sources is done.
LEMMA CompleteFacts ==
  ASSUME NEW t \in Turns, Typed, NEW src \in Sources, NEW events \in SUBSET Segments,
         NEW valid \in BOOLEAN, NEW after, after = CompleteTurn(t, src, events, valid)
  PROVE  /\ after \in TurnRec \cup {None}
         /\ after # None =>
              /\ turns[t] # None /\ turns[t] \in TurnRec
              /\ after.committed = turns[t].committed
              /\ after = turns[t] \/ Advanced(turns[t], src, events, after)
<1> DEFINE turn == turns[t]
           done == [turn EXCEPT !.completed = @ \cup {src}, !.events = @ \cup events]
<1>1. turn \in TurnRec \cup {None}
  BY DEF Typed
<1>2. CASE after = None
  BY <1>2
<1>3. CASE after # None /\ after = turn
  BY <1>1, <1>3
<1>4. CASE after # None /\ after # turn
  <2>1. turn # None /\ turn \in TurnRec
    BY <1>1, <1>4 DEF CompleteTurn
  <2>2. /\ done \in TurnRec /\ done.committed = turn.committed
        /\ done.completed = turn.completed \cup {src}
        /\ done.events = turn.events \cup events /\ done.timer = turn.timer
    BY <2>1 DEF TurnRec
  <2> HIDE DEF done
  <2>3. /\ src \in turn.committed /\ ~(src = Mic /\ events = {})
        /\ after = IF TurnReady(t, done) THEN [done EXCEPT !.timer = "finalize"]
                   ELSE IF src = Mic /\ turn.timer = "none" THEN [done EXCEPT !.timer = "expire"]
                   ELSE done
    BY <1>4, <2>1 DEF CompleteTurn, done
  <2> DEFINE f == [done EXCEPT !.timer = "finalize"]
             e == [done EXCEPT !.timer = "expire"]
  <2>4. /\ f \in TurnRec /\ f.committed = done.committed /\ f.completed = done.completed
        /\ f.events = done.events /\ f.timer = "finalize"
    BY <2>2 DEF TurnRec
  <2>5. /\ e \in TurnRec /\ e.committed = done.committed /\ e.completed = done.completed
        /\ e.events = done.events /\ e.timer = "expire"
    BY <2>2 DEF TurnRec
  <2>6. after = f \/ after = e \/ after = done
    BY <2>3
  <2> HIDE DEF f, e
  <2>7. TurnReady(t, done) => Mic \in done.completed
    BY DEF TurnReady
  <2>8. CASE after = f /\ TurnReady(t, done)
    BY <2>1, <2>2, <2>3, <2>4, <2>7, <2>8 DEF Advanced
  <2>9. CASE after = e /\ src = Mic /\ turn.timer = "none"
    BY <2>1, <2>2, <2>3, <2>5, <2>9 DEF Advanced
  <2>10. CASE after = done /\ ~(src = Mic /\ turn.timer = "none")
    BY <2>1, <2>2, <2>3, <2>10 DEF Advanced
  <2>11. QED BY <2>3, <2>8, <2>9, <2>10 DEF f, e
<1>5. QED BY <1>2, <1>3, <1>4

\* What waits for its final, after one has come.
LEMMA ConsumeTyped ==
  ASSUME Typed, NEW src \in Sources, NEW audio, ConsumeAudio(src, audio)
  PROVE  pending' \in [Sources -> Seq(Segments)]
<1>1. PICK p \in Seq(Segments) : p = pending[src]
  BY DEF Typed
<1>2. \A k \in 1..Len(p) : SubSeq(p, k + 1, Len(p)) \in Seq(Segments)
  BY SubSeqFacts
<1>3. After(p, audio) = p \/ \E k \in 1..Len(p) : After(p, audio) = SubSeq(p, k + 1, Len(p))
  BY AfterCases
<1>4. After(p, audio) \in Seq(Segments)
  BY ONLY <1>2, <1>3
<1>5. QED BY <1>1, <1>4 DEF ConsumeAudio, Typed

-----------------------------------------------------------------------------
\* Types along the steps.
LEMMA FinishTyped ==
  ASSUME Typed, NEW s \in Segments, NEW audio \in Segments \cup {None},
         NEW events \in SUBSET Segments, NEW valid \in BOOLEAN,
         FinishFinal(s, audio, events, valid)
  PROVE  /\ pending' \in [Sources -> Seq(Segments)] /\ turns' \in [Turns -> TurnRec \cup {None}]
         /\ voice' \in VoiceRec \cup {None} /\ consumer' \in ConsumerRec
         /\ seen' \subseteq Segments /\ dropped' \subseteq Segments
<1> DEFINE src == SourceOf(s)
           t == IF audio = None THEN NoTurn ELSE Turn[audio]
           after == CompleteTurn(t, src, events, valid)
<1>1. src \in Sources
  BY Belongs
<1>2. pending' \in [Sources -> Seq(Segments)]
  BY <1>1, ConsumeTyped DEF FinishFinal
<1>3. t = NoTurn \/ t \in Turns
  BY Belongs
<1>4. t # NoTurn => after \in TurnRec \cup {None}
  <2>1. PICK f : f = after
    OBVIOUS
  <2>2. ASSUME t # NoTurn PROVE f \in TurnRec \cup {None}
    <3>1. PICK u \in Turns : u = t
      BY <1>3, <2>2
    <3>2. f = CompleteTurn(u, src, events, valid)
      BY <2>1, <3>1
    <3>3. QED BY <1>1, <3>2, CompleteFacts
  <2>3. QED BY <2>1, <2>2
<1>5. turns' \in [Turns -> TurnRec \cup {None}]
  BY <1>3, <1>4 DEF FinishFinal, Typed
<1>6. voice' \in VoiceRec \cup {None}
  <2>1. \/ voice' = voice
        \/ voice' = [events |-> events \cup (IF voice = None THEN {} ELSE voice.events),
                     armed |-> TRUE]
    BY DEF FinishFinal, QueueVoice
  <2>2. voice \in VoiceRec \cup {None}
    BY DEF Typed
  <2>3. PICK ev \in SUBSET Segments :
          ev = events \cup (IF voice = None THEN {} ELSE voice.events)
    BY <2>2 DEF VoiceRec
  <2>4. [events |-> ev, armed |-> TRUE] \in VoiceRec
    BY DEF VoiceRec
  <2>5. QED BY <2>1, <2>2, <2>3, <2>4
<1>7. consumer' \in ConsumerRec
  <2>1. consumer' = [consumer EXCEPT !.at = "trigger"] \/ consumer' = Idle
    BY DEF FinishFinal
  <2>2. consumer \in ConsumerRec
    BY DEF Typed
  <2>3. Idle \in ConsumerRec
    BY BoundsAreNumbers DEF ConsumerRec, Idle
  <2>4. QED BY <2>1, <2>2, <2>3 DEF ConsumerRec
<1>8. seen' \subseteq Segments
  BY DEF FinishFinal, Typed
<1>9. dropped' \subseteq Segments
  <2>1. \A u \in Turns : turns[u] # None => turns[u].events \subseteq Segments
    BY DEF Typed, TurnRec
  <2>2. dropped' \subseteq dropped \cup events \cup
          (IF t = NoTurn \/ turns[t] = None THEN {} ELSE turns[t].events)
    BY DEF FinishFinal
  <2>3. QED BY <1>3, <2>1, <2>2 DEF Typed
<1>10. QED BY <1>2, <1>5, <1>6, <1>7, <1>8, <1>9

----------------------------------------------------------------------------
(* Types.                                                                  *)

\* The consumer works on a segment.
LEMMA HandTyped ==
  ASSUME Typed, Fifo, Gathered, consumer.at # "idle"
  PROVE  consumer.seg \in Segments /\ consumer.audio \in Segments \cup {None}
<1>1. consumer.at \in {"idle", "append", "again", "finish", "trigger"}
      /\ consumer.audio \in Segments \cup {None} /\ seen \subseteq Segments
  BY DEF Typed, ConsumerRec
<1>2. QED BY <1>1 DEF Fifo, Gathered, Working

\* Dropping a turn.
LEMMA DropTyped ==
  ASSUME Typed, NEW t, DropTurn(t), t \in Turns \cup {NoTurn}
  PROVE  turns' \in [Turns -> TurnRec \cup {None}] /\ dropped' \subseteq Segments
<1>1. \A u \in Turns : turns[u] # None => turns[u].events \subseteq Segments
  BY DEF Typed, TurnRec
<1>2. QED BY <1>1 DEF DropTurn, Typed

\* Every step of the backend keeps the types.
LEMMA TypedBackend ==
  ASSUME Typed, Fifo, Gathered, Backend
  PROVE  Typed'
<1> USE DEF media, cooling
<1>0. \A src \in Sources : asr[src] \in Seq(Segments) /\ (asr[src] # <<>> =>
        Head(asr[src]) \in Segments /\ Tail(asr[src]) \in Seq(Segments))
  <2>1. \A src \in Sources : asr[src] \in Seq(Segments)
    BY DEF Typed
  <2>2. QED BY <2>1, TailFacts
<1>1. ASSUME NEW src \in Sources, TranscriptionFails(src) PROVE Typed'
  BY <1>0, <1>1 DEF TranscriptionFails, Typed
<1>2. ASSUME NEW src \in Sources, IgnoreFinal(src) PROVE Typed'
  BY <1>0, <1>2 DEF IgnoreFinal, TakeFinal, Typed
<1>3. ASSUME NEW src \in Sources, TextFinal(src) PROVE Typed'
  <2>1. PICK s \in Segments : s = Head(asr[src])
    BY <1>0, <1>3 DEF TextFinal, TakeFinal
  <2>2. PICK audio \in Segments \cup {None} : audio = CommittedAudioFor(s, src)
    BY AudioTyped
  <2>3. [at |-> "append", seg |-> s, audio |-> audio, attempt |-> 1] \in ConsumerRec
    BY BoundsAreNumbers DEF ConsumerRec
  <2>4. consumer' \in ConsumerRec
    BY <1>3, <2>1, <2>2, <2>3 DEF TextFinal
  <2>5. QED BY <1>0, <1>3, <2>4 DEF TextFinal, TakeFinal, Typed
<1>4. ASSUME NEW src \in Sources, NEW valid \in BOOLEAN, BlankFinal(src, valid) PROVE Typed'
  <2>1. PICK s \in Segments : s = Head(asr[src])
    BY <1>0, <1>4 DEF BlankFinal, TakeFinal
  <2>2. PICK audio \in Segments \cup {None} : audio = CommittedAudioFor(s, src)
    BY AudioTyped
  <2>3. FinishFinal(s, audio, {}, valid)
    BY <1>4, <2>1, <2>2 DEF BlankFinal
  <2>4. /\ pending' \in [Sources -> Seq(Segments)] /\ turns' \in [Turns -> TurnRec \cup {None}]
        /\ voice' \in VoiceRec \cup {None} /\ consumer' \in ConsumerRec
        /\ seen' \subseteq Segments /\ dropped' \subseteq Segments
    BY <2>3, FinishTyped
  <2>5. QED BY <1>0, <1>4, <2>4 DEF BlankFinal, TakeFinal, Typed
<1>5. ASSUME AppendEvent PROVE Typed'
  <2>1. consumer.seg \in Segments
    BY <1>5, HandTyped DEF AppendEvent
  <2>2. consumer' \in ConsumerRec
    BY <1>5 DEF AppendEvent, Typed, ConsumerRec
  <2>3. spoken' \in [Segments -> Nat]
    BY <1>5, <2>1 DEF AppendEvent, Typed
  <2>4. QED BY <1>5, <2>2, <2>3 DEF AppendEvent, Typed
<1>6. ASSUME AppendFails PROVE Typed'
  <2>1. consumer' \in ConsumerRec
    <3>1. PICK n \in 1..MaxAttempts : n = consumer.attempt
      BY DEF Typed, ConsumerRec
    <3>2. n + 1 \in 1..MaxAttempts
      BY <1>6, <3>1, BoundsAreNumbers DEF AppendFails
    <3>3. consumer' = [consumer EXCEPT !.at = "again", !.attempt = n + 1]
      BY <1>6, <3>1 DEF AppendFails
    <3>4. QED BY <3>2, <3>3 DEF Typed, ConsumerRec
  <2>2. QED BY <1>6, <2>1 DEF AppendFails, Typed
<1>7. ASSUME RetryFinal PROVE Typed'
  <2>1. PICK s \in Segments : s = consumer.seg
    BY <1>7, HandTyped DEF RetryFinal
  <2>2. PICK audio \in Segments \cup {None} : audio = CommittedAudioFor(s, SourceOf(s))
    BY AudioTyped, Belongs
  <2>3. consumer' = [consumer EXCEPT !.at = "append", !.audio = audio] \/ consumer' = Idle
    BY <1>7, <2>1, <2>2 DEF RetryFinal
  <2>4. Idle \in ConsumerRec
    BY BoundsAreNumbers DEF ConsumerRec, Idle
  <2>5. consumer' \in ConsumerRec
    BY <2>3, <2>4 DEF Typed, ConsumerRec
  <2>6. QED BY <1>7, <2>5 DEF RetryFinal, Typed
<1>8. ASSUME DiscardFailedFinal PROVE Typed'
  <2>1. PICK s \in Segments : s = consumer.seg
    BY <1>8, HandTyped DEF DiscardFailedFinal
  <2>2. PICK audio \in Segments \cup {None} : audio = CommittedAudioFor(s, SourceOf(s))
    BY AudioTyped, Belongs
  <2>3. PICK t \in Turns \cup {NoTurn} : t = IF audio = None THEN NoTurn ELSE Turn[audio]
    BY Belongs
  <2>4. DropTurn(t) /\ ConsumeAudio(SourceOf(s), audio)
    BY <1>8, <2>1, <2>2, <2>3 DEF DiscardFailedFinal
  <2>5. turns' \in [Turns -> TurnRec \cup {None}] /\ dropped' \subseteq Segments
    BY <2>4, DropTyped
  <2>6. pending' \in [Sources -> Seq(Segments)]
    BY <2>4, Belongs, ConsumeTyped
  <2>7. Idle \in ConsumerRec
    BY BoundsAreNumbers DEF ConsumerRec, Idle
  <2>8. QED BY <1>8, <2>5, <2>6, <2>7 DEF DiscardFailedFinal, Typed
<1>9. ASSUME FinishTranscript PROVE Typed'
  <2>1. PICK s \in Segments : s = consumer.seg
    BY <1>9, HandTyped DEF FinishTranscript
  <2>2. PICK audio \in Segments \cup {None} : audio = consumer.audio
    BY <1>9, HandTyped DEF FinishTranscript
  <2>3. FinishFinal(s, audio, {s}, TRUE)
    BY <1>9, <2>1, <2>2 DEF FinishTranscript
  <2>4. /\ pending' \in [Sources -> Seq(Segments)] /\ turns' \in [Turns -> TurnRec \cup {None}]
        /\ voice' \in VoiceRec \cup {None} /\ consumer' \in ConsumerRec
        /\ seen' \subseteq Segments /\ dropped' \subseteq Segments
    <3>1. {s} \in SUBSET Segments /\ TRUE \in BOOLEAN
      OBVIOUS
    <3>2. QED BY <2>3, <3>1, FinishTyped
  <2>5. QED BY <1>9, <2>4 DEF FinishTranscript, Typed
<1>10. ASSUME TriggerSystemAudio PROVE Typed'
  <2>1. PICK s \in Segments : s = consumer.seg
    BY <1>10, HandTyped DEF TriggerSystemAudio
  <2>2. Idle \in ConsumerRec
    BY BoundsAreNumbers DEF ConsumerRec, Idle
  <2>3. \/ heard' = heard /\ dropped' = dropped \cup {s}
        \/ heard' = [heard EXCEPT ![s] = @ + 1] /\ dropped' = dropped
    BY <1>10, <2>1 DEF TriggerSystemAudio
  <2>4. heard' \in [Segments -> Nat] /\ dropped' \subseteq Segments
    <3>1. PICK n \in Nat : n = heard[s]
      BY DEF Typed
    <3>2. PICK m \in Nat : m = n + 1
      OBVIOUS
    <3>3. [heard EXCEPT ![s] = m] \in [Segments -> Nat]
      BY DEF Typed
    <3>4. heard' = heard \/ heard' = [heard EXCEPT ![s] = m]
      BY <2>3, <3>1, <3>2
    <3>5. heard' \in [Segments -> Nat]
      BY <3>3, <3>4 DEF Typed
    <3>6. dropped' = dropped \/ dropped' = dropped \cup {s}
      BY <2>3
    <3>7. dropped' \subseteq Segments
      BY <3>6 DEF Typed
    <3>8. QED BY <3>5, <3>7
  <2>5. QED BY <1>10, <2>2, <2>4 DEF TriggerSystemAudio, Typed
<1>11. ASSUME NEW t \in Turns, ExpireTurn(t) \/ FinalizeTurn(t) PROVE Typed'
  <2>1. turns[t] # None /\ turns[t] \in TurnRec
    BY <1>11 DEF ExpireTurn, FinalizeTurn, Typed
  <2>2. PICK ev \in SUBSET Segments : ev = turns[t].events
    BY <2>1 DEF TurnRec
  <2>3. [events |-> ev, at |-> "decide"] \in CarrierRec
    BY DEF CarrierRec
  <2>4. carriers' = carriers \cup {[events |-> ev, at |-> "decide"]}
        /\ turns' = [turns EXCEPT ![t] = None]
    BY <1>11, <2>2 DEF ExpireTurn, FinalizeTurn
  <2>5. carriers' \in SUBSET CarrierRec /\ turns' \in [Turns -> TurnRec \cup {None}]
    BY <2>3, <2>4 DEF Typed
  <2>6. QED BY <1>11, <2>5 DEF ExpireTurn, FinalizeTurn, Typed
<1>12. ASSUME FinalizeVoice PROVE Typed'
  <2>1. PICK ev \in SUBSET Segments : ev = voice.events
    BY <1>12 DEF FinalizeVoice, Typed, VoiceRec
  <2>2. [events |-> ev, at |-> "decide"] \in CarrierRec
    BY DEF CarrierRec
  <2>3. carriers' \in SUBSET CarrierRec
    BY <1>12, <2>1, <2>2 DEF FinalizeVoice, Typed
  <2>4. QED BY <1>12, <2>3 DEF FinalizeVoice, Typed
<1>13. ASSUME FlushCooldown PROVE Typed'
  <2>1. PICK ev \in SUBSET Segments : ev = delta
    BY DEF Typed
  <2>2. [events |-> ev, at |-> "submit"] \in CarrierRec
    BY DEF CarrierRec
  <2>3. carriers' \in SUBSET CarrierRec
    BY <1>13, <2>1, <2>2 DEF FlushCooldown, Typed
  <2>4. QED BY <1>13, <2>3 DEF FlushCooldown, Typed
<1>14. ASSUME CooldownOver PROVE Typed'
  BY <1>14 DEF CooldownOver, Typed
<1>15. ASSUME NEW c \in carriers, ScheduleVoice(c) PROVE Typed'
  <2>1. c.events \in SUBSET Segments /\ delta \in SUBSET Segments
    BY DEF Typed, CarrierRec
  <2>2. PICK ev \in SUBSET Segments : ev = c.events \cup delta
    BY <2>1
  <2>3. [events |-> ev, at |-> "submit"] \in CarrierRec
    BY DEF CarrierRec
  <2>4. carriers' \in SUBSET CarrierRec
    BY <1>15, <2>2, <2>3 DEF ScheduleVoice, StartRound, HoldBack, Typed
  <2>5. delta' \subseteq Segments /\ dropped' \subseteq Segments /\ flush' \in BOOLEAN
        /\ cooldown' \in {"never", "cooling", "over"}
    BY <1>15, <2>1 DEF ScheduleVoice, StartRound, HoldBack, Typed
  <2>6. QED BY <1>15, <2>4, <2>5 DEF ScheduleVoice, Typed
<1>16. ASSUME NEW c \in carriers, ScheduleObservation(c) PROVE Typed'
  <2>1. c.events \in SUBSET Segments
    BY DEF Typed, CarrierRec
  <2>2. heard' \in [Segments -> Nat] /\ dropped' \subseteq Segments /\ carriers' \in SUBSET CarrierRec
    BY <1>16, <2>1 DEF ScheduleObservation, Typed
  <2>3. QED BY <1>16, <2>2 DEF ScheduleObservation, Typed
<1>17. QED
  BY <1>1, <1>2, <1>3, <1>4, <1>5, <1>6, <1>7, <1>8, <1>9, <1>10, <1>11, <1>12, <1>13, <1>14,
     <1>15, <1>16 DEF Backend

\* So does every step of the client, the provider and the session.
LEMMA TypedEnvironment ==
  ASSUME Typed, Environment
  PROVE  Typed'
<1> USE DEF media, cooling
<1>1. ASSUME NEW src \in Sources, SubmitAudio(src) PROVE Typed'
  <2>1. unsent[src] \in Seq(Segments) /\ asr[src] \in Seq(Segments) /\ pending[src] \in Seq(Segments)
    BY DEF Typed
  <2>2. PICK s \in Segments : s = Head(unsent[src]) /\ Tail(unsent[src]) \in Seq(Segments)
    BY <1>1, <2>1, TailFacts DEF SubmitAudio
  <2>3. Append(asr[src], s) \in Seq(Segments) /\ Append(pending[src], s) \in Seq(Segments)
    BY <2>1, AppendFacts
  <2>4. RegisterCommittedAudio(s, src)
    BY <1>1, <2>2 DEF SubmitAudio
  <2>5. turns' \in [Turns -> TurnRec \cup {None}]
    <3>1. CASE Turn[s] = NoTurn
      BY <2>4, <3>1 DEF RegisterCommittedAudio, Typed
    <3>2. CASE Turn[s] # NoTurn
      <4>1. PICK t \in Turns : t = Turn[s]
        BY <3>2, Belongs
      <4>2. NewTurn \in TurnRec
        BY DEF NewTurn, TurnRec
      <4>3. PICK turn \in TurnRec : turn = IF turns[t] = None THEN NewTurn ELSE turns[t]
        BY <4>1, <4>2 DEF Typed
      <4>4. [turn EXCEPT !.committed = @ \cup {src}] \in TurnRec
        BY <4>3 DEF TurnRec
      <4>5. turns' = [turns EXCEPT ![t] = [turn EXCEPT !.committed = @ \cup {src}]]
        BY <2>4, <3>2, <4>1, <4>3 DEF RegisterCommittedAudio
      <4>6. QED BY <4>4, <4>5 DEF Typed
    <3>3. QED BY <3>1, <3>2
  <2>6. pending' \in [Sources -> Seq(Segments)]
    BY <2>3, <2>4 DEF RegisterCommittedAudio, Typed
  <2>7. asr' \in [Sources -> Seq(Segments)] /\ unsent' \in [Sources -> Seq(Segments)]
    BY <1>1, <2>2, <2>3 DEF SubmitAudio, Typed
  <2>8. QED BY <1>1, <2>5, <2>6, <2>7 DEF SubmitAudio, Typed
<1>2. ASSUME NEW src \in Sources, CommitFails(src) PROVE Typed'
  <2>1. unsent[src] \in Seq(Segments)
    BY DEF Typed
  <2>2. PICK s \in Segments : s = Head(unsent[src]) /\ Tail(unsent[src]) \in Seq(Segments)
    BY <1>2, <2>1, TailFacts DEF CommitFails
  <2>3. PICK t \in Turns \cup {NoTurn} : t = Turn[s]
    BY Belongs
  <2>4. DropTurn(t)
    BY <1>2, <2>2, <2>3 DEF CommitFails
  <2>5. turns' \in [Turns -> TurnRec \cup {None}] /\ dropped' \subseteq Segments
    BY <2>4, DropTyped
  <2>6. unsent' \in [Sources -> Seq(Segments)]
    BY <1>2, <2>2 DEF CommitFails, Typed
  <2>7. QED BY <1>2, <2>5, <2>6 DEF CommitFails, Typed
<1>3. ASSUME NotifyVoiceActivity PROVE Typed'
  <2>1. voice' \in VoiceRec
    BY <1>3 DEF NotifyVoiceActivity, Typed, VoiceRec
  <2>2. QED BY <1>3, <2>1 DEF NotifyVoiceActivity, Typed
<1>4. ASSUME NEW s \in Segments, ResendFinal(s) PROVE Typed'
  <2>1. SourceOf(s) \in Sources /\ asr[SourceOf(s)] \in Seq(Segments)
    BY Belongs DEF Typed
  <2>2. Append(asr[SourceOf(s)], s) \in Seq(Segments)
    BY <2>1, AppendFacts
  <2>3. asr' \in [Sources -> Seq(Segments)] /\ resent' \subseteq Segments
    BY <1>4, <2>2 DEF ResendFinal, Typed
  <2>4. QED BY <1>4, <2>3 DEF ResendFinal, Typed
<1>5. ASSUME PauseSession \/ ResumeSession \/ BeginStop PROVE Typed'
  BY <1>5 DEF PauseSession, ResumeSession, BeginStop, Typed
<1>6. ASSUME StopIngest PROVE Typed'
  <2>1. Idle \in ConsumerRec
    BY BoundsAreNumbers DEF ConsumerRec, Idle
  <2>2. <<>> \in Seq(Segments)
    OBVIOUS
  <2>3. QED BY <1>6, <2>1, <2>2 DEF StopIngest, Typed
<1>7. QED BY <1>1, <1>2, <1>3, <1>4, <1>5, <1>6 DEF Environment

----------------------------------------------------------------------------
(* The order of the audio.                                                 *)

\* A final at hand is credited to its own audio: everything older has been handled,
\* or is in the queue before it.
LEMMA OwnAudio ==
  ASSUME NEW s, NEW src, s \in ToSet(pending[src])
  PROVE  CommittedAudioFor(s, src) = s
BY DEF CommittedAudioFor

\* What the queues of a source look like, and what the recogniser gives back.
LEMMA TakeFacts ==
  ASSUME Typed, Fifo, NEW src \in Sources, TakeFinal(src)
  PROVE  /\ Head(asr[src]) \in Segments /\ SourceOf(Head(asr[src])) = src
         /\ session # "stopped" /\ ~Working
         /\ asr' = [asr EXCEPT ![src] = Tail(asr[src])]
         /\ ToSet(Tail(asr[src])) \subseteq From(src)
         /\ InOrder(unsent[src], Tail(asr[src]), pending[src], seen)
         /\ Head(asr[src]) \notin ToSet(unsent[src])
         /\ Head(asr[src]) \notin seen =>
              /\ Head(asr[src]) \in ToSet(pending[src])
              /\ Leads(pending[src], Head(asr[src]), Tail(asr[src]), seen)
              /\ CommittedAudioFor(Head(asr[src]), src) = Head(asr[src])
<1>1. /\ asr[src] # <<>> /\ asr' = [asr EXCEPT ![src] = Tail(asr[src])]
      /\ consumer.at = "idle" /\ session # "stopped"
  BY DEF TakeFinal, Active
<1>2. QueueSound(src)
  BY DEF Fifo
<1>3. PICK u \in Seq(Segments), a \in Seq(Segments), p \in Seq(Segments) :
        u = unsent[src] /\ a = asr[src] /\ p = pending[src]
  BY DEF Typed
<1>4. InOrder(u, a, p, seen) /\ a # <<>>
  BY <1>1, <1>2, <1>3 DEF QueueSound
<1>5. PICK d : d = seen
  OBVIOUS
<1>6. InOrder(u, a, p, d)
  BY <1>4, <1>5
<1>7. /\ InOrder(u, Tail(a), p, d)
      /\ Head(a) \notin d => Head(a) \in ToSet(p) /\ Leads(p, Head(a), Tail(a), d)
      /\ Head(a) \notin ToSet(u)
  BY <1>4, <1>6, TakeKeepsOrder
<1>8. Head(a) \in ToSet(a) /\ ToSet(Tail(a)) \subseteq ToSet(a)
  BY <1>4, TailFacts
<1>9. Head(a) \in From(src) /\ ToSet(Tail(a)) \subseteq From(src)
  BY <1>2, <1>3, <1>8 DEF QueueSound
<1>10. Head(a) \in Segments /\ SourceOf(Head(a)) = src
  BY <1>9, Belongs
<1>11. QED BY <1>1, <1>3, <1>5, <1>7, <1>9, <1>10, OwnAudio DEF Working

\* The final of x is done: the audio of its source stays in order, and that of the
\* other source does too.
LEMMA FinishFifo ==
  ASSUME Typed, Typed', NEW x \in Segments, NEW b,
         NEW src, src = SourceOf(x),
         \A o \in Sources : QueueSound(o),
         unsent' = unsent, x \notin ToSet(unsent[src]),
         b = asr'[src], \A o \in Sources \ {src} : asr'[o] = asr[o],
         ToSet(b) \subseteq From(src),
         InOrder(unsent[src], b, pending[src], seen), Leads(pending[src], x, b, seen),
         ConsumeAudio(src, x), seen' = seen \cup {x} \/ seen' = seen
  PROVE  \A o \in Sources : QueueSound(o)'
<1>1. src \in Sources
  BY Belongs
<1>2. PICK u \in Seq(Segments), a \in Seq(Segments), p \in Seq(Segments) :
        u = unsent[src] /\ a = b /\ p = pending[src]
  BY <1>1 DEF Typed
<1>3. PICK d : d = seen
  OBVIOUS
<1>4. InOrder(u, a, p, d) /\ Leads(p, x, a, d) /\ x \notin ToSet(u)
  BY <1>2, <1>3
<1>5. InOrder(u, a, After(p, x), d)
  BY <1>4, ConsumeKeepsOrder
<1>6. InOrder(u, a, After(p, x), d \cup {x})
  BY <1>4, <1>5, DoneKeepsOrder
<1>7. pending' = [pending EXCEPT ![src] = After(p, x)]
  BY <1>2 DEF ConsumeAudio
<1>8. pending'[src] = After(p, x) /\ \A o \in Sources \ {src} : pending'[o] = pending[o]
  BY <1>1, <1>7 DEF Typed
<1>9. QueueSound(src)'
  BY <1>1, <1>2, <1>3, <1>5, <1>6, <1>8 DEF QueueSound
<1>10. ASSUME NEW o \in Sources \ {src} PROVE QueueSound(o)'
  <2>1. PICK v, c, q : v = unsent[o] /\ c = asr[o] /\ q = pending[o]
    OBVIOUS
  <2>2. InOrder(v, c, q, d) /\ ToSet(v) \subseteq From(o) /\ ToSet(c) \subseteq From(o)
    BY <1>3, <2>1 DEF QueueSound
  <2>3. x \notin ToSet(v)
    BY <2>2, Belongs
  <2>4. InOrder(v, c, q, d \cup {x})
    BY <2>2, <2>3, DoneKeepsOrder
  <2>5. unsent'[o] = v /\ asr'[o] = c /\ pending'[o] = q
    BY <1>8, <2>1
  <2>6. QED BY <1>3, <2>2, <2>4, <2>5 DEF QueueSound
<1>11. QED BY <1>9, <1>10

\* The steps that leave the audio and the consumer alone.
LEMMA FifoFrame ==
  ASSUME Fifo, UNCHANGED <<unsent, asr, pending, seen, consumer>>,
         session' = "stopped" => session = "stopped"
  PROVE  Fifo'
<1>1. \A o \in Sources : QueueSound(o)'
  BY DEF Fifo, QueueSound
<1>2. consumer' = consumer /\ pending' = pending /\ asr' = asr /\ seen' = seen
  OBVIOUS
<1>3. QED BY <1>1, <1>2 DEF Fifo, Working

\* The steps of the consumer that touch no queue.
LEMMA FifoHand ==
  ASSUME Fifo, UNCHANGED <<unsent, asr, pending, seen, session>>, session # "stopped",
         Working' =>
           /\ Working /\ consumer'.seg = consumer.seg /\ consumer'.audio = consumer.audio
  PROVE  Fifo'
<1>1. \A o \in Sources : QueueSound(o)'
  BY DEF Fifo, QueueSound
<1>2. pending' = pending /\ asr' = asr /\ seen' = seen /\ session' = session
  OBVIOUS
<1>3. Working' =>
         LET src == SourceOf(consumer'.seg) IN
         /\ consumer'.seg \in Segments \ seen'
         /\ consumer'.seg \in ToSet(pending'[src])
         /\ consumer'.audio = consumer'.seg
         /\ Leads(pending'[src], consumer'.seg, asr'[src], seen')
  BY <1>2 DEF Fifo
<1>4. QED BY <1>1, <1>2, <1>3 DEF Fifo

\* The backend keeps the audio in order.
LEMMA FifoBackend ==
  ASSUME Typed, Typed', Fifo, Gathered, Backend
  PROVE  Fifo'
<1> USE DEF media, cooling
<1>0. consumer.at # "idle" => session # "stopped"
  BY DEF Fifo
<1>1. ASSUME NEW src \in Sources, TranscriptionFails(src) PROVE Fifo'
  <2>1. /\ asr[src] # <<>> /\ asr' = [asr EXCEPT ![src] = Tail(asr[src])]
        /\ UNCHANGED <<unsent, pending, seen, consumer, session>>
    BY <1>1 DEF TranscriptionFails
  <2>2. PICK u \in Seq(Segments), a \in Seq(Segments), p \in Seq(Segments) :
          u = unsent[src] /\ a = asr[src] /\ p = pending[src]
    BY DEF Typed
  <2>3. PICK d : d = seen
    OBVIOUS
  <2>4. InOrder(u, a, p, d) /\ a # <<>> /\ ToSet(a) \subseteq From(src)
    BY <2>1, <2>2, <2>3 DEF Fifo, QueueSound
  <2>5. InOrder(u, Tail(a), p, d) /\ \A x : Leads(p, x, a, d) => Leads(p, x, Tail(a), d)
    BY <2>4, TakeKeepsOrder
  <2>6. ToSet(Tail(a)) \subseteq From(src)
    BY <2>4, TailFacts
  <2>7. asr'[src] = Tail(a) /\ \A o \in Sources \ {src} : asr'[o] = asr[o]
    BY <2>1, <2>2 DEF Typed
  <2>8. QueueSound(src)'
    BY <2>1, <2>2, <2>3, <2>5, <2>6, <2>7 DEF Fifo, QueueSound
  <2>9. \A o \in Sources \ {src} : QueueSound(o)'
    BY <2>1, <2>7 DEF Fifo, QueueSound
  <2>10. Working' =>
           /\ consumer'.seg \in Segments \ seen'
           /\ consumer'.seg \in ToSet(pending'[SourceOf(consumer'.seg)])
           /\ consumer'.audio = consumer'.seg
    BY <2>1 DEF Fifo, Working
  <2>11. ASSUME Working'
         PROVE  Leads(pending'[SourceOf(consumer'.seg)], consumer'.seg,
                      asr'[SourceOf(consumer'.seg)], seen')
    <3>1. PICK x \in Segments, o \in Sources : x = consumer.seg /\ o = SourceOf(x)
      BY <2>1, <2>11, Belongs DEF Fifo, Working
    <3>2. Leads(pending[o], x, asr[o], seen)
      BY <2>1, <2>11, <3>1 DEF Fifo, Working
    <3>3. Leads(pending[o], x, asr'[o], seen)
      <4>1. CASE o = src
        BY <2>2, <2>3, <2>5, <2>7, <3>2, <4>1
      <4>2. CASE o # src
        BY <2>7, <3>2, <4>2
      <4>3. QED BY <4>1, <4>2
    <3>4. consumer' = consumer /\ pending' = pending /\ seen' = seen
      BY <2>1
    <3>5. QED BY <3>1, <3>3, <3>4
  <2>12. QED BY <2>1, <2>8, <2>9, <2>10, <2>11 DEF Fifo
<1>2. ASSUME NEW src \in Sources, TakeFinal(src), UNCHANGED <<unsent, pending, seen, session>>,
             \/ consumer' = consumer
             \/ /\ Head(asr[src]) \notin seen
                /\ consumer' = [at |-> "append", seg |-> Head(asr[src]),
                                audio |-> CommittedAudioFor(Head(asr[src]), src), attempt |-> 1]
      PROVE  Fifo'
  <2>1. PICK x \in Segments : x = Head(asr[src]) /\ src = SourceOf(x)
    BY <1>2, TakeFacts
  <2>2. PICK b : b = Tail(asr[src])
    OBVIOUS
  <2>3. /\ session # "stopped" /\ ~Working /\ ToSet(b) \subseteq From(src)
        /\ asr' = [asr EXCEPT ![src] = b]
        /\ InOrder(unsent[src], b, pending[src], seen)
        /\ x \notin seen =>
              /\ x \in ToSet(pending[src])
              /\ Leads(pending[src], x, b, seen)
              /\ CommittedAudioFor(x, src) = x
    BY <1>2, <2>1, <2>2, TakeFacts
  <2>4. asr'[src] = b /\ \A o \in Sources \ {src} : asr'[o] = asr[o]
    BY <2>3 DEF Typed
  <2>5. QueueSound(src)'
    BY <1>2, <2>3, <2>4 DEF Fifo, QueueSound
  <2>6. \A o \in Sources \ {src} : QueueSound(o)'
    BY <1>2, <2>4 DEF Fifo, QueueSound
  <2>7. CASE consumer' = consumer
    BY <1>2, <2>3, <2>5, <2>6, <2>7 DEF Fifo, Working
  <2>8. CASE /\ x \notin seen
             /\ consumer' = [at |-> "append", seg |-> x, audio |-> CommittedAudioFor(x, src), attempt |-> 1]
    <3>1. consumer'.seg = x /\ consumer'.audio = x
      BY <2>3, <2>8
    <3>2. pending' = pending /\ seen' = seen /\ session' # "stopped"
      BY <1>2, <2>3
    <3>3. /\ consumer'.seg \in Segments \ seen'
          /\ consumer'.seg \in ToSet(pending'[src]) /\ consumer'.audio = consumer'.seg
          /\ Leads(pending'[src], consumer'.seg, asr'[src], seen') /\ src = SourceOf(consumer'.seg)
      BY <2>1, <2>3, <2>4, <2>8, <3>1, <3>2
    <3>4. QED BY <2>5, <2>6, <3>2, <3>3 DEF Fifo
  <2>9. QED BY <1>2, <2>1, <2>7, <2>8
<1>3. ASSUME NEW src \in Sources, NEW valid \in BOOLEAN, BlankFinal(src, valid) PROVE Fifo'
  <2>1. TakeFinal(src) /\ Head(asr[src]) \notin seen /\ unsent' = unsent /\ session' = session
    BY <1>3 DEF BlankFinal
  <2>2. PICK x \in Segments : x = Head(asr[src]) /\ src = SourceOf(x)
    BY <2>1, TakeFacts
  <2>3. PICK b : b = Tail(asr[src])
    OBVIOUS
  <2>4. /\ session # "stopped" /\ ToSet(b) \subseteq From(src)
        /\ asr' = [asr EXCEPT ![src] = b] /\ x \notin ToSet(unsent[src])
        /\ InOrder(unsent[src], b, pending[src], seen)
        /\ Leads(pending[src], x, b, seen) /\ CommittedAudioFor(x, src) = x
    BY <2>1, <2>2, <2>3, TakeFacts
  <2>5. asr'[src] = b /\ \A o \in Sources \ {src} : asr'[o] = asr[o]
    BY <2>4 DEF Typed
  <2>6. FinishFinal(x, x, {}, valid)
    BY <1>3, <2>2, <2>4 DEF BlankFinal
  <2>7. ConsumeAudio(src, x) /\ seen' = seen \cup {x} /\ consumer' = Idle
    BY <2>2, <2>6 DEF FinishFinal
  <2>8. \A o \in Sources : QueueSound(o)
    BY DEF Fifo
  <2>9. \A o \in Sources : QueueSound(o)'
    BY <2>1, <2>2, <2>4, <2>5, <2>7, <2>8, FinishFifo
  <2>10. QED BY <2>7, <2>9 DEF Fifo, Working, Idle
<1>4. ASSUME AppendEvent \/ AppendFails \/ TriggerSystemAudio PROVE Fifo'
  <2>1. /\ UNCHANGED <<unsent, asr, pending, seen, session>> /\ session # "stopped"
        /\ Working' => Working /\ consumer'.seg = consumer.seg /\ consumer'.audio = consumer.audio
    <3>1. CASE AppendEvent
      BY <1>0, <3>1 DEF AppendEvent, Working, Typed, ConsumerRec
    <3>2. CASE AppendFails
      BY <1>0, <3>2 DEF AppendFails, Working, Typed, ConsumerRec
    <3>3. CASE TriggerSystemAudio
      BY <1>0, <3>3 DEF TriggerSystemAudio, Working, Idle
    <3>4. QED BY <1>4, <3>1, <3>2, <3>3
  <2>2. QED BY <2>1, FifoHand
<1>5. ASSUME RetryFinal PROVE Fifo'
  <2>1. Working /\ UNCHANGED <<unsent, asr, pending, seen, session>> /\ session # "stopped"
    BY <1>0, <1>5 DEF RetryFinal, Working
  <2>2. /\ consumer.seg \in ToSet(pending[SourceOf(consumer.seg)])
        /\ consumer.audio = consumer.seg
    BY <2>1 DEF Fifo
  <2>3. CommittedAudioFor(consumer.seg, SourceOf(consumer.seg)) = consumer.seg
    BY <2>2, OwnAudio
  <2>4. Working' => /\ Working /\ consumer'.seg = consumer.seg
                    /\ consumer'.audio = consumer.audio
    <3>1. PICK x : x = CommittedAudioFor(consumer.seg, SourceOf(consumer.seg))
      OBVIOUS
    <3>2. consumer' = [consumer EXCEPT !.at = "append", !.audio = x] \/ consumer' = Idle
      BY <1>5, <3>1 DEF RetryFinal
    <3>3. CASE consumer' = Idle
      BY <3>3 DEF Working, Idle
    <3>4. CASE consumer' = [consumer EXCEPT !.at = "append", !.audio = x]
      BY <2>1, <2>2, <2>3, <3>1, <3>4 DEF Typed, ConsumerRec
    <3>5. QED BY <3>2, <3>3, <3>4
  <2>5. QED BY <2>1, <2>4, FifoHand
<1>6. ASSUME DiscardFailedFinal \/ FinishTranscript PROVE Fifo'
  <2>1. Working /\ unsent' = unsent /\ asr' = asr /\ session' = session /\ session # "stopped"
    BY <1>0, <1>6 DEF DiscardFailedFinal, FinishTranscript, Working
  <2>2. PICK x \in Segments, src \in Sources : x = consumer.seg /\ src = SourceOf(x)
    BY <2>1, Belongs DEF Fifo
  <2>3. /\ x \in ToSet(pending[src]) /\ consumer.audio = x /\ x \notin seen
        /\ Leads(pending[src], x, asr[src], seen)
    BY <2>1, <2>2 DEF Fifo
  <2>4. ConsumeAudio(src, x) /\ (seen' = seen \/ seen' = seen \cup {x}) /\ ~Working'
    <3>1. CASE DiscardFailedFinal
      BY <2>2, <2>3, <3>1, OwnAudio DEF DiscardFailedFinal, Working, Idle
    <3>2. CASE FinishTranscript
      <4>1. FinishFinal(x, x, {x}, TRUE)
        BY <2>2, <2>3, <3>2 DEF FinishTranscript
      <4>2. consumer' = [consumer EXCEPT !.at = "trigger"] \/ consumer' = Idle
        BY <4>1 DEF FinishFinal
      <4>3. ~Working'
        <5>1. consumer \in ConsumerRec
          BY DEF Typed
        <5>2. consumer'.at \in {"trigger", "idle"}
          BY <4>2, <5>1 DEF Idle, ConsumerRec
        <5>3. QED BY <5>2 DEF Working
      <4>4. QED BY <2>2, <4>1, <4>3 DEF FinishFinal
    <3>3. QED BY <1>6, <3>1, <3>2
  <2>5. \A o \in Sources : QueueSound(o)
    BY DEF Fifo
  <2>6. PICK b : b = asr[src]
    OBVIOUS
  <2>7. /\ b = asr'[src] /\ \A o \in Sources \ {src} : asr'[o] = asr[o]
        /\ ToSet(b) \subseteq From(src) /\ InOrder(unsent[src], b, pending[src], seen)
        /\ Leads(pending[src], x, b, seen)
    BY <2>1, <2>3, <2>5, <2>6 DEF QueueSound
  <2>8. x \notin ToSet(unsent[src])
    BY <2>3, <2>7 DEF InOrder
  <2>9. \A o \in Sources : QueueSound(o)'
    BY <2>1, <2>2, <2>4, <2>5, <2>7, <2>8, FinishFifo
  <2>10. QED BY <2>1, <2>4, <2>9 DEF Fifo
<1>7. ASSUME UNCHANGED <<unsent, asr, pending, seen, consumer, session>> PROVE Fifo'
  BY <1>7, FifoFrame
<1>8. ASSUME NEW src \in Sources, IgnoreFinal(src) \/ TextFinal(src) PROVE Fifo'
  <2>1. CASE IgnoreFinal(src)
    BY <1>2, <2>1 DEF IgnoreFinal
  <2>2. CASE TextFinal(src)
    BY <1>2, <2>2 DEF TextFinal
  <2>3. QED BY <1>8, <2>1, <2>2
<1>9. ASSUME NEW t \in Turns, ExpireTurn(t) \/ FinalizeTurn(t) PROVE Fifo'
  BY <1>7, <1>9 DEF ExpireTurn, FinalizeTurn
<1>10. ASSUME FinalizeVoice \/ FlushCooldown \/ CooldownOver PROVE Fifo'
  BY <1>7, <1>10 DEF FinalizeVoice, FlushCooldown, CooldownOver
<1>11. ASSUME NEW c \in carriers, ScheduleVoice(c) \/ ScheduleObservation(c) PROVE Fifo'
  BY <1>7, <1>11 DEF ScheduleVoice, ScheduleObservation
<1>12. QED
  BY <1>1, <1>3, <1>4, <1>5, <1>6, <1>8, <1>9, <1>10, <1>11 DEF Backend

\* So do the client, the provider and the session.
LEMMA FifoEnvironment ==
  ASSUME Typed, Typed', Fifo, Environment
  PROVE  Fifo'
<1> USE DEF media, cooling
<1>1. ASSUME NEW src \in Sources, SubmitAudio(src) PROVE Fifo'
  <2>1. PICK u \in Seq(Segments), a \in Seq(Segments), p \in Seq(Segments) :
          u = unsent[src] /\ a = asr[src] /\ p = pending[src]
    BY DEF Typed
  <2>2. PICK d : d = seen
    OBVIOUS
  <2>3. /\ InOrder(u, a, p, d) /\ u # <<>>
        /\ ToSet(u) \subseteq From(src) /\ ToSet(a) \subseteq From(src)
    BY <1>1, <2>1, <2>2 DEF Fifo, QueueSound, SubmitAudio
  <2>4. PICK s \in Segments : s = Head(u) /\ s \in ToSet(u) /\ ToSet(Tail(u)) \subseteq ToSet(u)
    BY <2>3, TailFacts
  <2>5. /\ InOrder(Tail(u), Append(a, s), Append(p, s), d)
        /\ \A x \in ToSet(p) : Leads(p, x, a, d) => Leads(Append(p, s), x, Append(a, s), d)
    BY <2>3, <2>4, SubmitKeepsOrder
  <2>6. /\ ToSet(Append(a, s)) = ToSet(a) \cup {s} /\ ToSet(Append(p, s)) = ToSet(p) \cup {s}
    BY AppendFacts
  <2>7. /\ unsent' = [unsent EXCEPT ![src] = Tail(u)]
        /\ asr' = [asr EXCEPT ![src] = Append(a, s)]
        /\ pending' = [pending EXCEPT ![src] = Append(p, s)]
        /\ UNCHANGED <<seen, consumer, session>>
    BY <1>1, <2>1, <2>4 DEF SubmitAudio, RegisterCommittedAudio
  <2>8. /\ unsent'[src] = Tail(u) /\ asr'[src] = Append(a, s) /\ pending'[src] = Append(p, s)
        /\ \A o \in Sources \ {src} : /\ unsent'[o] = unsent[o] /\ asr'[o] = asr[o]
                                      /\ pending'[o] = pending[o]
    BY <2>7 DEF Typed
  <2>9. QueueSound(src)'
    BY <2>2, <2>3, <2>4, <2>5, <2>6, <2>7, <2>8 DEF QueueSound
  <2>10. \A o \in Sources \ {src} : QueueSound(o)'
    BY <2>7, <2>8 DEF Fifo, QueueSound
  <2>11. ASSUME Working'
         PROVE /\ consumer'.seg \in Segments \ seen'
               /\ consumer'.seg \in ToSet(pending'[SourceOf(consumer'.seg)])
               /\ consumer'.audio = consumer'.seg
               /\ Leads(pending'[SourceOf(consumer'.seg)], consumer'.seg,
                      asr'[SourceOf(consumer'.seg)], seen')
    <3>1. PICK x \in Segments, o \in Sources : x = consumer.seg /\ o = SourceOf(x)
      BY <2>7, <2>11, Belongs DEF Fifo, Working
    <3>2. /\ Leads(pending[o], x, asr[o], seen) /\ x \in ToSet(pending[o]) /\ x \notin seen
          /\ consumer.audio = x
      BY <2>7, <2>11, <3>1 DEF Fifo, Working
    <3>3. Leads(pending'[o], x, asr'[o], seen) /\ x \in ToSet(pending'[o])
      <4>1. CASE o = src
        <5>1. x \in ToSet(p) /\ Leads(p, x, a, d)
          BY <2>1, <2>2, <3>2, <4>1
        <5>2. QED BY <2>2, <2>5, <2>6, <2>8, <4>1, <5>1
      <4>2. CASE o # src
        BY <2>8, <3>2, <4>2
      <4>3. QED BY <4>1, <4>2
    <3>4. consumer' = consumer /\ seen' = seen
      BY <2>7
    <3>5. QED BY <3>1, <3>2, <3>3, <3>4
  <2>12. QED BY <2>7, <2>9, <2>10, <2>11 DEF Fifo
<1>2. ASSUME NEW src \in Sources, CommitFails(src) PROVE Fifo'
  <2>1. PICK u \in Seq(Segments), a \in Seq(Segments), p \in Seq(Segments) :
          u = unsent[src] /\ a = asr[src] /\ p = pending[src]
    BY DEF Typed
  <2>2. PICK d : d = seen
    OBVIOUS
  <2>3. InOrder(u, a, p, d) /\ u # <<>> /\ ToSet(u) \subseteq From(src)
    BY <1>2, <2>1, <2>2 DEF Fifo, QueueSound, CommitFails
  <2>4. InOrder(Tail(u), a, p, d)
    BY <2>3, GiveUpKeepsOrder
  <2>5. ToSet(Tail(u)) \subseteq ToSet(u)
    BY <2>3, TailFacts
  <2>6. /\ unsent' = unsent \/ unsent' = [unsent EXCEPT ![src] = Tail(u)]
        /\ UNCHANGED <<asr, pending, seen, consumer, session>>
    BY <1>2, <2>1 DEF CommitFails
  <2>7. /\ unsent'[src] = u \/ unsent'[src] = Tail(u)
        /\ \A o \in Sources \ {src} : unsent'[o] = unsent[o]
    BY <2>1, <2>6 DEF Typed
  <2>8. QueueSound(src)'
    BY <2>1, <2>2, <2>3, <2>4, <2>5, <2>6, <2>7 DEF Fifo, QueueSound
  <2>9. \A o \in Sources \ {src} : QueueSound(o)'
    BY <2>6, <2>7 DEF Fifo, QueueSound
  <2>10. QED BY <2>6, <2>8, <2>9 DEF Fifo, Working
<1>3. ASSUME NotifyVoiceActivity \/ PauseSession \/ ResumeSession \/ BeginStop PROVE Fifo'
  <2>1. UNCHANGED <<unsent, asr, pending, seen, consumer>> /\ (session' = "stopped" => session = "stopped")
    BY <1>3 DEF NotifyVoiceActivity, PauseSession, ResumeSession, BeginStop
  <2>2. QED BY <2>1, FifoFrame
<1>4. ASSUME NEW s \in Segments, ResendFinal(s) PROVE Fifo'
  <2>1. PICK src \in Sources : src = SourceOf(s) /\ s \in From(src)
    BY Belongs
  <2>2. PICK u \in Seq(Segments), a \in Seq(Segments), p \in Seq(Segments) :
          u = unsent[src] /\ a = asr[src] /\ p = pending[src]
    BY DEF Typed
  <2>3. PICK d : d = seen
    OBVIOUS
  <2>4. InOrder(u, a, p, d) /\ s \in d /\ ToSet(a) \subseteq From(src)
    BY <1>4, <2>2, <2>3 DEF Fifo, QueueSound, ResendFinal
  <2>5. /\ InOrder(u, Append(a, s), p, d)
        /\ \A x : Leads(p, x, a, d) => Leads(p, x, Append(a, s), d)
    BY <2>4, ResendKeepsOrder
  <2>6. ToSet(Append(a, s)) = ToSet(a) \cup {s}
    BY AppendFacts
  <2>7. /\ asr' = [asr EXCEPT ![src] = Append(a, s)]
        /\ UNCHANGED <<unsent, pending, seen, consumer, session>>
    BY <1>4, <2>1, <2>2 DEF ResendFinal
  <2>8. asr'[src] = Append(a, s) /\ \A o \in Sources \ {src} : asr'[o] = asr[o]
    BY <2>7 DEF Typed
  <2>9. QueueSound(src)'
    BY <2>1, <2>2, <2>3, <2>4, <2>5, <2>6, <2>7, <2>8 DEF Fifo, QueueSound
  <2>10. \A o \in Sources \ {src} : QueueSound(o)'
    BY <2>7, <2>8 DEF Fifo, QueueSound
  <2>11. ASSUME Working'
         PROVE /\ consumer'.seg \in Segments \ seen'
               /\ consumer'.seg \in ToSet(pending'[SourceOf(consumer'.seg)])
               /\ consumer'.audio = consumer'.seg
               /\ Leads(pending'[SourceOf(consumer'.seg)], consumer'.seg,
                      asr'[SourceOf(consumer'.seg)], seen')
    <3>1. PICK x \in Segments, o \in Sources : x = consumer.seg /\ o = SourceOf(x)
      BY <2>7, <2>11, Belongs DEF Fifo, Working
    <3>2. /\ Leads(pending[o], x, asr[o], seen) /\ x \in ToSet(pending[o]) /\ x \notin seen
          /\ consumer.audio = x
      BY <2>7, <2>11, <3>1 DEF Fifo, Working
    <3>3. Leads(pending[o], x, asr'[o], seen)
      <4>1. CASE o = src
        <5>1. Leads(p, x, a, d)
          BY <2>2, <2>3, <3>2, <4>1
        <5>2. QED BY <2>2, <2>3, <2>5, <2>8, <4>1, <5>1
      <4>2. CASE o # src
        BY <2>8, <3>2, <4>2
      <4>3. QED BY <4>1, <4>2
    <3>4. consumer' = consumer /\ pending' = pending /\ seen' = seen
      BY <2>7
    <3>5. QED BY <3>1, <3>2, <3>3, <3>4
  <2>12. QED BY <2>7, <2>9, <2>10, <2>11 DEF Fifo
<1>5. ASSUME StopIngest PROVE Fifo'
  <2>1. /\ unsent' = unsent /\ asr' = [src \in Sources |-> <<>>] /\ seen' = {}
        /\ pending' = [src \in Sources |-> <<>>] /\ consumer' = Idle
    BY <1>5 DEF StopIngest
  <2>2. ASSUME NEW src \in Sources PROVE QueueSound(src)'
    <3>1. PICK u : u = unsent[src]
      OBVIOUS
    <3>2. IsInjective(u) /\ ToSet(u) \subseteq From(src)
      BY <3>1 DEF Fifo, QueueSound, InOrder
    <3>3. InOrder(u, <<>>, <<>>, {})
      <4>1. ToSet(<<>>) = {} /\ IsInjective(<<>>) /\ DOMAIN <<>> = {}
        BY DEF ToSet, IsInjective
      <4>2. QED BY <3>2, <4>1 DEF InOrder
    <3>4. ToSet(<<>>) = {}
      BY DEF ToSet
    <3>5. unsent'[src] = u /\ asr'[src] = <<>> /\ pending'[src] = <<>> /\ seen' = {}
      BY <2>1, <3>1
    <3>6. QED BY <3>2, <3>3, <3>4, <3>5 DEF QueueSound
  <2>3. QED BY <2>1, <2>2 DEF Fifo, Working, Idle
<1>6. QED BY <1>1, <1>2, <1>3, <1>4, <1>5 DEF Environment

----------------------------------------------------------------------------
(* What is gathered.                                                       *)

\* A turn stays sound when more finals are done.
LEMMA TurnSoundGrows ==
  ASSUME NEW t, NEW turn, NEW d, NEW e, TurnSound(t, turn, d), d \subseteq e
  PROVE  TurnSound(t, turn, e)
BY DEF TurnSound

\* The final of s is done: its turn stays sound.
LEMMA CompleteSound ==
  ASSUME Typed, NEW s \in Segments, Turn[s] # NoTurn, NEW events \in SUBSET {s},
         NEW valid \in BOOLEAN, NEW after,
         after = CompleteTurn(Turn[s], SourceOf(s), events, valid),
         turns[Turn[s]] # None => TurnSound(Turn[s], turns[Turn[s]], seen)
  PROVE  after # None => TurnSound(Turn[s], after, seen \cup {s})
<1>1. PICK src \in Sources : src = SourceOf(s) /\ s \in From(src)
  BY Belongs
<1>2. PICK t \in Turns : t = Turn[s]
  BY Belongs
<1>3. after # None =>
              /\ turns[t] # None /\ turns[t] \in TurnRec
              /\ after.committed = turns[t].committed
              /\ after = turns[t] \/ Advanced(turns[t], src, events, after)
  <2>1. events \in SUBSET Segments /\ after = CompleteTurn(t, src, events, valid)
    BY <1>1, <1>2
  <2>2. QED BY <2>1, CompleteFacts
<1>4. SUFFICES ASSUME after # None PROVE TurnSound(t, after, seen \cup {s})
  BY <1>2
<1>5. PICK turn \in TurnRec : turn = turns[t]
  BY <1>3, <1>4
<1>6. TurnSound(t, turn, seen) /\ after.committed = turn.committed
  BY <1>2, <1>3, <1>4, <1>5
<1>7. CASE after = turn
  BY <1>6, <1>7, TurnSoundGrows
<1>8. CASE after # turn
  <2>1. /\ src \in turn.committed
        /\ after.completed = turn.completed \cup {src}
        /\ after.events = turn.events \cup events
        /\ src = Mic => events # {}
        /\ after.timer # "none" \/ after.timer = turn.timer
        /\ src = Mic => after.timer # "none"
        /\ after.timer # turn.timer => Mic \in after.completed
    BY <1>3, <1>4, <1>5, <1>8 DEF Advanced
  <2>2. after.completed \subseteq after.committed
    BY <1>6, <2>1 DEF TurnSound
  <2>3. \A r \in after.events : Turn[r] = t /\ r \in seen \cup {s}
    BY <1>2, <1>6, <2>1 DEF TurnSound
  <2>4. Mic \in after.completed => \E m \in From(Mic) \cap (seen \cup {s}) : Turn[m] = t
    BY <1>1, <1>2, <1>6, <2>1 DEF TurnSound
  <2>5. after.timer # "none" <=> Mic \in after.completed
    BY <1>6, <2>1 DEF TurnSound
  <2>6. QED BY <2>2, <2>3, <2>4, <2>5 DEF TurnSound
<1>9. QED BY <1>7, <1>8

\* What a final that is done leaves behind.
LEMMA FinishGathered ==
  ASSUME Typed, Gathered, session # "stopped", NEW s \in Segments, s \notin seen,
         NEW events \in SUBSET {s}, NEW valid \in BOOLEAN,
         events # {} => consumer.seg = s,
         FinishFinal(s, s, events, valid), UNCHANGED <<session, delta, flush>>
  PROVE  Gathered'
<1> DEFINE src == SourceOf(s)
           t == Turn[s]
           after == CompleteTurn(t, src, events, valid)
<1>0. s # None /\ src \in Sources /\ s \in From(src)
  BY NoneIsNoSegment, Belongs
<1>1. /\ seen' = seen \cup {s}
      /\ turns' = IF t # NoTurn THEN [turns EXCEPT ![t] = after] ELSE turns
      /\ \/ voice' = voice
         \/ t = NoTurn /\ src = Mic /\
            voice' = [events |-> events \cup (IF voice = None THEN {} ELSE voice.events),
                      armed |-> TRUE]
      /\ consumer' = IF t = NoTurn /\ src = Sys /\ events # {}
                       THEN [consumer EXCEPT !.at = "trigger"] ELSE Idle
  BY <1>0 DEF FinishFinal, QueueVoice
<1>2. ASSUME NEW u \in Turns, turns'[u] # None PROVE TurnSound(u, turns'[u], seen')
  <2>1. CASE t # NoTurn /\ u = t
    <3>1. turns[t] # None => TurnSound(t, turns[t], seen)
      BY <2>1 DEF Gathered
    <3>2. turns'[u] = after
      BY <1>1, <1>2, <2>1 DEF Typed
    <3>3. PICK f : f = after
      OBVIOUS
    <3>4. f # None => TurnSound(t, f, seen \cup {s})
      BY <2>1, <3>1, <3>3, CompleteSound
    <3>5. QED BY <1>1, <1>2, <2>1, <3>2, <3>3, <3>4
  <2>2. CASE ~(t # NoTurn /\ u = t)
    <3>1. turns'[u] = turns[u]
      BY <1>1, <2>2 DEF Typed
    <3>2. TurnSound(u, turns[u], seen)
      BY <1>2, <3>1 DEF Gathered
    <3>3. QED BY <1>1, <3>1, <3>2, TurnSoundGrows
  <2>3. QED BY <2>1, <2>2
<1>3. ASSUME voice' # None, NEW r \in voice'.events
      PROVE  Turn[r] = NoTurn /\ r \in seen' \cap From(Mic)
  <2>1. CASE voice' = voice
    BY <1>1, <1>3, <2>1 DEF Gathered
  <2>2. CASE t = NoTurn /\ src = Mic /\
            voice' = [events |-> events \cup (IF voice = None THEN {} ELSE voice.events),
                      armed |-> TRUE]
    <3>1. r \in events \/ (voice # None /\ r \in voice.events)
      BY <1>3, <2>2
    <3>2. QED BY <1>0, <1>1, <2>2, <3>1 DEF Gathered
  <2>3. QED BY <1>1, <2>1, <2>2
<1>4. consumer'.at = "trigger" => consumer'.seg \in seen' \cap From(Sys) /\ Turn[consumer'.seg] = NoTurn
  <2>1. consumer' = Idle \/ (t = NoTurn /\ src = Sys /\ consumer' = [consumer EXCEPT !.at = "trigger"]
                             /\ consumer.seg = s)
    BY <1>1
  <2>2. CASE consumer' = Idle
    BY <2>2 DEF Idle
  <2>3. CASE t = NoTurn /\ src = Sys /\ consumer' = [consumer EXCEPT !.at = "trigger"] /\ consumer.seg = s
    <3>1. consumer \in ConsumerRec
      BY DEF Typed
    <3>2. consumer'.seg = s
      BY <2>3, <3>1 DEF ConsumerRec
    <3>3. QED BY <1>0, <1>1, <2>3, <3>2
  <2>4. QED BY <2>1, <2>2, <2>3
<1>5. QED BY <1>2, <1>3, <1>4 DEF Gathered

\* A turn is given up.
LEMMA DropGathered ==
  ASSUME Typed, Gathered, NEW t \in Turns \cup {NoTurn}, DropTurn(t),
         UNCHANGED <<seen, voice, delta, flush, session>>,
         consumer'.at = "trigger" => consumer' = consumer
  PROVE  Gathered'
<1>1. turns' = turns \/ (t \in Turns /\ turns' = [turns EXCEPT ![t] = None])
  BY DEF DropTurn
<1>2. \A u \in Turns : turns'[u] # None => turns'[u] = turns[u]
  BY <1>1 DEF Typed
<1>3. \A u \in Turns : turns'[u] # None => TurnSound(u, turns'[u], seen)
  BY <1>2 DEF Gathered
<1>4. QED BY <1>1, <1>2, <1>3 DEF Gathered

\* The backend loses no timer and mixes no turns.
LEMMA GatheredBackend ==
  ASSUME Typed, Fifo, Gathered, Backend
  PROVE  Gathered'
<1> USE DEF media, cooling
<1>0. consumer.at # "idle" => session # "stopped"
  BY DEF Fifo
<1>1. ASSUME UNCHANGED <<session, turns, voice, seen, delta, flush>>,
             consumer'.at = "trigger" => consumer' = consumer
      PROVE  Gathered'
  BY <1>1 DEF Gathered
<1>2. ASSUME NEW src \in Sources,
             TranscriptionFails(src) \/ IgnoreFinal(src) \/ TextFinal(src)
      PROVE  Gathered'
  <2>1. CASE TranscriptionFails(src)
    BY <1>1, <2>1 DEF TranscriptionFails
  <2>2. CASE IgnoreFinal(src)
    BY <1>1, <2>2 DEF IgnoreFinal
  <2>3. CASE TextFinal(src)
    <3>1. consumer'.at = "append"
      BY <2>3 DEF TextFinal
    <3>2. QED BY <1>1, <2>3, <3>1 DEF TextFinal
  <2>4. QED BY <1>2, <2>1, <2>2, <2>3
<1>3. ASSUME NEW src \in Sources, NEW valid \in BOOLEAN, BlankFinal(src, valid) PROVE Gathered'
  <2>1. TakeFinal(src) /\ Head(asr[src]) \notin seen /\ UNCHANGED <<session, delta, flush>>
    BY <1>3 DEF BlankFinal
  <2>2. PICK x \in Segments : x = Head(asr[src]) /\ CommittedAudioFor(x, src) = x
    BY <2>1, TakeFacts
  <2>3. FinishFinal(x, x, {}, valid) /\ x \notin seen /\ session # "stopped"
    BY <1>3, <2>1, <2>2, TakeFacts DEF BlankFinal
  <2>4. QED BY <2>1, <2>3, FinishGathered
<1>4. ASSUME AppendEvent \/ AppendFails \/ RetryFinal \/ TriggerSystemAudio PROVE Gathered'
  <2>1. consumer \in ConsumerRec
    BY DEF Typed
  <2>2. consumer'.at # "trigger" /\ UNCHANGED <<session, turns, voice, seen, delta, flush>>
    <3>1. CASE AppendEvent
      BY <2>1, <3>1 DEF AppendEvent, ConsumerRec
    <3>2. CASE AppendFails
      BY <2>1, <3>2 DEF AppendFails, ConsumerRec
    <3>3. CASE RetryFinal
      <4>1. PICK x : x = CommittedAudioFor(consumer.seg, SourceOf(consumer.seg))
        OBVIOUS
      <4>2. consumer' = [consumer EXCEPT !.at = "append", !.audio = x] \/ consumer' = Idle
        BY <3>3, <4>1 DEF RetryFinal
      <4>3. CASE consumer' = Idle
        BY <3>3, <4>3 DEF RetryFinal, Idle
      <4>4. CASE consumer' = [consumer EXCEPT !.at = "append", !.audio = x]
        BY <2>1, <3>3, <4>4 DEF RetryFinal, ConsumerRec
      <4>5. QED BY <4>2, <4>3, <4>4
    <3>4. CASE TriggerSystemAudio
      BY <3>4 DEF TriggerSystemAudio, Idle
    <3>5. QED BY <1>4, <3>1, <3>2, <3>3, <3>4
  <2>3. QED BY <1>1, <2>2
<1>5. ASSUME DiscardFailedFinal PROVE Gathered'
  <2>1. PICK x \in Segments : x = consumer.seg
    BY <1>5, HandTyped DEF DiscardFailedFinal
  <2>2. PICK audio \in Segments \cup {None} : audio = CommittedAudioFor(x, SourceOf(x))
    BY AudioTyped, Belongs
  <2>3. PICK t \in Turns \cup {NoTurn} : t = IF audio = None THEN NoTurn ELSE Turn[audio]
    BY Belongs
  <2>4. /\ DropTurn(t) /\ consumer' = Idle /\ UNCHANGED <<seen, voice, delta, flush, session>>
    BY <1>5, <2>1, <2>2, <2>3 DEF DiscardFailedFinal
  <2>5. consumer'.at # "trigger"
    BY <2>4 DEF Idle
  <2>6. QED BY <2>4, <2>5, DropGathered
<1>6. ASSUME FinishTranscript PROVE Gathered'
  <2>1. Working /\ session # "stopped"
    BY <1>0, <1>6 DEF FinishTranscript, Working
  <2>2. PICK x \in Segments : x = consumer.seg /\ consumer.audio = x /\ x \notin seen
    BY <2>1 DEF Fifo
  <2>3. FinishFinal(x, x, {x}, TRUE) /\ UNCHANGED <<session, delta, flush>>
    BY <1>6, <2>2 DEF FinishTranscript
  <2>4. {x} \in SUBSET {x} /\ TRUE \in BOOLEAN
    OBVIOUS
  <2>5. QED BY <2>1, <2>2, <2>3, <2>4, FinishGathered
<1>7. ASSUME NEW t \in Turns, ExpireTurn(t) \/ FinalizeTurn(t) PROVE Gathered'
  <2>1. /\ turns' = [turns EXCEPT ![t] = None]
        /\ UNCHANGED <<session, voice, seen, delta, flush, consumer>>
    BY <1>7 DEF ExpireTurn, FinalizeTurn
  <2>2. \A u \in Turns : turns'[u] # None => turns'[u] = turns[u]
    BY <2>1 DEF Typed
  <2>3. \A u \in Turns : turns'[u] # None => TurnSound(u, turns'[u], seen)
    BY <2>2 DEF Gathered
  <2>4. QED BY <2>1, <2>2, <2>3 DEF Gathered
<1>8. ASSUME FinalizeVoice PROVE Gathered'
  BY <1>8 DEF FinalizeVoice, Gathered
<1>9. ASSUME FlushCooldown \/ CooldownOver PROVE Gathered'
  BY <1>9 DEF FlushCooldown, CooldownOver, Gathered
<1>10. ASSUME NEW c \in carriers, ScheduleVoice(c) \/ ScheduleObservation(c) PROVE Gathered'
  BY <1>10 DEF ScheduleVoice, StartRound, HoldBack, ScheduleObservation, Gathered
<1>11. QED
  BY <1>2, <1>3, <1>4, <1>5, <1>6, <1>7, <1>8, <1>9, <1>10 DEF Backend

\* Nor do the client, the provider and the session.
LEMMA GatheredEnvironment ==
  ASSUME Typed, Gathered, Environment
  PROVE  Gathered'
<1> USE DEF media, cooling
<1>1. ASSUME NEW src \in Sources, SubmitAudio(src) PROVE Gathered'
  <2>1. PICK s : s = Head(unsent[src])
    OBVIOUS
  <2>2. /\ RegisterCommittedAudio(s, src)
        /\ UNCHANGED <<session, voice, consumer, seen, delta, flush>> /\ session # "stopped"
    BY <1>1, <2>1 DEF SubmitAudio, Accepting
  <2>3. ASSUME NEW u \in Turns, turns'[u] # None PROVE TurnSound(u, turns'[u], seen)
    <3>1. CASE turns'[u] = turns[u]
      BY <2>3, <3>1 DEF Gathered
    <3>2. CASE turns'[u] # turns[u]
      <4>1. PICK turn : turn = IF turns[u] = None THEN NewTurn ELSE turns[u]
        OBVIOUS
      <4>2. turns'[u] = [turn EXCEPT !.committed = @ \cup {src}]
        BY <2>2, <3>2, <4>1 DEF RegisterCommittedAudio, Typed
      <4>3. TurnSound(u, NewTurn, seen) /\ NewTurn \in TurnRec
        BY DEF NewTurn, TurnSound, TurnRec
      <4>4. TurnSound(u, turn, seen) /\ turn \in TurnRec
        BY <4>1, <4>3 DEF Gathered, Typed
      <4>5. /\ turns'[u].committed = turn.committed \cup {src}
            /\ turns'[u].completed = turn.completed /\ turns'[u].events = turn.events
            /\ turns'[u].timer = turn.timer
        BY <4>2, <4>4 DEF TurnRec
      <4>6. QED BY <4>4, <4>5 DEF TurnSound
    <3>3. QED BY <3>1, <3>2
  <2>4. QED BY <2>2, <2>3 DEF Gathered
<1>2. ASSUME NEW src \in Sources, CommitFails(src) PROVE Gathered'
  <2>1. unsent[src] \in Seq(Segments)
    BY DEF Typed
  <2>2. PICK s \in Segments : s = Head(unsent[src])
    BY <1>2, <2>1, TailFacts DEF CommitFails
  <2>3. PICK t \in Turns \cup {NoTurn} : t = Turn[s]
    BY Belongs
  <2>4. DropTurn(t) /\ UNCHANGED <<seen, voice, delta, flush, session, consumer>>
    BY <1>2, <2>2, <2>3 DEF CommitFails
  <2>5. QED BY <2>4, DropGathered
<1>3. ASSUME NotifyVoiceActivity PROVE Gathered'
  <2>1. voice \in VoiceRec /\ voice' = [voice EXCEPT !.armed = FALSE] /\ session # "stopped"
    BY <1>3 DEF NotifyVoiceActivity, Typed, Active
  <2>2. voice'.events = voice.events
    BY <2>1 DEF VoiceRec
  <2>3. QED BY <1>3, <2>1, <2>2 DEF NotifyVoiceActivity, Gathered
<1>4. ASSUME NEW s \in Segments, ResendFinal(s) PROVE Gathered'
  BY <1>4 DEF ResendFinal, Gathered
<1>5. ASSUME PauseSession \/ ResumeSession \/ BeginStop PROVE Gathered'
  BY <1>5 DEF PauseSession, ResumeSession, BeginStop, Gathered
<1>6. ASSUME StopIngest PROVE Gathered'
  BY <1>6 DEF StopIngest, Gathered, Idle
<1>7. QED BY <1>1, <1>2, <1>3, <1>4, <1>5, <1>6 DEF Environment

----------------------------------------------------------------------------
(* What is written to the room.                                            *)

\* Nothing is written to the room twice.
LEMMA CountedStep ==
  ASSUME Typed, Fifo, Gathered, Counted, Next
  PROVE  Counted'
<1> USE DEF media, cooling
<1>1. ASSUME spoken' = spoken, session' = session, seen \subseteq seen',
             consumer.at = "finish" => consumer' = consumer \/ consumer.seg \in seen'
      PROVE  Counted'
  BY <1>1 DEF Counted
<1>2. ASSUME AppendEvent PROVE Counted'
  <2>1. Working /\ session # "stopped" /\ seen' = seen
    BY <1>2 DEF AppendEvent, Working, Fifo
  <2>2. PICK x \in Segments : x = consumer.seg /\ x \notin seen
    BY <2>1 DEF Fifo
  <2>3. consumer.at = "append" /\ spoken' = [spoken EXCEPT ![x] = @ + 1]
    BY <1>2, <2>2 DEF AppendEvent
  <2>4. consumer'.at = "finish" /\ consumer'.seg = x
    BY <1>2, <2>2 DEF AppendEvent, Typed, ConsumerRec
  <2>5. spoken[x] = 0
    BY <2>1, <2>2, <2>3 DEF Counted
  <2>6. spoken'[x] = 1 /\ \A s \in Segments \ {x} : spoken'[s] = spoken[s]
    BY <2>3, <2>5 DEF Typed
  <2>7. ASSUME NEW s \in Segments \ {x}, spoken[s] = 1 PROVE s \in seen
    BY <2>1, <2>3, <2>7 DEF Counted
  <2>8. \A s \in Segments : spoken'[s] \in {0, 1}
    BY <2>6 DEF Counted
  <2>9. QED BY <2>1, <2>4, <2>6, <2>7, <2>8 DEF Counted
<1>3. ASSUME FinishTranscript PROVE Counted'
  <2>1. spoken' = spoken /\ session' = session /\ seen' = seen \cup {consumer.seg}
    BY <1>3 DEF FinishTranscript, FinishFinal
  <2>2. QED BY <1>1, <2>1
<1>4. ASSUME NEW src \in Sources, NEW valid \in BOOLEAN, BlankFinal(src, valid) PROVE Counted'
  <2>1. spoken' = spoken /\ session' = session /\ seen' = seen \cup {Head(asr[src])}
        /\ consumer.at = "idle"
    BY <1>4 DEF BlankFinal, FinishFinal, TakeFinal
  <2>2. QED BY <1>1, <2>1
<1>5. ASSUME NEW src \in Sources,
             TranscriptionFails(src) \/ IgnoreFinal(src) \/ TextFinal(src)
      PROVE  Counted'
  BY <1>1, <1>5 DEF TranscriptionFails, IgnoreFinal, TextFinal, TakeFinal
<1>6. ASSUME AppendFails \/ RetryFinal \/ DiscardFailedFinal \/ TriggerSystemAudio PROVE Counted'
  BY <1>1, <1>6 DEF AppendFails, RetryFinal, DiscardFailedFinal, TriggerSystemAudio
<1>7. ASSUME NEW t \in Turns, ExpireTurn(t) \/ FinalizeTurn(t) PROVE Counted'
  BY <1>1, <1>7 DEF ExpireTurn, FinalizeTurn
<1>8. ASSUME FinalizeVoice \/ FlushCooldown \/ CooldownOver \/ NotifyVoiceActivity PROVE Counted'
  BY <1>1, <1>8 DEF FinalizeVoice, FlushCooldown, CooldownOver, NotifyVoiceActivity
<1>9. ASSUME NEW c \in carriers, ScheduleVoice(c) \/ ScheduleObservation(c) PROVE Counted'
  BY <1>1, <1>9 DEF ScheduleVoice, ScheduleObservation
<1>10. ASSUME NEW src \in Sources, SubmitAudio(src) \/ CommitFails(src) PROVE Counted'
  BY <1>1, <1>10 DEF SubmitAudio, CommitFails
<1>11. ASSUME NEW s \in Segments, ResendFinal(s) PROVE Counted'
  BY <1>1, <1>11 DEF ResendFinal
<1>12. ASSUME PauseSession \/ ResumeSession \/ BeginStop PROVE Counted'
  BY <1>12 DEF PauseSession, ResumeSession, BeginStop, Counted
<1>13. ASSUME StopIngest PROVE Counted'
  BY <1>13 DEF StopIngest, Counted
<1>14. QED
  BY <1>2, <1>3, <1>4, <1>5, <1>6, <1>7, <1>8, <1>9, <1>10, <1>11, <1>12, <1>13
  DEF Next, Backend, Environment

-----------------------------------------------------------------------------
(* Rounds.                                                                 *)

\* Who goes together goes together both ways.
LEMMA MatesFacts ==
  /\ \A s, r : Mates(s, r) => Mates(r, s) /\ (s = r \/ Turn[r] = Turn[s])
  /\ \A s : Mates(s, s)
BY DEF Mates

\* What was taken for the round of a turn or of the voice is news to every other round.
LEMMA CarrierAdded ==
  ASSUME Typed, Apart, NEW n, carriers' = carriers \cup {n}, UNCHANGED <<delta, heard>>,
         n.events \subseteq Segments,
         \A s \in n.events, r \in Taken : ~Mates(s, r)
  PROVE  Apart' /\ \A s : s \in Taken' => s \in Taken \/ s \in n.events
<1>0. \A d \in carriers : d.events \subseteq Segments
  BY DEF Typed, CarrierRec
<1>1. \A d \in carriers : \A r \in d.events : r \in Taken
  BY <1>0 DEF Taken, InRound
<1>2. \A r \in delta : r \in Taken
  BY DEF Taken, Typed
<1>3. \A s : InRound(s)' => InRound(s) \/ s \in n.events
  BY DEF InRound
<1>4. \A c, d \in carriers' : c # d =>
         \A s \in c.events, r \in d.events : ~Mates(s, r)
  <2>1. ASSUME NEW c \in carriers', NEW d \in carriers', c # d,
               NEW s \in c.events, NEW r \in d.events, Mates(s, r)
        PROVE  FALSE
    <3>1. CASE c \in carriers /\ d \in carriers
      BY <2>1, <3>1 DEF Apart
    <3>2. CASE c = n /\ d \in carriers
      BY <1>1, <2>1, <3>2
    <3>3. CASE c \in carriers /\ d = n
      BY <1>1, <2>1, <3>3, MatesFacts
    <3>4. QED BY <2>1, <3>1, <3>2, <3>3
  <2>2. QED BY <2>1
<1>5. \A c \in carriers' : \A s \in delta', r \in c.events : ~Mates(s, r)
  BY <1>2, MatesFacts DEF Apart
<1>6. \A s, r \in Segments : (InRound(s)' \/ s \in delta') /\ Mates(s, r) => heard'[r] = 0
  <2>1. ASSUME NEW s \in Segments, NEW r \in Segments, InRound(s)' \/ s \in delta', Mates(s, r)
        PROVE  heard[r] = 0
    <3>1. CASE s \in n.events
      BY <2>1, <3>1 DEF Taken
    <3>2. CASE InRound(s) \/ s \in delta
      BY <2>1, <3>2 DEF Apart
    <3>3. QED BY <1>3, <2>1, <3>1, <3>2
  <2>2. QED BY <2>1
<1>7. Apart'
  BY <1>4, <1>5, <1>6 DEF Apart
<1>8. \A s : s \in Taken' => s \in Taken \/ s \in n.events
  BY <1>3 DEF Taken
<1>9. QED BY <1>7, <1>8

\* A round that ends without an observation.
LEMMA CarrierGone ==
  ASSUME Apart, NEW c, carriers' = carriers \ {c}, UNCHANGED <<delta, heard>>
  PROVE  Apart' /\ Taken' \subseteq Taken
<1>1. \A s : InRound(s)' => InRound(s)
  BY DEF InRound
<1>2. QED BY <1>1 DEF Apart, Taken

\* A round that is held back.
LEMMA CarrierHeld ==
  ASSUME Typed, Apart, NEW c \in carriers, carriers' = carriers \ {c},
         delta' = delta \cup c.events, heard' = heard
  PROVE  Apart' /\ Taken' \subseteq Taken
<1>1. \A s : InRound(s)' => InRound(s)
  BY DEF InRound
<1>2. \A s : s \in c.events => InRound(s)
  BY DEF InRound
<1>3. Taken' \subseteq Taken
  BY <1>1, <1>2 DEF Taken
<1>4. \A d \in carriers' : \A s \in delta', r \in d.events : ~Mates(s, r)
  BY DEF Apart
<1>5. \A s, r \in Segments : (InRound(s)' \/ s \in delta') /\ Mates(s, r) => heard'[r] = 0
  BY <1>1, <1>2 DEF Apart
<1>6. QED BY <1>3, <1>4, <1>5 DEF Apart

\* A round that takes along what was held back.
LEMMA CarrierMerged ==
  ASSUME Typed, Apart, NEW n, NEW C, C \subseteq carriers,
         carriers' = (carriers \ C) \cup {n}, delta' = {}, heard' = heard,
         \A s \in n.events : s \in delta \/ \E c \in C : s \in c.events
  PROVE  Apart' /\ Taken' \subseteq Taken
<1>1. \A s : InRound(s)' => InRound(s) \/ s \in delta
  BY DEF InRound
<1>2. Taken' \subseteq Taken
  BY <1>1 DEF Taken
<1>3. ASSUME NEW d \in carriers', d # n, NEW s \in n.events, NEW r \in d.events
      PROVE  ~Mates(s, r)
  <2>1. d \in carriers /\ d \notin C
    BY <1>3
  <2>2. CASE s \in delta
    BY <2>1, <2>2 DEF Apart
  <2>3. CASE \E c \in C : s \in c.events
    BY <2>1, <2>3 DEF Apart
  <2>4. QED BY <2>2, <2>3
<1>4. \A e, d \in carriers' : e # d =>
         \A s \in e.events, r \in d.events : ~Mates(s, r)
  <2>1. ASSUME NEW e \in carriers', NEW d \in carriers', e # d,
               NEW s \in e.events, NEW r \in d.events, Mates(s, r)
        PROVE  FALSE
    <3>1. CASE e = n
      BY <1>3, <2>1, <3>1
    <3>2. CASE d = n
      BY <1>3, <2>1, <3>2, MatesFacts
    <3>3. CASE e # n /\ d # n
      BY <2>1, <3>3 DEF Apart
    <3>4. QED BY <3>1, <3>2, <3>3
  <2>2. QED BY <2>1
<1>5. \A s, r \in Segments : InRound(s)' /\ Mates(s, r) => heard'[r] = 0
  BY <1>1 DEF Apart
<1>6. QED BY <1>2, <1>4, <1>5 DEF Apart

\* A round that is heard.
LEMMA CarrierHeard ==
  ASSUME Typed, Apart, NEW c \in carriers, carriers' = carriers \ {c}, delta' = delta,
         heard' = [s \in Segments |-> IF s \in c.events THEN heard[s] + 1 ELSE heard[s]]
  PROVE  Apart' /\ Taken' \subseteq Taken
<1>0. \A s : InRound(s)' => InRound(s)
  BY DEF InRound
<1>1. \A s : s \in c.events => InRound(s)
  BY DEF InRound
<1>2. \A s \in Segments : heard'[s] # 0 => heard[s] # 0 \/ s \in c.events
  OBVIOUS
<1>3. Taken' \subseteq Taken
  BY <1>0, <1>1, <1>2 DEF Taken
<1>4. ASSUME NEW s \in Segments, NEW r \in Segments, InRound(s)' \/ s \in delta', Mates(s, r)
      PROVE  heard'[r] = 0
  <2>1. heard[r] = 0
    BY <1>0, <1>4 DEF Apart
  <2>2. r \notin c.events
    <3>1. CASE s \in delta
      BY <1>4, <3>1 DEF Apart
    <3>2. CASE InRound(s)'
      <4>1. PICK d \in carriers \ {c} : s \in d.events
        BY <3>2 DEF InRound
      <4>2. QED BY <1>4, <4>1 DEF Apart
    <3>3. QED BY <1>4, <3>1, <3>2
  <2>3. QED BY <2>1, <2>2
<1>5. QED BY <1>3, <1>4 DEF Apart

----------------------------------------------------------------------------
(* Steps that leave the rounds alone, and the rest.                        *)

\* Steps that take nothing for a round and gather nothing.
LEMMA SpentShrinks ==
  ASSUME Spent, Taken' \subseteq Taken, UNCHANGED <<session, seen, turns, voice, consumer>>
  PROVE  Spent'
BY DEF Spent

\* Steps that neither carry nor are heard.
LEMMA ApartFrame ==
  ASSUME Apart, UNCHANGED <<carriers, delta, heard>>
  PROVE  Apart' /\ Taken' = Taken
BY DEF Apart, Taken, InRound

\* Steps that leave the rounds alone and gather less, if anything.
LEMMA SpentFrame ==
  ASSUME Spent, UNCHANGED <<carriers, delta, heard, seen>>,
         session' = "stopped" \/ session # "stopped",
         consumer'.at = "trigger" => consumer'= consumer,
         voice' # None => voice # None /\ voice'.events \subseteq voice.events,
         \A t \in Turns : turns'[t] # None /\ Mic \in turns'[t].completed =>
            turns[t] # None /\ Mic \in turns[t].completed
  PROVE  Spent'
<1>1. Taken' = Taken
  BY DEF Taken, InRound
<1>2. \A s \in Taken : Turn[s] # NoTurn => Turn[s] \in Turns
  BY Belongs DEF Taken
<1>3. session' # "stopped" => session # "stopped"
  OBVIOUS
<1>4. ASSUME session' # "stopped", NEW s \in Taken
      PROVE /\ s \in seen
            /\ Turn[s] # NoTurn =>
                /\ \E m \in From(Mic) \cap seen : Turn[m] = Turn[s]
                /\ turns'[Turn[s]] # None => Mic \notin turns'[Turn[s]].completed
  BY <1>2, <1>3, <1>4 DEF Spent
<1>5. voice' # None => \A s \in voice'.events : s \notin Taken
  BY DEF Spent
<1>6. consumer'.at = "trigger" => consumer'.seg \notin Taken
  BY DEF Spent
<1>7. seen' = seen
  OBVIOUS
<1>8. QED BY <1>1, <1>4, <1>5, <1>6, <1>7 DEF Spent

\* The final of s is done: no round has taken anything it goes with.
LEMMA FinishSpent ==
  ASSUME Typed, Spent, session # "stopped", NEW s \in Segments, s \notin seen,
         NEW events \in SUBSET {s}, NEW valid \in BOOLEAN,
         events # {} => consumer.seg = s,
         FinishFinal(s, s, events, valid), UNCHANGED <<session, carriers, delta, heard>>
  PROVE  Spent'
<1>0. s # None /\ s \in From(SourceOf(s))
  BY NoneIsNoSegment, Belongs
<1>1. PICK t : t = Turn[s]
  OBVIOUS
<1>13. PICK src \in Sources : src = SourceOf(s)
  BY Belongs
<1>14. PICK after : after = CompleteTurn(t, src, events, valid)
  OBVIOUS
<1>2. /\ seen' = seen \cup {s}
      /\ turns' = IF t # NoTurn THEN [turns EXCEPT ![t] = after] ELSE turns
      /\ \/ voice' = voice
         \/ voice' = [events |-> events \cup (IF voice = None THEN {} ELSE voice.events),
                      armed |-> TRUE]
      /\ consumer' = IF t = NoTurn /\ src = Sys /\ events # {}
                       THEN [consumer EXCEPT !.at = "trigger"] ELSE Idle
  BY <1>0, <1>1, <1>13, <1>14 DEF FinishFinal, QueueVoice
<1>3. Taken' = Taken
  BY DEF Taken, InRound
<1>4. s \notin Taken
  BY DEF Spent
<1>5. ASSUME NEW r \in Taken, Turn[r] # NoTurn
      PROVE  /\ \E m \in From(Mic) \cap seen : Turn[m] = Turn[r]
             /\ turns'[Turn[r]] # None => Mic \notin turns'[Turn[r]].completed
  <2>1. PICK u \in Turns : u = Turn[r] /\ u # NoTurn
    BY <1>5, Belongs DEF Taken
  <2>2. PICK m \in From(Mic) \cap seen : Turn[m] = u
    BY <1>5, <2>1 DEF Spent
  <2>3. turns[u] # None => Mic \notin turns[u].completed
    BY <1>5, <2>1 DEF Spent
  <2>4. CASE u # t \/ t = NoTurn
    <3>1. turns'[u] = turns[u]
      BY <1>2, <2>1, <2>4 DEF Typed
    <3>2. QED BY <2>1, <2>2, <2>3, <3>1
  <2>5. CASE u = t /\ t # NoTurn
    <3>1. turns'[u] = after
      BY <1>2, <2>5 DEF Typed
    <3>2. src # Mic
      <4>1. SUFFICES ASSUME src = Mic PROVE FALSE
        OBVIOUS
      <4>2. m \in Segments /\ SourceOf(m) = Mic /\ SourceOf(s) = Mic /\ Turn[m] = Turn[s]
        BY <1>1, <1>13, <2>2, <2>5, <4>1, Belongs
      <4>3. m = s
        BY <1>1, <2>5, <4>2, OneSegmentPerTurnAndSource
      <4>4. QED BY <4>3
    <3>3. events \in SUBSET Segments
      OBVIOUS
    <3>4. after # None => turns[u] # None /\ (after = turns[u] \/ Advanced(turns[u], src, events, after))
      BY <1>1, <1>14, <2>5, <3>3, CompleteFacts
    <3>5. after # None => Mic \notin after.completed
      BY <2>3, <3>2, <3>4 DEF Advanced
    <3>6. QED BY <2>1, <2>2, <3>1, <3>5
  <2>6. QED BY <2>4, <2>5
<1>6. ASSUME NEW r \in Taken
      PROVE  /\ r \in seen'
             /\ Turn[r] # NoTurn =>
                /\ \E m \in From(Mic) \cap seen' : Turn[m] = Turn[r]
                /\ turns'[Turn[r]] # None => Mic \notin turns'[Turn[r]].completed
  BY <1>2, <1>5, <1>6 DEF Spent
<1>7. ASSUME voice' # None, NEW r \in voice'.events PROVE r \notin Taken
  <2>1. CASE voice' = voice
    BY <1>7, <2>1 DEF Spent
  <2>2. CASE voice' = [events |-> events \cup (IF voice = None THEN {} ELSE voice.events),
                       armed |-> TRUE]
    <3>1. r = s \/ (voice # None /\ r \in voice.events)
      BY <1>7, <2>2
    <3>2. QED BY <1>4, <3>1 DEF Spent
  <2>3. QED BY <1>2, <2>1, <2>2
<1>8. consumer'.at = "trigger" => consumer'.seg \notin Taken
  <2>1. CASE consumer' = Idle
    BY <2>1 DEF Idle
  <2>2. CASE consumer' = [consumer EXCEPT !.at = "trigger"] /\ consumer.seg = s
    <3>1. consumer'.seg = s
      BY <2>2 DEF Typed, ConsumerRec
    <3>2. QED BY <1>4, <3>1
  <2>3. QED BY <1>2, <2>1, <2>2
<1>9. QED BY <1>3, <1>6, <1>7, <1>8 DEF Spent

\* The rounds stay apart, and what they took stays out of what is gathered.
LEMMA RoundsBackend ==
  ASSUME Typed, Fifo, Gathered, Apart, Spent, Backend
  PROVE  Apart' /\ Spent'
<1> USE DEF media, cooling
<1>0. consumer.at # "idle" => session # "stopped"
  BY DEF Fifo
<1>1. ASSUME UNCHANGED <<session, turns, voice, seen, carriers, delta, heard>>,
             consumer'.at = "trigger" => consumer' = consumer
      PROVE  Apart' /\ Spent'
  BY <1>1, ApartFrame, SpentFrame
<1>2. ASSUME NEW src \in Sources,
             TranscriptionFails(src) \/ IgnoreFinal(src) \/ TextFinal(src)
      PROVE  Apart' /\ Spent'
  <2>1. CASE TranscriptionFails(src)
    BY <1>1, <2>1 DEF TranscriptionFails
  <2>2. CASE IgnoreFinal(src)
    BY <1>1, <2>2 DEF IgnoreFinal
  <2>3. CASE TextFinal(src)
    <3>1. consumer'.at = "append"
      BY <2>3 DEF TextFinal
    <3>2. QED BY <1>1, <2>3, <3>1 DEF TextFinal
  <2>4. QED BY <1>2, <2>1, <2>2, <2>3
<1>3. ASSUME NEW src \in Sources, NEW valid \in BOOLEAN, BlankFinal(src, valid)
      PROVE  Apart' /\ Spent'
  <2>1. /\ TakeFinal(src) /\ Head(asr[src]) \notin seen
        /\ UNCHANGED <<session, carriers, delta, heard>>
    BY <1>3 DEF BlankFinal
  <2>2. PICK x \in Segments : x = Head(asr[src]) /\ CommittedAudioFor(x, src) = x
    BY <2>1, TakeFacts
  <2>3. FinishFinal(x, x, {}, valid) /\ x \notin seen /\ session # "stopped"
    BY <1>3, <2>1, <2>2, TakeFacts DEF BlankFinal
  <2>4. QED BY <2>1, <2>3, FinishSpent, ApartFrame
<1>4. ASSUME AppendEvent \/ AppendFails \/ RetryFinal PROVE Apart' /\ Spent'
  <2>1. consumer \in ConsumerRec
    BY DEF Typed
  <2>2. consumer'.at # "trigger" /\ UNCHANGED <<session, turns, voice, seen, carriers, delta, heard>>
    <3>1. CASE AppendEvent
      BY <2>1, <3>1 DEF AppendEvent, ConsumerRec
    <3>2. CASE AppendFails
      BY <2>1, <3>2 DEF AppendFails, ConsumerRec
    <3>3. CASE RetryFinal
      <4>1. PICK x : x = CommittedAudioFor(consumer.seg, SourceOf(consumer.seg))
        OBVIOUS
      <4>2. consumer' = [consumer EXCEPT !.at = "append", !.audio = x] \/ consumer' = Idle
        BY <3>3, <4>1 DEF RetryFinal
      <4>3. CASE consumer' = Idle
        BY <3>3, <4>3 DEF RetryFinal, Idle
      <4>4. CASE consumer' = [consumer EXCEPT !.at = "append", !.audio = x]
        BY <2>1, <3>3, <4>4 DEF RetryFinal, ConsumerRec
      <4>5. QED BY <4>2, <4>3, <4>4
    <3>4. QED BY <1>4, <3>1, <3>2, <3>3
  <2>3. QED BY <1>1, <2>2
<1>5. ASSUME DiscardFailedFinal PROVE Apart' /\ Spent'
  <2>1. PICK x \in Segments : x = consumer.seg
    BY <1>5, HandTyped DEF DiscardFailedFinal
  <2>2. PICK audio \in Segments \cup {None} : audio = CommittedAudioFor(x, SourceOf(x))
    BY AudioTyped, Belongs
  <2>3. PICK t \in Turns \cup {NoTurn} : t = IF audio = None THEN NoTurn ELSE Turn[audio]
    BY Belongs
  <2>4. /\ DropTurn(t) /\ consumer' = Idle
        /\ UNCHANGED <<seen, voice, carriers, delta, heard, session>>
    BY <1>5, <2>1, <2>2, <2>3 DEF DiscardFailedFinal
  <2>5. \A u \in Turns : turns'[u] # None => turns'[u] = turns[u]
    BY <2>4 DEF DropTurn, Typed
  <2>6. consumer'.at # "trigger"
    BY <2>4 DEF Idle
  <2>7. QED BY <2>4, <2>5, <2>6, ApartFrame, SpentFrame
<1>6. ASSUME FinishTranscript PROVE Apart' /\ Spent'
  <2>1. Working /\ session # "stopped"
    BY <1>0, <1>6 DEF FinishTranscript, Working
  <2>2. PICK x \in Segments : x = consumer.seg /\ consumer.audio = x /\ x \notin seen
    BY <2>1 DEF Fifo
  <2>3. FinishFinal(x, x, {x}, TRUE) /\ UNCHANGED <<session, carriers, delta, heard>>
    BY <1>6, <2>2 DEF FinishTranscript
  <2>4. {x} \in SUBSET {x} /\ TRUE \in BOOLEAN
    OBVIOUS
  <2>5. QED BY <2>1, <2>2, <2>3, <2>4, FinishSpent, ApartFrame
<1>7. ASSUME NEW t \in Turns, ExpireTurn(t) \/ FinalizeTurn(t) PROVE Apart' /\ Spent'
  <2>1. /\ turns[t] # None /\ turns[t] \in TurnRec /\ session # "stopped"
        /\ turns' = [turns EXCEPT ![t] = None]
        /\ carriers' = carriers \cup {[events |-> turns[t].events, at |-> "decide"]}
        /\ UNCHANGED <<delta, heard, seen, session, voice, consumer>>
    BY <1>7 DEF ExpireTurn, FinalizeTurn, Active, Typed
  <2>2. TurnSound(t, turns[t], seen)
    BY <2>1 DEF Gathered
  <2>3. Mic \in turns[t].completed
    BY <1>7, <2>2 DEF ExpireTurn, FinalizeTurn, TurnSound
  <2>4. PICK m \in From(Mic) \cap seen : Turn[m] = t
    BY <2>2, <2>3 DEF TurnSound
  <2>5. PICK n : n = [events |-> turns[t].events, at |-> "decide"]
    OBVIOUS
  <2>6. /\ n.events = turns[t].events /\ n.events \subseteq Segments
        /\ \A s \in n.events : Turn[s] = t /\ s \in seen
    BY <2>1, <2>2, <2>5 DEF TurnRec, TurnSound
  <2>7. t # NoTurn
    BY Belongs
  <2>8. ASSUME NEW s \in n.events, NEW r \in Taken, Mates(s, r) PROVE FALSE
    <3>1. Turn[r] = t
      BY <2>6, <2>8, MatesFacts
    <3>2. QED BY <2>1, <2>3, <2>7, <3>1 DEF Spent
  <2>9. Apart' /\ \A s : s \in Taken' => s \in Taken \/ s \in n.events
    BY <2>1, <2>5, <2>6, <2>8, CarrierAdded
  <2>10. ASSUME NEW s \in Taken'
         PROVE  /\ s \in seen
                /\ Turn[s] # NoTurn =>
                    /\ \E k \in From(Mic) \cap seen : Turn[k] = Turn[s]
                    /\ turns'[Turn[s]] # None => Mic \notin turns'[Turn[s]].completed
    <3>1. CASE s \in n.events
      BY <2>1, <2>4, <2>6, <3>1 DEF Typed
    <3>2. CASE s \in Taken
      <4>1. Turn[s] # NoTurn => Turn[s] \in Turns
        BY <3>2, Belongs DEF Taken
      <4>2. Turn[s] # NoTurn /\ turns'[Turn[s]] # None => turns'[Turn[s]] = turns[Turn[s]]
        BY <2>1, <4>1 DEF Typed
      <4>3. QED BY <2>1, <3>2, <4>2 DEF Spent
    <3>3. QED BY <2>9, <2>10, <3>1, <3>2
  <2>11. voice' # None => \A s \in voice'.events : s \notin Taken'
    BY <2>1, <2>6, <2>7, <2>9 DEF Gathered, Spent
  <2>12. consumer'.at = "trigger" => consumer'.seg \notin Taken'
    <3>1. consumer.at = "trigger" => Turn[consumer.seg] = NoTurn /\ consumer.seg \notin Taken
      BY DEF Gathered, Spent
    <3>2. \A s \in n.events : Turn[s] # NoTurn
      BY <2>6, <2>7
    <3>3. consumer' = consumer
      BY <2>1
    <3>4. QED BY <2>9, <3>1, <3>2, <3>3
  <2>13. seen' = seen
    BY <2>1
  <2>14. QED BY <2>9, <2>10, <2>11, <2>12, <2>13 DEF Spent
<1>8. ASSUME FinalizeVoice PROVE Apart' /\ Spent'
  <2>1. /\ voice # None /\ voice' = None /\ session # "stopped"
        /\ carriers' = carriers \cup {[events |-> voice.events, at |-> "decide"]}
        /\ UNCHANGED <<delta, heard, seen, session, turns, consumer>>
    BY <1>8 DEF FinalizeVoice, Active
  <2>2. PICK n : n = [events |-> voice.events, at |-> "decide"]
    OBVIOUS
  <2>3. \A s \in n.events : Turn[s] = NoTurn /\ s \in seen /\ s \in From(Mic) /\ s \notin Taken
    BY <2>1, <2>2 DEF Gathered, Spent
  <2>4. n.events \subseteq Segments
    BY <2>3 DEF Typed
  <2>5. \A s \in n.events, r \in Taken : ~Mates(s, r)
    BY <2>3 DEF Mates
  <2>6. Apart' /\ \A s : s \in Taken' => s \in Taken \/ s \in n.events
    BY <2>1, <2>2, <2>4, <2>5, CarrierAdded
  <2>7. consumer'.at = "trigger" => consumer'.seg \notin Taken'
    <3>1. \A s \in From(Mic) : s \notin From(Sys)
      BY Belongs
    <3>2. QED BY <2>1, <2>3, <2>6, <3>1 DEF Gathered, Spent
  <2>8. ASSUME NEW s \in Taken'
        PROVE  /\ s \in seen
               /\ Turn[s] # NoTurn =>
                    /\ \E k \in From(Mic) \cap seen : Turn[k] = Turn[s]
                    /\ turns[Turn[s]] # None => Mic \notin turns[Turn[s]].completed
    BY <2>1, <2>3, <2>6, <2>8 DEF Spent
  <2>9. seen' = seen /\ turns' = turns /\ voice' = None
    BY <2>1
  <2>10. QED BY <2>6, <2>7, <2>8, <2>9 DEF Spent
<1>9. ASSUME FlushCooldown PROVE Apart' /\ Spent'
  <2>1. PICK n : n = [events |-> delta, at |-> "submit"]
    OBVIOUS
  <2>2. /\ carriers' = (carriers \ {}) \cup {n} /\ delta' = {} /\ heard' = heard
        /\ UNCHANGED <<session, seen, turns, voice, consumer>>
    BY <1>9, <2>1 DEF FlushCooldown
  <2>3. \A s \in n.events : s \in delta
    BY <2>1
  <2>4. Apart' /\ Taken' \subseteq Taken
    BY <2>2, <2>3, CarrierMerged
  <2>5. QED BY <2>2, <2>4, SpentShrinks
<1>10. ASSUME NEW c \in carriers, ScheduleVoice(c) PROVE Apart' /\ Spent'
  <2>1. UNCHANGED <<session, seen, turns, voice, consumer>> /\ heard' = heard
    BY <1>10 DEF ScheduleVoice
  <2>2. Apart' /\ Taken' \subseteq Taken
    <3>1. CASE StartRound(c)
      <4>1. PICK n : n = [events |-> c.events \cup delta, at |-> "submit"]
        OBVIOUS
      <4>2. PICK C : C = {c}
        OBVIOUS
      <4>3. C \subseteq carriers /\ carriers' = (carriers \ C) \cup {n} /\ delta' = {} /\ heard' = heard
        BY <2>1, <3>1, <4>1, <4>2 DEF StartRound
      <4>4. n.events = c.events \cup delta
        BY <4>1
      <4>5. \A s \in n.events : s \in delta \/ \E d \in C : s \in d.events
        BY <4>2, <4>4
      <4>6. QED BY <4>3, <4>5, CarrierMerged
    <3>2. CASE HoldBack(c)
      BY <2>1, <3>2, CarrierHeld DEF HoldBack
    <3>3. CASE carriers' = carriers \ {c} /\ UNCHANGED cooling
      BY <2>1, <3>3, CarrierGone
    <3>4. QED BY <1>10, <3>1, <3>2, <3>3 DEF ScheduleVoice
  <2>3. QED BY <2>1, <2>2, SpentShrinks
<1>11. ASSUME NEW c \in carriers, ScheduleObservation(c) PROVE Apart' /\ Spent'
  <2>1. /\ UNCHANGED <<session, seen, turns, voice, consumer>> /\ delta' = delta
        /\ carriers' = carriers \ {c}
    BY <1>11 DEF ScheduleObservation
  <2>2. Apart' /\ Taken' \subseteq Taken
    <3>1. CASE heard' = heard
      BY <2>1, <3>1, CarrierGone
    <3>2. CASE heard' = [s \in Segments |-> IF s \in c.events THEN heard[s] + 1 ELSE heard[s]]
      BY <2>1, <3>2, CarrierHeard
    <3>3. QED BY <1>11, <3>1, <3>2 DEF ScheduleObservation
  <2>3. QED BY <2>1, <2>2, SpentShrinks
<1>12. ASSUME CooldownOver PROVE Apart' /\ Spent'
  BY <1>1, <1>12 DEF CooldownOver
<1>13. ASSUME TriggerSystemAudio PROVE Apart' /\ Spent'
  <2>1. PICK x \in Segments : x = consumer.seg
    BY <1>13, HandTyped DEF TriggerSystemAudio
  <2>2. /\ x \notin Taken /\ x \in seen /\ x \in From(Sys) /\ Turn[x] = NoTurn
    BY <1>13, <2>1 DEF TriggerSystemAudio, Spent, Gathered
  <2>3. /\ UNCHANGED <<session, seen, turns, voice, carriers, delta>> /\ consumer' = Idle
        /\ heard' = heard \/ heard' = [heard EXCEPT ![x] = @ + 1]
    BY <1>13, <2>1 DEF TriggerSystemAudio
  <2>4. \A r \in Segments \ {x} : heard'[r] = heard[r]
    BY <2>3 DEF Typed
  <2>5. \A s : InRound(s)' <=> InRound(s)
    BY <2>3 DEF InRound
  <2>6. \A s : s \in Taken' => s \in Taken \/ s = x
    BY <2>3, <2>4, <2>5 DEF Taken
  <2>7. Apart'
    <3>1. ASSUME NEW s \in Segments, NEW r \in Segments, InRound(s) \/ s \in delta, Mates(s, r)
          PROVE  heard'[r] = 0
      <4>1. s \in Taken
        BY <3>1 DEF Taken
      <4>2. r # x
        BY <2>2, <3>1, <4>1 DEF Mates
      <4>3. QED BY <2>4, <3>1, <4>2 DEF Apart
    <3>2. QED BY <2>3, <2>5, <3>1 DEF Apart
  <2>8. ASSUME voice # None, NEW s \in voice.events PROVE s \notin Taken'
    <3>1. s \in From(Mic) /\ s \notin Taken
      BY <2>8 DEF Gathered, Spent
    <3>2. s # x
      BY <2>2, <3>1, Belongs
    <3>3. QED BY <2>6, <3>1, <3>2
  <2>9. consumer'.at # "trigger"
    BY <2>3 DEF Idle
  <2>10. ASSUME session # "stopped", NEW s \in Taken'
         PROVE  /\ s \in seen
                /\ Turn[s] # NoTurn =>
                    /\ \E k \in From(Mic) \cap seen : Turn[k] = Turn[s]
                    /\ turns[Turn[s]] # None => Mic \notin turns[Turn[s]].completed
    BY <2>2, <2>6, <2>10 DEF Spent
  <2>11. UNCHANGED <<session, seen, turns, voice>>
    BY <2>3
  <2>12. QED BY <2>7, <2>8, <2>9, <2>10, <2>11 DEF Spent
<1>14. QED
  BY <1>2, <1>3, <1>4, <1>5, <1>6, <1>7, <1>8, <1>9, <1>10, <1>11, <1>12, <1>13 DEF Backend

\* The same for the client, the provider and the session.
LEMMA RoundsEnvironment ==
  ASSUME Typed, Gathered, Apart, Spent, Environment
  PROVE  Apart' /\ Spent'
<1> USE DEF media, cooling
<1>1. ASSUME NEW src \in Sources, SubmitAudio(src) PROVE Apart' /\ Spent'
  <2>1. PICK s : s = Head(unsent[src])
    OBVIOUS
  <2>2. /\ RegisterCommittedAudio(s, src)
        /\ UNCHANGED <<session, voice, consumer, seen, carriers, delta, heard>> /\ session # "stopped"
    BY <1>1, <2>1 DEF SubmitAudio, Accepting
  <2>3. ASSUME NEW u \in Turns, turns'[u] # None, Mic \in turns'[u].completed
        PROVE  turns[u] # None /\ Mic \in turns[u].completed
    <3>1. CASE turns'[u] = turns[u]
      BY <2>3, <3>1
    <3>2. CASE turns'[u] # turns[u]
      <4>1. PICK turn : turn = IF turns[u] = None THEN NewTurn ELSE turns[u]
        OBVIOUS
      <4>2. turns'[u] = [turn EXCEPT !.committed = @ \cup {src}]
        BY <2>2, <3>2, <4>1 DEF RegisterCommittedAudio, Typed
      <4>3. NewTurn \in TurnRec /\ NewTurn.completed = {}
        BY DEF NewTurn, TurnRec
      <4>4. turn \in TurnRec
        BY <4>1, <4>3 DEF Typed
      <4>5. turns'[u].completed = turn.completed
        BY <4>2, <4>4 DEF TurnRec
      <4>6. QED BY <2>3, <4>1, <4>3, <4>5
    <3>3. QED BY <3>1, <3>2
  <2>4. QED BY <2>2, <2>3, ApartFrame, SpentFrame
<1>2. ASSUME NEW src \in Sources, CommitFails(src) PROVE Apart' /\ Spent'
  <2>1. unsent[src] \in Seq(Segments)
    BY DEF Typed
  <2>2. PICK s \in Segments : s = Head(unsent[src])
    BY <1>2, <2>1, TailFacts DEF CommitFails
  <2>3. DropTurn(Turn[s]) /\ UNCHANGED <<seen, voice, carriers, delta, heard, session, consumer>>
        /\ session # "stopped"
    BY <1>2, <2>2 DEF CommitFails, Accepting
  <2>4. \A u \in Turns : turns'[u] # None => turns'[u] = turns[u]
    BY <2>3 DEF DropTurn, Typed
  <2>5. QED BY <2>3, <2>4, ApartFrame, SpentFrame
<1>3. ASSUME NotifyVoiceActivity PROVE Apart' /\ Spent'
  <2>1. voice \in VoiceRec /\ voice' = [voice EXCEPT !.armed = FALSE] /\ session # "stopped"
        /\ voice # None
    BY <1>3 DEF NotifyVoiceActivity, Typed, Active
  <2>2. voice'.events = voice.events
    BY <2>1 DEF VoiceRec
  <2>3. UNCHANGED <<seen, turns, carriers, delta, heard, session, consumer>>
    BY <1>3 DEF NotifyVoiceActivity
  <2>4. QED BY <2>1, <2>2, <2>3, ApartFrame, SpentFrame
<1>4. ASSUME NEW s \in Segments, ResendFinal(s) PROVE Apart' /\ Spent'
  <2>1. UNCHANGED <<seen, turns, voice, carriers, delta, heard, session, consumer>>
    BY <1>4 DEF ResendFinal
  <2>2. Apart' /\ Taken' \subseteq Taken
    BY <2>1, ApartFrame
  <2>3. QED BY <2>1, <2>2, SpentShrinks
<1>5. ASSUME PauseSession \/ ResumeSession \/ BeginStop PROVE Apart' /\ Spent'
  BY <1>5, ApartFrame, SpentFrame DEF PauseSession, ResumeSession, BeginStop
<1>6. ASSUME StopIngest PROVE Apart' /\ Spent'
  <2>1. /\ UNCHANGED <<carriers, heard>> /\ delta' = {} /\ voice' = None
        /\ session' = "stopped" /\ consumer' = Idle
    BY <1>6 DEF StopIngest
  <2>2. \A s : InRound(s)' <=> InRound(s)
    BY <2>1 DEF InRound
  <2>3. Apart'
    BY <2>1, <2>2 DEF Apart
  <2>4. Spent'
    BY <2>1 DEF Spent, Idle
  <2>5. QED BY <2>3, <2>4
<1>7. QED BY <1>1, <1>2, <1>3, <1>4, <1>5, <1>6 DEF Environment

-----------------------------------------------------------------------------
\* It holds when a session starts.
LEMMA InvInit ==
  ASSUME Init
  PROVE  IInv
<1>1. unsent \in [Sources -> Seq(Segments)] /\ \A src \in Sources : IsInjective(unsent[src])
  <2>1. PICK stream \in Streams : unsent = stream
    BY DEF Init
  <2>2. QED BY <2>1, StreamsAreSequences
<1>2. Idle \in ConsumerRec /\ Idle.at = "idle"
  BY BoundsAreNumbers DEF ConsumerRec, Idle
<1>3. <<>> \in Seq(Segments)
  OBVIOUS
<1>4. Typed
  BY <1>1, <1>2, <1>3 DEF Init, Typed
<1>5. ASSUME NEW src \in Sources PROVE QueueSound(src)
  <2>1. PICK u : u = unsent[src]
    OBVIOUS
  <2>2. ToSet(u) \subseteq From(src)
    BY <2>1 DEF Init, From
  <2>3. ToSet(<<>>) = {} /\ IsInjective(<<>>) /\ DOMAIN <<>> = {}
    BY DEF ToSet, IsInjective
  <2>4. InOrder(u, <<>>, <<>>, {})
    BY <1>1, <2>1, <2>3 DEF InOrder
  <2>5. asr[src] = <<>> /\ pending[src] = <<>> /\ seen = {}
    BY DEF Init
  <2>6. QED BY <2>1, <2>2, <2>3, <2>4, <2>5 DEF QueueSound
<1>6. Fifo
  BY <1>2, <1>5 DEF Init, Fifo, Working
<1>7. Counted
  BY DEF Init, Counted
<1>8. Gathered
  BY <1>2 DEF Init, Gathered
<1>9. Taken = {}
  BY DEF Init, Taken, InRound
<1>10. Apart
  BY DEF Init, Apart, InRound
<1>11. Spent
  BY <1>2, <1>9 DEF Init, Spent
<1>12. QED BY <1>4, <1>6, <1>7, <1>8, <1>10, <1>11 DEF IInv

\* Every step keeps it.
LEMMA InvStep ==
  ASSUME IInv, [Next]_vars
  PROVE  IInv'
<1>1. CASE Backend
  BY <1>1, TypedBackend, FifoBackend, CountedStep, GatheredBackend, RoundsBackend DEF IInv, Next
<1>2. CASE Environment
  BY <1>2, TypedEnvironment, FifoEnvironment, CountedStep, GatheredEnvironment, RoundsEnvironment
  DEF IInv, Next
<1>3. CASE UNCHANGED vars
  <2> USE DEF vars, media, cooling
  <2>1. Typed'
    BY <1>3 DEF IInv, Typed
  <2>2. Fifo'
    BY <1>3, FifoFrame DEF IInv
  <2>3. Counted' /\ Gathered'
    BY <1>3 DEF IInv, Counted, Gathered
  <2>4. Apart' /\ Spent'
    BY <1>3, ApartFrame, SpentShrinks DEF IInv
  <2>5. QED BY <2>1, <2>2, <2>3, <2>4 DEF IInv
<1>4. QED BY <1>1, <1>2, <1>3 DEF Next

\* It holds in every state of the specification.
LEMMA Invariance == Spec => []IInv
BY InvInit, InvStep, PTL DEF Spec

\* The types of the run follow from it.
LEMMA InvTypes ==
  ASSUME IInv
  PROVE  TypeOK
<1>1. Typed /\ Gathered
  BY DEF IInv
<1>2. ASSUME NEW t \in Turns, turns[t] # None
      PROVE  /\ turns[t].committed \subseteq Sources
             /\ turns[t].completed \subseteq turns[t].committed
             /\ turns[t].events \subseteq Segments
             /\ turns[t].timer \in {"none", "expire", "finalize"}
  BY <1>1, <1>2 DEF Typed, Gathered, TurnSound, TurnRec
<1>3. voice # None => voice.events \subseteq Segments /\ voice.armed \in BOOLEAN
  BY <1>1 DEF Typed, VoiceRec
<1>4. /\ consumer.at \in {"idle", "append", "again", "finish", "trigger"}
      /\ consumer.attempt \in 1..MaxAttempts
  BY <1>1 DEF Typed, ConsumerRec
<1>5. \A c \in carriers : c.events \subseteq Segments /\ c.at \in {"decide", "submit"}
  BY <1>1 DEF Typed, CarrierRec
<1>6. QED BY <1>1, <1>2, <1>3, <1>4, <1>5 DEF TypeOK, Typed

\* What was said is kept: it becomes one Room Event at most, in its own turn, and
\* with a timer that will bring it on.
THEOREM VoiceTurnsKept == Spec => []TurnsKept
<1>1. ASSUME IInv PROVE TurnsKept
  <2>1. TypeOK
    BY <1>1, InvTypes
  <2>2. SpokenOnce
    BY <1>1 DEF IInv, Counted, SpokenOnce
  <2>3. OwnTurn
    BY <1>1 DEF IInv, Gathered, TurnSound, OwnTurn
  <2>4. NoStrandedRound
    BY <1>1 DEF IInv, Gathered, TurnSound, NoStrandedRound
  <2>5. QED BY <2>1, <2>2, <2>3, <2>4 DEF TurnsKept
<1>2. QED BY <1>1, Invariance, PTL

\* Who was heard, and who went with him, is not heard again.
LEMMA HeardStep ==
  ASSUME IInv, [Next]_vars, NEW s \in Segments, NEW r \in Segments, heard[s] > 0, Mates(s, r)
  PROVE  heard'[r] = heard[r]
<1> USE DEF media, cooling
<1>0. heard[s] # 0 /\ Mates(r, s)
  BY MatesFacts DEF IInv, Typed
<1>1. CASE heard' = heard
  BY <1>1
<1>2. ASSUME NEW c \in carriers, ScheduleObservation(c) PROVE heard'[r] = heard[r]
  <2>1. r \notin c.events
    BY <1>0 DEF IInv, Apart, InRound
  <2>2. heard' = heard \/
        heard' = [x \in Segments |-> IF x \in c.events THEN heard[x] + 1 ELSE heard[x]]
    BY <1>2 DEF ScheduleObservation
  <2>3. QED BY <2>1, <2>2
<1>3. ASSUME TriggerSystemAudio PROVE heard'[r] = heard[r]
  <2>1. Typed /\ Fifo /\ Gathered /\ Spent
    BY DEF IInv
  <2>2. PICK x \in Segments : x = consumer.seg
    BY <1>3, <2>1, HandTyped DEF TriggerSystemAudio
  <2>3. x \notin Taken /\ Turn[x] = NoTurn
    BY <1>3, <2>1, <2>2 DEF TriggerSystemAudio, Spent, Gathered
  <2>4. s \in Taken
    BY <1>0 DEF Taken
  <2>5. r # x
    BY <2>3, <2>4 DEF Mates
  <2>6. heard' = heard \/ heard' = [heard EXCEPT ![x] = @ + 1]
    BY <1>3, <2>2 DEF TriggerSystemAudio
  <2>7. QED BY <2>1, <2>5, <2>6 DEF Typed
<1>4. ASSUME NEW src \in Sources, \/ TranscriptionFails(src) \/ IgnoreFinal(src) \/ TextFinal(src)
                                  \/ SubmitAudio(src) \/ CommitFails(src)
      PROVE  heard' = heard
  BY <1>4 DEF TranscriptionFails, IgnoreFinal, TextFinal, SubmitAudio, CommitFails
<1>5. ASSUME NEW src \in Sources, NEW valid \in BOOLEAN, BlankFinal(src, valid)
      PROVE  heard' = heard
  BY <1>5 DEF BlankFinal
<1>6. ASSUME AppendEvent \/ AppendFails \/ RetryFinal \/ DiscardFailedFinal \/ FinishTranscript
      PROVE  heard' = heard
  BY <1>6 DEF AppendEvent, AppendFails, RetryFinal, DiscardFailedFinal, FinishTranscript
<1>7. ASSUME NEW t \in Turns, ExpireTurn(t) \/ FinalizeTurn(t) PROVE heard' = heard
  BY <1>7 DEF ExpireTurn, FinalizeTurn
<1>8. ASSUME FinalizeVoice \/ FlushCooldown \/ CooldownOver \/ NotifyVoiceActivity PROVE heard' = heard
  BY <1>8 DEF FinalizeVoice, FlushCooldown, CooldownOver, NotifyVoiceActivity
<1>9. ASSUME NEW c \in carriers, ScheduleVoice(c) PROVE heard' = heard
  BY <1>9 DEF ScheduleVoice
<1>10. ASSUME NEW x \in Segments, ResendFinal(x) PROVE heard' = heard
  BY <1>10 DEF ResendFinal
<1>11. ASSUME PauseSession \/ ResumeSession \/ BeginStop \/ StopIngest PROVE heard' = heard
  BY <1>11 DEF PauseSession, ResumeSession, BeginStop, StopIngest
<1>12. CASE UNCHANGED vars
  BY <1>1, <1>12 DEF vars
<1>13. QED
  BY <1>1, <1>2, <1>3, <1>4, <1>5, <1>6, <1>7, <1>8, <1>9, <1>10, <1>11, <1>12
  DEF Next, Backend, Environment

\* Of a turn there is one round: once an event of it went into an observation,
\* no event of the same turn goes into another one.
THEOREM VoiceTurnHeardOnce == Spec => TurnHeardOnce
<1>1. ASSUME IInv, [Next]_vars
      PROVE  \A s, r \in Segments :
               /\ heard[s] > 0
               /\ s = r \/ (Turn[s] = Turn[r] /\ Turn[s] # NoTurn)
               => heard'[r] = heard[r]
  BY <1>1, HeardStep DEF Mates
<1>2. QED BY <1>1, Invariance, PTL DEF Spec, TurnHeardOnce

============================================================================
