--------------------------- MODULE WaveDispatch_proofs ---------------------------
(***************************************************************************)
(* Proofs about ViewerDispatch, for any requests, viewers, limits and      *)
(* number of sessions: the lanes count exactly what the requests hold, and *)
(* what a request is told agrees with what is in the Room.  And about      *)
(* WaveCoordinator, whose waves these requests come from, for any number   *)
(* of waves, frames and hot updates: frames are kept as long as a wave     *)
(* looks at them, ambient waves are bounded, and what a wave works with    *)
(* (WaveInputs) is sound, for any size of audience, window and budget.     *)
(***************************************************************************)
EXTENDS ViewerDispatch, WaveCoordinator, FiniteSetTheorems, SequenceTheorems, TLAPS

---------------------------------------------------------------------------
(* Lists.                                                                  *)

Elements(s) == {s[k] : k \in DOMAIN s}
Distinct(s) == \A j, k \in DOMAIN s : s[j] = s[k] => j = k

Less == {p \in Nat \X Nat : p[1] < p[2]}
\* The order of the natural numbers is well founded.
LEMMA LessWF == IsWellFoundedOn(Less, Nat)
BY NatLessThanWellFounded DEF OpToRel, Less

\* Induction: a set of numbers with 0 that is closed under successor is Nat.
LEMMA Inductive ==
  ASSUME NEW T \in SUBSET Nat, 0 \in T, \A n \in T : n + 1 \in T PROVE T = Nat
<1>1. SUFFICES ASSUME T # Nat PROVE FALSE
  OBVIOUS
<1>2. PICK m \in Nat \ T : \A n \in Nat \ T : ~(<<n, m>> \in Less)
  <2>1. Nat \ T \subseteq Nat /\ Nat \ T # {}
    BY <1>1
  <2>2. QED BY <2>1, LessWF, WFMin
<1>3. m - 1 \in Nat /\ m - 1 < m
  BY <1>2
<1>4. m - 1 \in T
  <2>1. <<m - 1, m>> \in Less
    BY <1>3 DEF Less
  <2>2. QED BY <1>2, <1>3, <2>1
<1>5. m - 1 + 1 = m
  BY <1>2
<1>6. QED BY <1>2, <1>4, <1>5

\* One step of the recursion in Excluding.
Step(s, S, g, n) ==
  IF n = 0 THEN <<>> ELSE IF s[n] \in S THEN g[n-1] ELSE Append(g[n-1], s[n])

\* The recursion has a solution: extended number by number.
LEMMA KeptExists ==
  ASSUME NEW s, NEW S, NEW N \in Nat
  PROVE  \E g : g = [n \in 0..N |-> Step(s, S, g, n)]
<1> DEFINE T == {m \in Nat : \E g : g = [n \in 0..m |-> Step(s, S, g, n)]}
<1>1. 0 \in T
  <2> DEFINE g == [n \in 0..0 |-> <<>>]
  <2>1. g = [n \in 0..0 |-> Step(s, S, g, n)]
    BY DEF Step
  <2>2. QED BY <2>1
<1>2. ASSUME NEW m \in T PROVE m + 1 \in T
  <2>1. m \in Nat
    OBVIOUS
  <2>2. PICK g : g = [n \in 0..m |-> Step(s, S, g, n)]
    OBVIOUS
  <2> DEFINE h == [n \in 0..m+1 |-> IF n <= m THEN g[n] ELSE Step(s, S, g, n)]
  <2>3. ASSUME NEW n \in 0..m+1 PROVE h[n] = Step(s, S, h, n)
    <3>1. n = 0 \/ (n - 1 \in 0..m /\ h[n-1] = g[n-1])
      BY <2>1
    <3>2. Step(s, S, h, n) = Step(s, S, g, n)
      BY <3>1 DEF Step
    <3>3. h[n] = Step(s, S, g, n)
      <4>1. CASE n <= m
        BY <2>1, <2>2, <4>1
      <4>2. CASE ~(n <= m)
        BY <4>2
      <4>3. QED BY <4>1, <4>2
    <3>4. QED BY <3>2, <3>3
  <2>4. h = [n \in 0..m+1 |-> Step(s, S, h, n)]
    BY <2>3
  <2> HIDE DEF h
  <2>5. \E x : x = [n \in 0..m+1 |-> Step(s, S, x, n)]
    BY <2>4
  <2>6. QED BY <2>1, <2>5
<1>3. T \in SUBSET Nat
  OBVIOUS
<1> HIDE DEF T
<1>4. T = Nat
  BY <1>1, <1>2, <1>3, Inductive
<1>5. N \in T
  BY <1>4
<1>6. QED BY <1>5 DEF T

\* And Excluding is its last value.
LEMMA ExcludingSteps ==
  ASSUME NEW s, NEW S, Len(s) \in Nat
  PROVE  \E g : /\ g = [n \in 0..Len(s) |-> Step(s, S, g, n)]
                /\ Excluding(s, S) = g[Len(s)]
<1> DEFINE g == CHOOSE g : g = [n \in 0..Len(s) |-> Step(s, S, g, n)]
<1>1. Excluding(s, S) = g[Len(s)]
  BY DEF Excluding, Step
<1>2. g = [n \in 0..Len(s) |-> Step(s, S, g, n)]
  BY KeptExists
<1>3. QED BY <1>1, <1>2

\* Appending adds one element, and keeps a list of different ones so.
LEMMA AppendFacts ==
  ASSUME NEW A, NEW t \in Seq(A), NEW x \in A
  PROVE  /\ Append(t, x) \in Seq(A)
         /\ Elements(Append(t, x)) = Elements(t) \cup {x}
         /\ Distinct(t) /\ x \notin Elements(t) => Distinct(Append(t, x))
<1>1. /\ Append(t, x) \in Seq(A) /\ Len(Append(t, x)) = Len(t) + 1 /\ Len(t) \in Nat
      /\ DOMAIN t = 1..Len(t) /\ DOMAIN Append(t, x) = 1..Len(t)+1
      /\ \A k \in 1..Len(t) : Append(t, x)[k] = t[k]
      /\ Append(t, x)[Len(t)+1] = x
  OBVIOUS
<1>2. Elements(Append(t, x)) = Elements(t) \cup {x}
  BY <1>1 DEF Elements
<1>3. ASSUME Distinct(t), x \notin Elements(t) PROVE Distinct(Append(t, x))
  BY <1>1, <1>3 DEF Distinct, Elements
<1>4. QED BY <1>1, <1>2, <1>3

\* Excluding S removes exactly the elements of S and repeats none.
LEMMA ExcludingFacts ==
  ASSUME NEW A, NEW s \in Seq(A), NEW S
  PROVE  /\ Excluding(s, S) \in Seq(A)
         /\ Elements(Excluding(s, S)) = Elements(s) \ S
         /\ Distinct(s) => Distinct(Excluding(s, S))
<1>1. Len(s) \in Nat /\ DOMAIN s = 1..Len(s) /\ \A k \in 1..Len(s) : s[k] \in A
  OBVIOUS
<1>2. PICK g : /\ g = [n \in 0..Len(s) |-> Step(s, S, g, n)]
               /\ Excluding(s, S) = g[Len(s)]
  BY <1>1, ExcludingSteps
<1> DEFINE Upto(n) == {s[k] : k \in 1..n}
           P(n) == /\ g[n] \in Seq(A) /\ Elements(g[n]) = Upto(n) \ S
                   /\ Distinct(s) => Distinct(g[n])
           T == {n \in Nat : n <= Len(s) => P(n)}
<1>3. 0 \in T
  <2>1. g[0] = <<>>
    BY <1>1, <1>2 DEF Step
  <2>2. g[0] \in Seq(A) /\ Elements(g[0]) = {} /\ Distinct(g[0])
    BY <2>1 DEF Elements, Distinct
  <2>3. Upto(0) = {}
    OBVIOUS
  <2>4. QED BY <2>2, <2>3
<1>4. ASSUME NEW n \in T, n + 1 <= Len(s) PROVE P(n+1)
  <2>1. n \in Nat /\ n <= Len(s) /\ n + 1 \in 1..Len(s) /\ n + 1 \in 0..Len(s)
    BY <1>1, <1>4
  <2>2. P(n) /\ s[n+1] \in A
    BY <1>1, <2>1
  <2>3. g[n+1] = IF s[n+1] \in S THEN g[n] ELSE Append(g[n], s[n+1])
    <3>1. g[n+1] = Step(s, S, g, n+1)
      BY <1>2, <2>1
    <3>2. n + 1 # 0 /\ n + 1 - 1 = n
      BY <2>1
    <3>3. QED BY <3>1, <3>2 DEF Step
  <2>4. Upto(n+1) = Upto(n) \cup {s[n+1]}
    BY <2>1
  <2>5. Distinct(s) => s[n+1] \notin Upto(n)
    BY <1>1, <2>1 DEF Distinct
  <2> HIDE DEF Upto
  <2>6. CASE s[n+1] \in S
    BY <2>2, <2>3, <2>4, <2>6
  <2>7. CASE s[n+1] \notin S
    <3>1. g[n+1] = Append(g[n], s[n+1])
      BY <2>3, <2>7
    <3>2. g[n] \in Seq(A)
      BY <2>2
    <3>3. /\ Append(g[n], s[n+1]) \in Seq(A)
          /\ Elements(Append(g[n], s[n+1])) = Elements(g[n]) \cup {s[n+1]}
          /\ Distinct(g[n]) /\ s[n+1] \notin Elements(g[n]) => Distinct(Append(g[n], s[n+1]))
      BY <2>2, <3>2, AppendFacts
    <3>4. QED BY <2>2, <2>4, <2>5, <2>7, <3>1, <3>3
  <2>8. QED BY <2>6, <2>7
<1>5. \A n \in T : n + 1 \in T
  <2> HIDE DEF P
  <2>1. QED BY <1>4
<1>6. T \in SUBSET Nat
  OBVIOUS
<1>7. P(Len(s))
  <2> HIDE DEF P
  <2>1. \A n \in Nat : n \in T <=> (n <= Len(s) => P(n))
    OBVIOUS
  <2> HIDE DEF T
  <2>2. T = Nat
    BY <1>3, <1>5, <1>6, Inductive
  <2>3. QED BY <1>1, <2>1, <2>2
<1>8. Upto(Len(s)) = Elements(s)
  BY <1>1 DEF Elements
<1>9. QED BY <1>2, <1>7, <1>8

\* Different elements are as many as the list is long.
LEMMA LenIsCardinality ==
  ASSUME NEW A, NEW s \in Seq(A), Distinct(s)
  PROVE  IsFiniteSet(Elements(s)) /\ Cardinality(Elements(s)) = Len(s)
<1>1. Len(s) \in Nat /\ DOMAIN s = 1..Len(s)
  OBVIOUS
<1>2. s \in Bijection(1..Len(s), Elements(s))
  BY <1>1 DEF Bijection, Injection, Surjection, IsInjective, Elements, Distinct
<1>3. ExistsBijection(1..Len(s), Elements(s))
  BY <1>2 DEF ExistsBijection
<1>4. QED BY <1>1, <1>3, FS_CountingElements, FS_NatBijection

\* A list in two parts: its first n elements, and the rest of it.
First(s, n) == {s[k] : k \in 1..n}
Rest(s, n) == SubSeq(s, n + 1, Len(s))

\* Taking the first n away leaves the others, in order.
LEMMA PartsOf ==
  ASSUME NEW A, NEW s \in Seq(A), Distinct(s), NEW n \in 0..Len(s)
  PROVE  /\ Rest(s, n) \in Seq(A) /\ Len(Rest(s, n)) = Len(s) - n
         /\ Distinct(Rest(s, n)) /\ Elements(Rest(s, n)) = Elements(s) \ First(s, n)
         /\ First(s, n) \subseteq Elements(s)
         /\ IsFiniteSet(First(s, n)) /\ Cardinality(First(s, n)) = n
<1> DEFINE front == {s[k] : k \in 1..n}
           rest == SubSeq(s, n + 1, Len(s))
           first == SubSeq(s, 1, n)
<1>1. Len(s) \in Nat /\ DOMAIN s = 1..Len(s) /\ n \in Nat /\ n <= Len(s)
      /\ \A k \in 1..Len(s) : s[k] \in A
  OBVIOUS
<1>2. /\ rest \in Seq(A) /\ Len(rest) = Len(s) - n
      /\ \A k \in 1..Len(s)-n : rest[k] = s[n+k]
  <2>1. /\ rest \in Seq(A)
        /\ Len(rest) = IF n + 1 <= Len(s) THEN Len(s) - (n + 1) + 1 ELSE 0
        /\ \A k \in 1 .. Len(s) - (n+1) + 1 : rest[k] = s[(n+1)+k-1]
    BY <1>1, SubSeqProperties
  <2>2. QED BY <1>1, <2>1
<1>3. first \in Seq(A) /\ Len(first) = n /\ \A k \in 1..n : first[k] = s[k]
  BY <1>1, SubSeqProperties
<1> HIDE DEF rest, first
<1>4. DOMAIN rest = 1..Len(s)-n /\ DOMAIN first = 1..n
  BY <1>2, <1>3
<1>5. Distinct(rest) /\ Distinct(first)
  <2>1. ASSUME NEW j \in 1..Len(s)-n, NEW k \in 1..Len(s)-n, rest[j] = rest[k] PROVE j = k
    <3>1. n + j \in 1..Len(s) /\ n + k \in 1..Len(s) /\ s[n+j] = s[n+k]
      BY <1>1, <1>2, <2>1
    <3>2. n + j = n + k
      BY <1>1, <3>1 DEF Distinct
    <3>3. QED BY <1>1, <3>2
  <2>2. Distinct(first)
    BY <1>1, <1>3, <1>4 DEF Distinct
  <2>3. QED BY <1>4, <2>1, <2>2 DEF Distinct
<1>6. Elements(first) = front
  BY <1>3, <1>4 DEF Elements
<1>7. Elements(rest) = Elements(s) \ front
  <2>1. ASSUME NEW x \in Elements(rest) PROVE x \in Elements(s) \ front
    <3>1. PICK k \in 1..Len(s)-n : x = rest[k]
      BY <1>4 DEF Elements
    <3>2. n + k \in 1..Len(s) /\ n + k \notin 1..n /\ x = s[n+k]
      BY <1>1, <1>2, <3>1
    <3>3. \A j \in 1..n : s[j] # x
      BY <1>1, <3>2 DEF Distinct
    <3>4. QED BY <1>1, <3>2, <3>3 DEF Elements
  <2>2. ASSUME NEW x \in Elements(s) \ front PROVE x \in Elements(rest)
    <3>1. PICK k \in 1..Len(s) : x = s[k]
      BY <1>1 DEF Elements
    <3>2. k > n
      BY <1>1, <3>1
    <3>3. k - n \in 1..Len(s)-n /\ n + (k - n) = k
      BY <1>1, <3>2
    <3>4. rest[k-n] = x
      BY <1>2, <3>1, <3>3
    <3>5. QED BY <1>4, <3>3, <3>4 DEF Elements
  <2>3. QED BY <2>1, <2>2
<1>8. front \subseteq Elements(s)
  BY <1>1 DEF Elements
<1>9. IsFiniteSet(front) /\ Cardinality(front) = n
  BY <1>3, <1>5, <1>6, LenIsCardinality
<1>10. QED BY <1>2, <1>5, <1>7, <1>8, <1>9 DEF rest, First, Rest

\* The head of a list and what follows it.
LEMMA TailFacts ==
  ASSUME NEW A, NEW s \in Seq(A), s # <<>>, Distinct(s)
  PROVE  /\ Head(s) \in A /\ Head(s) \in Elements(s)
         /\ Tail(s) \in Seq(A) /\ Distinct(Tail(s))
         /\ Elements(Tail(s)) = Elements(s) \ {Head(s)}
<1>1. /\ Len(s) \in Nat \ {0} /\ DOMAIN s = 1..Len(s) /\ Head(s) = s[1] /\ s[1] \in A
      /\ Tail(s) \in Seq(A) /\ DOMAIN Tail(s) = 1..Len(s)-1
      /\ \A k \in 1..Len(s)-1 : Tail(s)[k] = s[k+1]
  OBVIOUS
<1>2. Head(s) \in Elements(s)
  BY <1>1 DEF Elements
<1>3. Distinct(Tail(s))
  <2>1. ASSUME NEW j \in 1..Len(s)-1, NEW k \in 1..Len(s)-1, Tail(s)[j] = Tail(s)[k]
        PROVE  j = k
    <3>1. j + 1 \in 1..Len(s) /\ k + 1 \in 1..Len(s) /\ s[j+1] = s[k+1]
      BY <1>1, <2>1
    <3>2. j + 1 = k + 1
      BY <1>1, <3>1 DEF Distinct
    <3>3. QED BY <1>1, <3>2
  <2>2. QED BY <1>1, <2>1 DEF Distinct
<1>4. Elements(Tail(s)) = Elements(s) \ {Head(s)}
  <2>1. ASSUME NEW x \in Elements(Tail(s)) PROVE x \in Elements(s) \ {Head(s)}
    <3>1. PICK k \in 1..Len(s)-1 : x = s[k+1]
      BY <1>1 DEF Elements
    <3>2. k + 1 \in 1..Len(s) /\ k + 1 # 1 /\ 1 \in 1..Len(s)
      BY <1>1
    <3>3. s[k+1] # s[1]
      BY <1>1, <3>2 DEF Distinct
    <3>4. QED BY <1>1, <3>1, <3>2, <3>3 DEF Elements
  <2>2. ASSUME NEW x \in Elements(s) \ {Head(s)} PROVE x \in Elements(Tail(s))
    <3>1. PICK k \in 1..Len(s) : x = s[k]
      BY <1>1 DEF Elements
    <3>2. k - 1 \in 1..Len(s)-1 /\ (k - 1) + 1 = k
      BY <1>1, <3>1
    <3>3. Tail(s)[k-1] = x
      BY <1>1, <3>1, <3>2
    <3>4. QED BY <1>1, <3>2, <3>3 DEF Elements
  <2>3. QED BY <2>1, <2>2
<1>5. QED BY <1>1, <1>2, <1>3, <1>4

---------------------------------------------------------------------------
(* The inductive invariant.                                                *)

Held(s) == {i \in Items : home[i] = s /\ slot[i] = "held"}
Waits(s) == {i \in Items : home[i] = s /\ slot[i] = "queued"}

\* What LaneCountsSlots and NoIdleSlot say of one lane, and that it lists no
\* request twice.
LaneOK(s) ==
    /\ IsFiniteSet(Held(s)) /\ lane[s].active = Cardinality(Held(s))
    /\ lane[s].active <= MaxInFlight
    /\ Distinct(lane[s].eligible) /\ Elements(lane[s].eligible) = Waits(s)
    /\ Len(lane[s].eligible) = lane[s].queued /\ lane[s].queued <= QueueCapacity
    /\ lane[s].queued > 0 => lane[s].active = MaxInFlight

Lanes == \A s \in Sessions : LaneOK(s)

\* A request belongs to a session from its dispatch on, and only the running
\* session has mailboxes.
PlaceInv ==
    /\ phase = "live" => session \in Sessions
    /\ \A i \in Items : pc[i] = "new" => home[i] = 0 /\ i \notin mailed /\ slot[i] = "none"
    /\ \A i \in Items : pc[i] # "new" => home[i] \in Sessions
    /\ \A i \in mailed : home[i] = session /\ phase = "live"

\* A request passes the output at most once, nothing is decided of it before it
\* left the output, and only a stop takes the worker away from a finished append.
OutputInv ==
    /\ Distinct(queue)
    /\ active # None <=> worker \in {"check", "commit", "deliver", "finish"}
    /\ \A i \in Queued : i \in scheduled /\ verdict[i] = None /\ durable[i] = 0 /\ i # active
    /\ active # None => active \in scheduled /\ verdict[active] = None
    /\ \A i \in scheduled : pc[i] \in {"release", "unwind", "gone"}
    /\ \A i \in Items : i \notin scheduled => durable[i] = 0
    /\ \A i \in Items : sent[i] <= durable[i]
    /\ worker \in {"check", "commit"} => durable[active] = sent[active] /\ sent[active] < Lines
    /\ worker = "deliver" => durable[active] = sent[active] + 1
    /\ worker = "finish" /\ durable[active] > sent[active] =>
          reason[active] = "session_stopped" /\ phase = "stopping"

\* Only the end of a request's own way, or what cuts it short, decides it.
Undecided ==
    \A i \in Items :
        pc[i] \in {"new", "waiting", "attempt", "fence", "schedule"} => verdict[i] = None

IInv == TypeOK /\ Lanes /\ PlaceInv /\ OutputInv /\ Undecided /\ ReportMatchesRoom

---------------------------------------------------------------------------
(* Lanes.                                                                  *)

\* The lanes of a session whose requests do not move stay sound.
LEMMA LaneUntouched ==
  ASSUME NEW s, LaneOK(s), lane'[s] = lane[s], Held(s)' = Held(s), Waits(s)' = Waits(s)
  PROVE  LaneOK(s)'
BY DEF LaneOK

\* Nor any lane, when nothing moves in any of them.
LEMMA LanesUntouched ==
  ASSUME Lanes, UNCHANGED <<lane, slot, home>> PROVE Lanes'
<1>1. ASSUME NEW s \in Sessions PROVE LaneOK(s)'
  <2>1. Held(s)' = Held(s) /\ Waits(s)' = Waits(s)
    BY DEF Held, Waits
  <2>2. QED BY <2>1, LaneUntouched DEF Lanes
<1>2. QED BY <1>1 DEF Lanes

\* Requests that give up their slots and places leave a sound lane: what they held
\* goes, in order, to those that wait.
LEMMA Discarded ==
  ASSUME TypeOK, Lanes, NEW s \in Sessions, NEW S \in SUBSET Items,
         \A i \in S : home[i] = s, Discard(S, s), home' = home
  PROVE  /\ lane' \in [Sessions -> [active : Nat, queued : Nat, eligible : Seq(Items)]]
         /\ slot' \in [Items -> {"none", "queued", "held"}]
         /\ \A i \in Items : slot[i] = "none" => slot'[i] = "none"
         /\ Lanes'
<1> DEFINE l == lane[s]
           SH == {i \in S : slot[i] = "held"}
           SQ == {i \in S : slot[i] = "queued"}
           e == Excluding(l.eligible, S)
           rest == Without(l, S)
           n == Room(rest)
           P == Promoted(rest)
           new == Promote(rest)
<1>1. /\ LaneOK(s) /\ l \in [active : Nat, queued : Nat, eligible : Seq(Items)]
      /\ MaxInFlight \in Nat /\ QueueCapacity \in Nat
      /\ slot \in [Items -> {"none", "queued", "held"}]
      /\ lane \in [Sessions -> [active : Nat, queued : Nat, eligible : Seq(Items)]]
  BY LimitsAssumption DEF TypeOK, Lanes
<1>2. /\ SH \subseteq Held(s) /\ Held(s) \cap SH = SH
      /\ SQ \subseteq Waits(s) /\ Waits(s) \cap SQ = SQ /\ Waits(s) \ S = Waits(s) \ SQ
  BY DEF Held, Waits
<1>3. /\ IsFiniteSet(Held(s) \ SH)
      /\ Cardinality(Held(s) \ SH) = l.active - Cardinality(SH)
      /\ Cardinality(Held(s) \ SH) \in Nat /\ Cardinality(Held(s) \ SH) <= MaxInFlight
  <2>1. /\ IsFiniteSet(Held(s) \ SH)
        /\ Cardinality(Held(s) \ SH) = Cardinality(Held(s)) - Cardinality(Held(s) \cap SH)
    BY <1>1, FS_Difference DEF LaneOK
  <2>2. Cardinality(Held(s) \ SH) <= Cardinality(Held(s))
    BY <1>1, FS_Subset DEF LaneOK
  <2>3. Cardinality(Held(s) \ SH) \in Nat
    BY <2>1, FS_CardinalityType
  <2>4. Cardinality(Held(s)) = l.active /\ l.active \in Nat /\ l.active <= MaxInFlight
    BY <1>1 DEF LaneOK
  <2>5. Cardinality(Held(s) \ SH) = l.active - Cardinality(SH)
    BY <1>2, <2>1, <2>4
  <2>6. Cardinality(Held(s) \ SH) <= MaxInFlight
    BY <1>1, <2>2, <2>3, <2>4
  <2>7. QED BY <2>1, <2>3, <2>5, <2>6
<1>4. e \in Seq(Items) /\ Distinct(e) /\ Elements(e) = Waits(s) \ SQ
  BY <1>1, <1>2, ExcludingFacts DEF LaneOK
<1>5. Len(e) \in Nat /\ Len(e) = l.queued - Cardinality(SQ) /\ Len(e) <= l.queued
  <2>1. IsFiniteSet(Waits(s)) /\ Cardinality(Waits(s)) = l.queued
    BY <1>1, LenIsCardinality DEF LaneOK
  <2>2. Cardinality(Waits(s) \ SQ) = Len(e)
    BY <1>4, LenIsCardinality
  <2>3. Cardinality(Waits(s) \ SQ) = Cardinality(Waits(s)) - Cardinality(Waits(s) \cap SQ)
    BY <2>1, FS_Difference
  <2>4. Cardinality(Waits(s) \ SQ) <= Cardinality(Waits(s))
    BY <2>1, FS_Subset
  <2>5. Len(e) \in Nat
    BY <1>4
  <2>6. QED BY <1>2, <2>1, <2>2, <2>3, <2>4, <2>5
<1>6. rest = [active |-> Cardinality(Held(s) \ SH), queued |-> Len(e), eligible |-> e]
  BY <1>3, <1>5 DEF Without
<1>7. /\ n \in 0..Len(e) /\ Cardinality(Held(s) \ SH) + n <= MaxInFlight
      /\ n = Len(e) \/ Cardinality(Held(s) \ SH) + n = MaxInFlight
  BY <1>1, <1>3, <1>5, <1>6 DEF Room
<1>8. P = {e[k] : k \in 1..n}
  BY <1>6 DEF Promoted
<1>9. /\ new.active = Cardinality(Held(s) \ SH) + n /\ new.queued = Len(e) - n
      /\ new.eligible = SubSeq(e, n + 1, Len(e))
      /\ new = [active |-> new.active, queued |-> new.queued, eligible |-> new.eligible]
  <2>1. /\ rest.active = Cardinality(Held(s) \ SH) /\ rest.queued = Len(e) /\ rest.eligible = e
    BY <1>6
  <2>2. new = [active |-> rest.active + n, queued |-> rest.queued - n,
               eligible |-> SubSeq(rest.eligible, n + 1, Len(rest.eligible))]
    BY DEF Promote
  <2> HIDE DEF rest, n, e, new
  <2>3. QED BY <2>1, <2>2
<1>10. /\ lane' = [lane EXCEPT ![s] = new]
       /\ slot' = [i \in Items |-> IF i \in S THEN "none" ELSE IF i \in P THEN "held" ELSE slot[i]]
  BY DEF Discard
<1> HIDE DEF SH, SQ, e, rest, n, P, new, l
<1>11. /\ new.eligible \in Seq(Items) /\ Len(new.eligible) = Len(e) - n
       /\ Distinct(new.eligible) /\ Elements(new.eligible) = (Waits(s) \ SQ) \ P
       /\ P \subseteq Waits(s) \ SQ /\ IsFiniteSet(P) /\ Cardinality(P) = n
  <2> DEFINE tail == Rest(e, n)
             front == First(e, n)
  <2>1. /\ tail \in Seq(Items) /\ Len(tail) = Len(e) - n /\ Distinct(tail)
        /\ Elements(tail) = Elements(e) \ front /\ front \subseteq Elements(e)
        /\ IsFiniteSet(front) /\ Cardinality(front) = n
    BY <1>4, <1>7, PartsOf
  <2>2. new.eligible = tail /\ P = front
    BY <1>8, <1>9 DEF First, Rest
  <2> HIDE DEF tail, front
  <2>3. QED BY <1>4, <2>1, <2>2
<1>12. new \in [active : Nat, queued : Nat, eligible : Seq(Items)]
  <2>1. new.active \in Nat /\ new.queued \in Nat
    BY <1>3, <1>5, <1>7, <1>9
  <2>2. QED BY <1>9, <1>11, <2>1
<1>13. lane' \in [Sessions -> [active : Nat, queued : Nat, eligible : Seq(Items)]]
       /\ lane'[s] = new /\ \A t \in Sessions : t # s => lane'[t] = lane[t]
  BY <1>1, <1>10, <1>12
<1>14. slot' \in [Items -> {"none", "queued", "held"}]
  BY <1>1, <1>10
<1>15. \A i \in Items : slot[i] = "none" => slot'[i] = "none"
  BY <1>10, <1>11 DEF Waits
<1>16. /\ Held(s)' = (Held(s) \ SH) \cup P
       /\ Waits(s)' = (Waits(s) \ SQ) \ P
  BY <1>2, <1>10, <1>11 DEF Held, Waits, SH, SQ
<1>17. /\ IsFiniteSet(Held(s)')
       /\ Cardinality(Held(s)') = Cardinality(Held(s) \ SH) + n
  <2>1. (Held(s) \ SH) \cap P = {}
    BY <1>11 DEF Held, Waits
  <2>2. Cardinality((Held(s) \ SH) \cap P) = 0
    BY <2>1, FS_EmptySet
  <2>3. /\ IsFiniteSet((Held(s) \ SH) \cup P)
        /\ Cardinality((Held(s) \ SH) \cup P)
             = Cardinality(Held(s) \ SH) + Cardinality(P) - Cardinality((Held(s) \ SH) \cap P)
    BY <1>3, <1>11, FS_Union
  <2>4. n \in Nat
    BY <1>5, <1>7
  <2>5. QED BY <1>3, <1>11, <1>16, <2>2, <2>3, <2>4
<1>18. LaneOK(s)'
  <2>1. lane'[s].queued > 0 => lane'[s].active = MaxInFlight
    BY <1>5, <1>7, <1>9, <1>13
  <2>2. lane'[s].queued <= QueueCapacity
    BY <1>1, <1>5, <1>7, <1>9, <1>13 DEF LaneOK, l
  <2>3. QED BY <1>7, <1>9, <1>11, <1>13, <1>16, <1>17, <2>1, <2>2 DEF LaneOK
<1>19. ASSUME NEW t \in Sessions, t # s PROVE LaneOK(t)'
  <2>1. Held(t)' = Held(t) /\ Waits(t)' = Waits(t)
    BY <1>2, <1>10, <1>11, <1>19 DEF Held, Waits
  <2>2. QED BY <1>13, <1>19, <2>1, LaneUntouched DEF Lanes
<1>20. Lanes'
  BY <1>18, <1>19 DEF Lanes
<1>21. QED BY <1>13, <1>14, <1>15, <1>20

---------------------------------------------------------------------------
(* Steps that leave the output alone.                                      *)

Quiet == Verdicts \ {"published"}

\* Deciding requests the output has not seen changes nothing it relies on.
LEMMA OutputUntouched ==
  ASSUME TypeOK, OutputInv, ReportMatchesRoom,
         UNCHANGED <<phase, scheduled, queue, active, worker, reason, durable, sent>>,
         \A i \in scheduled : pc'[i] \in {"release", "unwind", "gone"},
         \/ verdict' = verdict
         \/ \E S, what : S \cap scheduled = {} /\ what \in Quiet /\ Settle(S, what)
  PROVE  OutputInv' /\ ReportMatchesRoom' /\ verdict' \in [Items -> Verdicts \cup {None}]
<1>1. /\ verdict \in [Items -> Verdicts \cup {None}]
      /\ durable \in [Items -> 0 .. Lines] /\ active \in Items \cup {None}
      /\ queue \in Seq(Items) /\ scheduled \subseteq Items
  BY DEF TypeOK
<1>2. /\ verdict' \in [Items -> Verdicts \cup {None}]
      /\ \A i \in scheduled : verdict'[i] = verdict[i]
      /\ \A i \in Items : verdict'[i] = "published" => verdict[i] = "published"
  BY <1>1 DEF Settle, Settled, Quiet
<1>3. Queued' = Queued
  BY DEF Queued
<1>4. OutputInv'
  BY <1>1, <1>2, <1>3 DEF OutputInv
<1>5. ReportMatchesRoom'
  <2>1. ASSUME NEW i \in Items, durable[i] > 0 PROVE verdict'[i] = verdict[i]
    BY <1>1, <1>2, <2>1 DEF OutputInv
  <2>2. \A i \in Items : durable[i] \in Nat
    BY <1>1, LimitsAssumption
  <2>3. QED BY <1>1, <1>2, <2>1, <2>2 DEF ReportMatchesRoom
<1>6. QED BY <1>2, <1>4, <1>5

\* A mailbox task moves on and at most decides its request.
LEMMA MailMoves ==
  ASSUME IInv, NEW i \in Items, NEW x \in Points \ {"new"},
         pc[i] \in {"waiting", "attempt", "fence", "silence"}, Goes(i, x), Elsewhere,
         UNCHANGED <<durable, sent>>, behavior' \in [Items -> {None, "silence", "published"}],
         verdict' = verdict \/ \E what \in Quiet : Settle({i}, what),
         x \in {"silence", "release"} \/ (pc[i] # "silence" /\ verdict' = verdict)
  PROVE  IInv'
<1>1. /\ TypeOK /\ Lanes /\ PlaceInv /\ OutputInv /\ Undecided /\ ReportMatchesRoom
      /\ UNCHANGED <<session, phase, awaited, viewer, home, mailed, slot, lane,
                     scheduled, queue, active, worker, reason>>
      /\ pc' = [pc EXCEPT ![i] = x]
  BY DEF IInv, Elsewhere, control, output, Goes
<1>2. pc \in [Items -> Points] /\ scheduled \subseteq Items
  BY <1>1 DEF TypeOK
<1>3. i \notin scheduled /\ \A j \in scheduled : pc'[j] \in {"release", "unwind", "gone"}
  BY <1>1, <1>2 DEF OutputInv
<1>4. OutputInv' /\ ReportMatchesRoom' /\ verdict' \in [Items -> Verdicts \cup {None}]
  <2>1. \/ verdict' = verdict
        \/ \E S, what : S \cap scheduled = {} /\ what \in Quiet /\ Settle(S, what)
    BY <1>3
  <2>2. QED BY <1>1, <1>3, <2>1, OutputUntouched
<1>5. Lanes'
  BY <1>1, LanesUntouched
<1>6. pc' \in [Items -> Points] /\ pc'[i] # "new" /\ \A j \in Items : j # i => pc'[j] = pc[j]
  BY <1>1, <1>2
<1>7. PlaceInv'
  BY <1>1, <1>6 DEF PlaceInv
<1>8. TypeOK'
  BY <1>1, <1>4, <1>6 DEF TypeOK
<1>9. Undecided'
  <2>1. \A j \in Items : j # i => verdict'[j] = verdict[j]
    BY <1>1 DEF TypeOK, Settle, Settled
  <2>2. pc'[i] = x
    BY <1>1, <1>2
  <2>3. QED BY <1>1, <1>6, <2>1, <2>2 DEF Undecided
<1>10. QED BY <1>4, <1>5, <1>7, <1>8, <1>9 DEF IInv

\* The steps of a mailbox task that has its slot.
LEMMA MailKeeps ==
  ASSUME IInv, NEW i \in Items, Begin(i) \/ Attempt(i) \/ Fence(i) \/ Silence(i)
  PROVE  IInv'
<1>1. behavior \in [Items -> {None, "silence", "published"}]
  BY DEF IInv, TypeOK
<1>2. {"attempt", "release", "fence", "silence", "schedule"} \subseteq Points \ {"new"}
  BY DEF Points
<1>3. "dropped" \in Quiet /\ "silenced" \in Quiet
  BY DEF Quiet, Verdicts
<1>4. CASE Begin(i)
  <2>1. /\ pc[i] = "waiting" /\ UNCHANGED effects /\ Elsewhere
        /\ \/ Goes(i, "attempt") /\ UNCHANGED verdict
           \/ Goes(i, "release") /\ Settle({i}, "dropped")
    BY <1>4 DEF Begin, Ends
  <2>2. QED BY <1>1, <1>2, <1>3, <2>1, MailMoves DEF effects
<1>5. CASE Attempt(i)
  <2>1. /\ pc[i] = "attempt" /\ UNCHANGED effects /\ Elsewhere
        /\ \/ \E next \in {"fence", "silence"} : Goes(i, next) /\ UNCHANGED verdict
           \/ Goes(i, "release") /\ Settle({i}, "dropped")
    BY <1>5 DEF Attempt, AttemptFails, Ends
  <2>2. QED BY <1>1, <1>2, <1>3, <2>1, MailMoves DEF effects
<1>6. CASE Fence(i)
  <2>1. /\ pc[i] = "fence" /\ UNCHANGED effects /\ Elsewhere
        /\ \/ Goes(i, "schedule") /\ UNCHANGED verdict
           \/ Goes(i, "release") /\ Settle({i}, "silenced")
           \/ Goes(i, "release") /\ Settle({i}, "dropped")
    BY <1>6 DEF Fence, Ends
  <2>2. QED BY <1>1, <1>2, <1>3, <2>1, MailMoves DEF effects
<1>7. CASE Silence(i)
  <2>1. /\ pc[i] = "silence" /\ UNCHANGED <<durable, sent>> /\ Elsewhere
        /\ behavior' = behavior \/ behavior' = [behavior EXCEPT ![i] = "silence"]
        /\ \/ Goes(i, "release") /\ Settle({i}, "silenced")
           \/ Goes(i, "release") /\ Settle({i}, "dropped")
    BY <1>7 DEF Silence, Ends
  <2>2. behavior' \in [Items -> {None, "silence", "published"}]
    BY <1>1, <2>1
  <2>3. QED BY <1>2, <1>3, <2>1, <2>2, MailMoves
<1>8. QED BY <1>4, <1>5, <1>6, <1>7

\* The end of a mailbox task gives back its slot.
LEMMA MailEnds ==
  ASSUME IInv, NEW i \in Items, Release(i) \/ Unwind(i)
  PROVE  IInv'
<1>1. /\ TypeOK /\ Lanes /\ PlaceInv /\ OutputInv /\ Undecided /\ ReportMatchesRoom
      /\ UNCHANGED <<session, phase, awaited, viewer, home,
                     scheduled, queue, active, worker, reason, durable, sent, behavior>>
      /\ pc[i] \in {"release", "unwind"} /\ pc' = [pc EXCEPT ![i] = "gone"]
      /\ mailed' = mailed \ {i} /\ Discard({i}, home[i])
      /\ verdict' = verdict \/ Settle({i} \ scheduled, "cancelled")
  BY DEF IInv, Release, Unwind, control, output, effects, Goes
<1>2. /\ pc \in [Items -> Points] /\ scheduled \subseteq Items /\ mailed \subseteq Items
      /\ "gone" \in Points
  BY <1>1 DEF TypeOK, Points
<1>3. home[i] \in Sessions
  BY <1>1 DEF PlaceInv
<1>4. /\ lane' \in [Sessions -> [active : Nat, queued : Nat, eligible : Seq(Items)]]
      /\ slot' \in [Items -> {"none", "queued", "held"}]
      /\ \A j \in Items : slot[j] = "none" => slot'[j] = "none"
      /\ Lanes'
  <2>1. {i} \in SUBSET Items /\ \A j \in {i} : home[j] = home[i]
    OBVIOUS
  <2>2. QED BY <1>1, <1>3, <2>1, Discarded
<1>5. pc' \in [Items -> Points] /\ pc'[i] = "gone" /\ \A j \in Items : j # i => pc'[j] = pc[j]
  BY <1>1, <1>2
<1>6. OutputInv' /\ ReportMatchesRoom' /\ verdict' \in [Items -> Verdicts \cup {None}]
  <2>1. \A j \in scheduled : pc'[j] \in {"release", "unwind", "gone"}
    BY <1>1, <1>2, <1>5 DEF OutputInv
  <2>2. "cancelled" \in Quiet
    BY DEF Quiet, Verdicts
  <2>3. \/ verdict' = verdict
        \/ \E S, what : S \cap scheduled = {} /\ what \in Quiet /\ Settle(S, what)
    <3>1. ({i} \ scheduled) \cap scheduled = {}
      OBVIOUS
    <3>2. QED BY <1>1, <2>2, <3>1
  <2>4. QED BY <1>1, <2>1, <2>3, OutputUntouched
<1>7. PlaceInv'
  BY <1>1, <1>4, <1>5 DEF PlaceInv
<1>8. TypeOK'
  BY <1>1, <1>2, <1>4, <1>5, <1>6 DEF TypeOK
<1>9. Undecided'
  <2>1. \A j \in Items : j # i => verdict'[j] = verdict[j]
    BY <1>1 DEF TypeOK, Settle, Settled
  <2>2. QED BY <1>1, <1>5, <2>1 DEF Undecided
<1>10. QED BY <1>4, <1>6, <1>7, <1>8, <1>9 DEF IInv

\* A dispatch takes a free slot, a place in the queue, or nothing.
LEMMA EnqueueKeeps ==
  ASSUME IInv, NEW i \in Items, Enqueue(i)
  PROVE  IInv'
<1>1. /\ TypeOK /\ Lanes /\ PlaceInv /\ OutputInv /\ Undecided /\ ReportMatchesRoom
      /\ UNCHANGED <<session, phase, awaited, viewer,
                     scheduled, queue, active, worker, reason, durable, sent, behavior>>
      /\ phase = "live" /\ pc[i] = "new" /\ home' = [home EXCEPT ![i] = session]
  BY DEF IInv, Enqueue, control, output, effects
<1>2. PICK s \in Sessions : s = session
  BY <1>1 DEF PlaceInv
<1> DEFINE l == lane[s]
           LaneRecords == [active : Nat, queued : Nat, eligible : Seq(Items)]
<1>3. /\ pc \in [Items -> Points] /\ {"waiting", "gone"} \subseteq Points
      /\ slot \in [Items -> {"none", "queued", "held"}] /\ home \in [Items -> 0..MaxSession]
      /\ lane \in [Sessions -> LaneRecords] /\ l \in LaneRecords
      /\ mailed \subseteq Items /\ MaxInFlight \in Nat /\ QueueCapacity \in Nat
      /\ s \in 0..MaxSession
  BY <1>1, <1>2, LimitsAssumption DEF TypeOK, Points, Sessions
<1>4. /\ i \notin mailed /\ slot[i] = "none" /\ home[i] = 0 /\ home[i] \notin Sessions
      /\ i \notin scheduled /\ LaneOK(s)
  BY <1>1, <1>2, LimitsAssumption DEF PlaceInv, OutputInv, Sessions, Lanes
<1>5. /\ home' \in [Items -> 0..MaxSession] /\ home'[i] = s
      /\ \A j \in Items : j # i => home'[j] = home[j]
  BY <1>1, <1>2, <1>3
<1>6. /\ l.active \in Nat /\ l.queued \in Nat /\ l.eligible \in Seq(Items)
      /\ l = [active |-> l.active, queued |-> l.queued, eligible |-> l.eligible]
  BY <1>3
<1>7. /\ l.active = Cardinality(Held(s)) /\ IsFiniteSet(Held(s)) /\ l.active <= MaxInFlight
      /\ Distinct(l.eligible) /\ Elements(l.eligible) = Waits(s)
      /\ Len(l.eligible) = l.queued /\ l.queued <= QueueCapacity
      /\ l.queued > 0 => l.active = MaxInFlight
  BY <1>4 DEF LaneOK
\* Whichever it is, the other lanes do not move.
<1>8. ASSUME NEW a \in {"waiting", "gone"}, NEW b \in {"none", "queued", "held"},
             NEW r \in LaneRecords,
             pc' = [pc EXCEPT ![i] = a], slot' = [slot EXCEPT ![i] = b],
             lane' = [lane EXCEPT ![s] = r],
             mailed' \in {mailed, mailed \cup {i}},
             verdict' = verdict \/ (a = "gone" /\ Settle({i}, "cancelled")),
             LaneOK(s)'
      PROVE  IInv'
  <2>1. /\ pc' \in [Items -> Points] /\ pc'[i] # "new" /\ slot' \in [Items -> {"none", "queued", "held"}]
        /\ \A j \in Items : j # i => pc'[j] = pc[j] /\ slot'[j] = slot[j]
    BY <1>3, <1>8
  <2>2. lane' \in [Sessions -> LaneRecords] /\ \A t \in Sessions : t # s => lane'[t] = lane[t]
    BY <1>3, <1>8
  <2>3. OutputInv' /\ ReportMatchesRoom' /\ verdict' \in [Items -> Verdicts \cup {None}]
    <3>1. \A j \in scheduled : pc'[j] \in {"release", "unwind", "gone"}
      BY <1>1, <1>4, <2>1 DEF OutputInv, TypeOK
    <3>2. {i} \cap scheduled = {} /\ "cancelled" \in Quiet
      BY <1>4 DEF Quiet, Verdicts
    <3>3. QED BY <1>1, <1>8, <3>1, <3>2, OutputUntouched
  <2>4. ASSUME NEW t \in Sessions, t # s PROVE LaneOK(t)'
    <3>1. Held(t)' = Held(t) /\ Waits(t)' = Waits(t)
      BY <1>4, <1>5, <2>1, <2>4 DEF Held, Waits
    <3>2. QED BY <1>1, <2>2, <2>4, <3>1, LaneUntouched DEF Lanes
  <2>5. Lanes'
    <3>1. \A t \in Sessions : LaneOK(t)'
      BY <1>8, <2>4
    <3>2. QED BY <3>1 DEF Lanes
  <2>6. PlaceInv'
    <3>1. mailed' \subseteq mailed \cup {i} /\ session' = session /\ phase' = phase /\ phase = "live"
      BY <1>1, <1>8
    <3>2. QED BY <1>1, <1>2, <1>3, <1>5, <2>1, <3>1 DEF PlaceInv
  <2>7. TypeOK'
    <3>1. mailed' \subseteq Items
      BY <1>3, <1>8
    <3>2. QED BY <1>1, <1>5, <2>1, <2>2, <2>3, <3>1 DEF TypeOK
  <2>8. Undecided'
    <3>1. \A j \in Items : j # i => verdict'[j] = verdict[j]
      BY <1>1, <1>8 DEF TypeOK, Settle, Settled
    <3>2. pc'[i] = a
      BY <1>3, <1>8
    <3>3. QED BY <1>1, <1>8, <2>1, <3>1, <3>2 DEF Undecided
  <2>9. QED BY <2>3, <2>5, <2>6, <2>7, <2>8 DEF IInv
<1>9. CASE /\ l.active < MaxInFlight
           /\ lane' = [lane EXCEPT ![s].active = @ + 1]
           /\ slot' = [slot EXCEPT ![i] = "held"]
           /\ pc' = [pc EXCEPT ![i] = "waiting"]
           /\ mailed' = mailed \cup {i} /\ UNCHANGED verdict
  <2> DEFINE r == [active |-> l.active + 1, queued |-> l.queued, eligible |-> l.eligible]
  <2>1. r \in LaneRecords
    BY <1>6
  <2>2. lane' = [lane EXCEPT ![s] = r]
    <3>1. ASSUME NEW n, NEW x \in LaneRecords
          PROVE  [x EXCEPT !.active = n]
                   = [active |-> n, queued |-> x.queued, eligible |-> x.eligible]
      OBVIOUS
    <3>2. lane' = [lane EXCEPT ![s] = [l EXCEPT !.active = @ + 1]]
      BY <1>9
    <3>3. QED BY <1>3, <3>1, <3>2
  <2>3. lane'[s] = r
    BY <1>2, <1>3, <2>2
  <2>4. slot'[i] = "held" /\ \A j \in Items : j # i => slot'[j] = slot[j]
    BY <1>3, <1>9
  <2>5. Held(s)' = Held(s) \cup {i} /\ Waits(s)' = Waits(s) /\ i \notin Held(s)
    BY <1>2, <1>4, <1>5, <2>4 DEF Held, Waits
  <2>6. IsFiniteSet(Held(s)') /\ Cardinality(Held(s)') = l.active + 1
    BY <1>7, <2>5, FS_AddElement
  <2>7. l.queued = 0
    BY <1>3, <1>6, <1>7, <1>9
  <2>8. /\ lane'[s].active = l.active + 1 /\ lane'[s].queued = l.queued
        /\ lane'[s].eligible = l.eligible /\ l.active + 1 <= MaxInFlight
    BY <1>3, <1>6, <1>9, <2>3
  <2> HIDE DEF l, r
  <2>9. LaneOK(s)'
    BY <1>7, <2>5, <2>6, <2>7, <2>8 DEF LaneOK
  <2>10. QED BY <1>8, <1>9, <2>1, <2>2, <2>9
<1>10. CASE /\ l.active >= MaxInFlight /\ l.queued < QueueCapacity
            /\ lane' = [lane EXCEPT ![s] = [active |-> l.active, queued |-> l.queued + 1,
                                            eligible |-> Append(l.eligible, i)]]
            /\ slot' = [slot EXCEPT ![i] = "queued"]
            /\ pc' = [pc EXCEPT ![i] = "waiting"]
            /\ mailed' = mailed \cup {i} /\ UNCHANGED verdict
  <2> DEFINE e == Append(l.eligible, i)
             r == [active |-> l.active, queued |-> l.queued + 1, eligible |-> e]
  <2>1. i \notin Waits(s)
    BY <1>4 DEF Waits
  <2>2. /\ e \in Seq(Items) /\ Distinct(e) /\ Elements(e) = Waits(s) \cup {i}
        /\ Len(e) = l.queued + 1
    <3>1. Len(e) = Len(l.eligible) + 1
      BY <1>6
    <3>2. QED BY <1>6, <1>7, <2>1, <3>1, AppendFacts
  <2>3. lane' = [lane EXCEPT ![s] = r]
    BY <1>10
  <2> HIDE DEF e
  <2>4. r \in LaneRecords
    BY <1>6, <2>2
  <2>5. lane'[s] = r
    BY <1>2, <1>3, <2>3
  <2>6. slot'[i] = "queued" /\ \A j \in Items : j # i => slot'[j] = slot[j]
    BY <1>3, <1>10
  <2>7. Held(s)' = Held(s) /\ Waits(s)' = Waits(s) \cup {i}
    BY <1>2, <1>4, <1>5, <2>6 DEF Held, Waits
  <2>8. /\ lane'[s].active = l.active /\ lane'[s].queued = l.queued + 1
        /\ lane'[s].eligible = e
    BY <2>5
  <2>9. l.active = MaxInFlight /\ l.queued + 1 <= QueueCapacity
    <3>1. l.active >= MaxInFlight /\ l.queued < QueueCapacity
      BY <1>10
    <3> HIDE DEF l, r
    <3>2. QED BY <1>3, <1>6, <1>7, <3>1
  <2> HIDE DEF l, r
  <2>10. LaneOK(s)'
    BY <1>7, <2>2, <2>7, <2>8, <2>9 DEF LaneOK
  <2>11. QED BY <1>8, <1>10, <2>3, <2>4, <2>10
<1>11. CASE /\ Settle({i}, "cancelled")
            /\ pc' = [pc EXCEPT ![i] = "gone"]
            /\ UNCHANGED <<lane, slot, mailed>>
  <2>1. lane' = [lane EXCEPT ![s] = l] /\ slot' = [slot EXCEPT ![i] = "none"]
    BY <1>2, <1>3, <1>4, <1>11
  <2>2. Held(s)' = Held(s) /\ Waits(s)' = Waits(s)
    BY <1>2, <1>4, <1>5, <1>11 DEF Held, Waits
  <2>3. LaneOK(s)'
    BY <1>4, <1>11, <2>2, LaneUntouched
  <2>4. QED BY <1>3, <1>8, <1>11, <2>1, <2>3
<1>12. QED BY <1>2, <1>9, <1>10, <1>11 DEF Enqueue

---------------------------------------------------------------------------
(* The output queue and its worker.                                        *)

\* Steps that touch neither places nor pc, and decide nothing that has still to run.
LEMMA PlacesUntouched ==
  ASSUME TypeOK, PlaceInv, UNCHANGED <<session, phase, home, mailed, slot, pc>>
  PROVE  PlaceInv'
BY DEF PlaceInv

\* _schedule_output_batch: a request enters the queue undecided, with nothing in the Room.
LEMMA ScheduleKeeps ==
  ASSUME IInv, NEW i \in Items, Schedule(i)
  PROVE  IInv'
<1>1. /\ TypeOK /\ Lanes /\ PlaceInv /\ OutputInv /\ Undecided /\ ReportMatchesRoom
      /\ UNCHANGED <<session, phase, awaited, viewer, home, mailed, slot, lane, active,
                     durable, sent, behavior>>
      /\ pc[i] = "schedule" /\ pc' = [pc EXCEPT ![i] = "release"]
  BY DEF IInv, Schedule, control, effects, Goes, Ends
<1>2. /\ pc \in [Items -> Points] /\ "release" \in Points /\ queue \in Seq(Items)
      /\ verdict \in [Items -> Verdicts \cup {None}] /\ reason \in [Items -> Reasons \cup {None}]
      /\ scheduled \subseteq Items /\ active \in Items \cup {None} /\ worker \in WorkerPoints
  BY <1>1 DEF TypeOK, Points
<1>3. /\ i \notin scheduled /\ verdict[i] = None /\ durable[i] = 0 /\ i # active
      /\ i \notin Queued
  BY <1>1, <1>2, ViewerAssumption DEF OutputInv, Undecided
<1>4. /\ pc' \in [Items -> Points] /\ pc'[i] = "release"
      /\ \A j \in Items : j # i => pc'[j] = pc[j]
  BY <1>1, <1>2
<1>5. Lanes'
  BY <1>1, LanesUntouched
<1>6. PlaceInv'
  BY <1>1, <1>4 DEF PlaceInv
<1>7. CASE Current(i)
  <2>1. /\ scheduled' = scheduled \cup {i} /\ queue' = Append(queue, i)
        /\ worker' = (IF worker = "none" THEN "take" ELSE worker)
        /\ reason' = reason /\ verdict' = verdict
    BY <1>7 DEF Schedule
  <2>2. /\ queue' \in Seq(Items) /\ Elements(queue)' = Elements(queue) \cup {i}
        /\ Distinct(queue)'
    <3>1. Elements(queue) = Queued
      BY DEF Elements, Queued
    <3>2. Distinct(queue)
      BY <1>1 DEF OutputInv
    <3>3. /\ Append(queue, i) \in Seq(Items) /\ Distinct(Append(queue, i))
          /\ Elements(Append(queue, i)) = Elements(queue) \cup {i}
      BY <1>2, <1>3, <3>1, <3>2, AppendFacts
    <3>4. Elements(queue)' = Elements(Append(queue, i)) /\ (Distinct(queue)' <=> Distinct(Append(queue, i)))
      BY <2>1 DEF Elements, Distinct
    <3>5. QED BY <2>1, <3>3, <3>4
  <2>3. Queued' = Queued \cup {i}
    BY <2>2 DEF Elements, Queued
  <2>4. worker' \in WorkerPoints
        /\ \A p \in {"check", "commit", "deliver", "finish"} : worker' = p <=> worker = p
    BY <1>2, <2>1 DEF WorkerPoints
  <2>5. OutputInv'
    BY <1>1, <1>2, <1>3, <1>4, <2>1, <2>2, <2>3, <2>4 DEF OutputInv
  <2>6. Undecided' /\ ReportMatchesRoom'
    BY <1>1, <1>4, <2>1 DEF Undecided, ReportMatchesRoom
  <2>7. TypeOK'
    BY <1>1, <1>2, <1>4, <2>1, <2>2, <2>4 DEF TypeOK
  <2>8. QED BY <1>5, <1>6, <2>5, <2>6, <2>7 DEF IInv
<1>8. CASE ~Current(i)
  <2>1. /\ scheduled' = scheduled /\ queue' = queue /\ worker' = worker
        /\ reason' = [reason EXCEPT ![i] = "not_accepted"] /\ Settle({i}, "cancelled")
    BY <1>8 DEF Schedule, Ends
  <2>2. /\ verdict' \in [Items -> Verdicts \cup {None}]
        /\ \A j \in Items : j # i => verdict'[j] = verdict[j]
        /\ verdict'[i] = "cancelled"
    BY <1>2, <1>3, <2>1 DEF Settle, Settled, Verdicts
  <2>3. /\ reason' \in [Items -> Reasons \cup {None}]
        /\ \A j \in Items : j # i => reason'[j] = reason[j]
    BY <1>2, <2>1 DEF Reasons
  <2>4. Queued' = Queued /\ Queued \subseteq Items
    BY <1>2, <2>1 DEF Queued
  <2>5. OutputInv'
    BY <1>1, <1>2, <1>3, <1>4, <2>1, <2>2, <2>3, <2>4, ViewerAssumption DEF OutputInv
  <2>6. Undecided' /\ ReportMatchesRoom'
    <3>1. ~(durable[i] > 0)
      BY <1>3
    <3>2. QED BY <1>1, <1>3, <1>4, <2>2, <2>3, <3>1 DEF Undecided, ReportMatchesRoom
  <2>7. TypeOK'
    BY <1>1, <1>2, <1>4, <2>1, <2>2, <2>3 DEF TypeOK
  <2>8. QED BY <1>5, <1>6, <2>5, <2>6, <2>7 DEF IInv
<1>9. QED BY <1>7, <1>8

\* The worker takes the oldest output that waits.
LEMMA TakeKeeps ==
  ASSUME IInv, Take PROVE IInv'
<1>1. /\ TypeOK /\ Lanes /\ PlaceInv /\ OutputInv /\ Undecided /\ ReportMatchesRoom
      /\ UNCHANGED <<session, phase, awaited, viewer, home, pc, mailed, slot, lane,
                     scheduled, reason, durable, sent, behavior, verdict>>
      /\ worker = "take"
  BY DEF IInv, Take, control, mailbox, effects
<1>2. Lanes' /\ PlaceInv' /\ Undecided' /\ ReportMatchesRoom'
  BY <1>1, LanesUntouched, PlacesUntouched DEF Undecided, ReportMatchesRoom
<1>3. active = None /\ Distinct(queue) /\ queue \in Seq(Items) /\ Queued = Elements(queue)
  BY <1>1 DEF OutputInv, TypeOK, Queued, Elements
<1>4. CASE queue = <<>>
  <2>1. worker' = "none" /\ queue' = queue /\ active' = active
    BY <1>4 DEF Take
  <2>2. Queued' = Queued
    BY <2>1 DEF Queued
  <2>3. OutputInv'
    BY <1>1, <1>3, <2>1, <2>2 DEF OutputInv
  <2>4. TypeOK'
    BY <1>1, <2>1 DEF TypeOK, WorkerPoints
  <2>5. QED BY <1>2, <2>3, <2>4 DEF IInv
<1>5. CASE queue # <<>>
  <2>1. worker' = "check" /\ active' = Head(queue) /\ queue' = Tail(queue)
    BY <1>5 DEF Take
  <2>2. /\ active' \in Items /\ active' \in Queued /\ queue' \in Seq(Items)
        /\ Distinct(Tail(queue)) /\ Elements(Tail(queue)) = Queued \ {active'}
    BY <1>3, <1>5, <2>1, TailFacts
  <2>3. Queued' = Queued \ {active'} /\ Distinct(queue)'
    BY <2>1, <2>2 DEF Queued, Elements, Distinct
  <2>4. /\ active' # None /\ active' \in scheduled /\ verdict[active'] = None
        /\ durable[active'] = 0 /\ sent[active'] = 0 /\ 0 < Lines
    BY <1>1, <2>2, ViewerAssumption, LimitsAssumption DEF OutputInv, TypeOK
  <2>5. OutputInv'
    BY <1>1, <2>1, <2>3, <2>4 DEF OutputInv
  <2>6. TypeOK'
    BY <1>1, <2>1, <2>2 DEF TypeOK, WorkerPoints
  <2>7. QED BY <1>2, <2>5, <2>6 DEF IInv
<1>6. QED BY <1>4, <1>5

\* The steps of the worker on its active output, but for the last.
LEMMA WorkKeeps ==
  ASSUME IInv, Check \/ Commit \/ Deliver
  PROVE  IInv'
<1>1. /\ TypeOK /\ Lanes /\ PlaceInv /\ OutputInv /\ Undecided /\ ReportMatchesRoom
      /\ UNCHANGED <<session, phase, awaited, viewer, home, pc, mailed, slot, lane,
                     scheduled, queue, active, behavior, verdict>>
      /\ worker \in {"check", "commit", "deliver"}
  BY DEF IInv, Check, Commit, Deliver, control, mailbox, effects
<1>2. PICK a \in Items : /\ a = active /\ a \in scheduled /\ a \notin Queued /\ a # None
                         /\ verdict[a] = None
  BY <1>1, ViewerAssumption DEF OutputInv, TypeOK
<1>3. /\ reason \in [Items -> Reasons \cup {None}]
      /\ durable \in [Items -> 0..Lines] /\ sent \in [Items -> 0..Lines]
      /\ durable[a] \in Nat /\ sent[a] \in Nat /\ Lines \in Nat
  BY <1>1, LimitsAssumption DEF TypeOK
<1>4. Lanes' /\ PlaceInv' /\ Undecided' /\ Queued' = Queued
  BY <1>1, LanesUntouched, PlacesUntouched DEF Undecided, Queued
<1>5. reason' = reason \/ reason' = [reason EXCEPT ![a] = IF @ = None THEN "not_accepted" ELSE @]
  BY <1>2 DEF Check, Commit, Deliver, Because
<1>6. reason' \in [Items -> Reasons \cup {None}] /\ \A j \in Items : j # a => reason'[j] = reason[j]
  BY <1>3, <1>5 DEF Reasons
<1>7. CASE Check
  <2>1. worker = "check" /\ worker' \in {"commit", "finish"} /\ durable' = durable /\ sent' = sent
    BY <1>7 DEF Check, effects
  <2>2. OutputInv'
    BY <1>1, <1>2, <1>3, <1>4, <2>1 DEF OutputInv
  <2>3. ReportMatchesRoom'
    BY <1>1, <1>2, <1>6, <2>1 DEF ReportMatchesRoom
  <2>4. TypeOK'
    BY <1>1, <1>6, <2>1 DEF TypeOK, WorkerPoints
  <2>5. QED BY <1>4, <2>2, <2>3, <2>4 DEF IInv
<1>8. CASE Commit
  <2>1. worker = "commit" /\ sent' = sent /\ durable[a] = sent[a] /\ sent[a] < Lines
    BY <1>1, <1>2, <1>8 DEF Commit, OutputInv
  <2>2. CASE worker' = "deliver" /\ durable' = [durable EXCEPT ![a] = @ + 1]
    <3>1. /\ durable' \in [Items -> 0..Lines] /\ durable'[a] = sent[a] + 1
          /\ \A j \in Items : j # a => durable'[j] = durable[j]
      BY <1>3, <2>1, <2>2
    <3>2. Queued \subseteq Items
      BY <1>1 DEF Queued, TypeOK
    <3>3. OutputInv'
      BY <1>1, <1>2, <1>3, <1>4, <2>1, <2>2, <3>1, <3>2 DEF OutputInv
    <3>4. ReportMatchesRoom'
      BY <1>1, <1>2, <1>6, <3>1, NoneAssumption DEF ReportMatchesRoom, Verdicts
    <3>5. TypeOK'
      BY <1>1, <1>6, <2>1, <2>2, <3>1 DEF TypeOK, WorkerPoints
    <3>6. QED BY <1>4, <3>3, <3>4, <3>5 DEF IInv
  <2>3. CASE worker' = "finish" /\ durable' = durable
    <3>1. OutputInv'
      BY <1>1, <1>2, <1>3, <1>4, <2>1, <2>3 DEF OutputInv
    <3>2. ReportMatchesRoom'
      BY <1>1, <1>2, <1>6, <2>3 DEF ReportMatchesRoom
    <3>3. TypeOK'
      BY <1>1, <1>6, <2>1, <2>3 DEF TypeOK, WorkerPoints
    <3>4. QED BY <1>4, <3>1, <3>2, <3>3 DEF IInv
  <2>4. QED BY <1>2, <1>8, <2>2, <2>3 DEF Commit
<1>9. CASE Deliver
  <2>1. /\ worker = "deliver" /\ durable' = durable /\ durable[a] = sent[a] + 1
        /\ sent' = [sent EXCEPT ![a] = @ + 1]
        /\ worker' = IF sent'[a] < Lines THEN "check" ELSE "finish"
    BY <1>1, <1>2, <1>9 DEF Deliver, OutputInv
  <2>2. durable[a] \in 0..Lines
    BY <1>3
  <2>3. /\ sent' \in [Items -> 0..Lines] /\ sent'[a] = durable[a]
        /\ \A j \in Items : j # a => sent'[j] = sent[j]
    BY <1>3, <2>1, <2>2
  <2>4. /\ worker' \in {"check", "finish"} /\ (worker' = "check" => sent'[a] < Lines)
    BY <2>1
  <2>5. OutputInv'
    BY <1>1, <1>2, <1>3, <1>4, <2>1, <2>3, <2>4 DEF OutputInv
  <2>6. ReportMatchesRoom'
    BY <1>1, <1>2, <1>6, <2>1 DEF ReportMatchesRoom
  <2>7. TypeOK'
    BY <1>1, <1>6, <2>1, <2>3, <2>4 DEF TypeOK, WorkerPoints
  <2>8. QED BY <1>4, <2>5, <2>6, <2>7 DEF IInv
<1>10. QED BY <1>7, <1>8, <1>9

\* The worker reports its output by what was published of it.
LEMMA FinishKeeps ==
  ASSUME IInv, Finish PROVE IInv'
<1>1. /\ TypeOK /\ Lanes /\ PlaceInv /\ OutputInv /\ Undecided /\ ReportMatchesRoom
      /\ UNCHANGED <<session, phase, awaited, viewer, home, pc, mailed, slot, lane,
                     scheduled, queue, reason, durable, sent>>
      /\ worker = "finish" /\ active' = None /\ worker' \in {"take", "none"}
  BY DEF IInv, Finish, control, mailbox
<1>2. PICK a \in Items : /\ a = active /\ a \in scheduled /\ a \notin Queued /\ a # None
                         /\ verdict[a] = None
  BY <1>1, ViewerAssumption DEF OutputInv, TypeOK
<1>3. /\ durable \in [Items -> 0..Lines] /\ sent \in [Items -> 0..Lines]
      /\ durable[a] \in Nat /\ sent[a] \in Nat /\ sent[a] <= durable[a]
      /\ verdict \in [Items -> Verdicts \cup {None}]
      /\ behavior \in [Items -> {None, "silence", "published"}]
  BY <1>1, LimitsAssumption DEF TypeOK, OutputInv
<1>4. Lanes' /\ PlaceInv' /\ Queued' = Queued
  BY <1>1, LanesUntouched, PlacesUntouched DEF Queued
<1>5. /\ verdict'[a] = IF sent[a] > 0 THEN "published" ELSE "cancelled"
      /\ \A j \in Items : j # a => verdict'[j] = verdict[j]
      /\ verdict' \in [Items -> Verdicts \cup {None}]
  BY <1>2, <1>3 DEF Finish, Settle, Settled, Verdicts
<1>6. behavior' \in [Items -> {None, "silence", "published"}]
  <2>1. behavior' = behavior \/ behavior' = [behavior EXCEPT ![a] = "published"]
    BY <1>2 DEF Finish
  <2>2. QED BY <1>3, <2>1
<1>7. OutputInv'
  <2>1. Queued \subseteq Items
    BY <1>1 DEF Queued, TypeOK
  <2>2. QED BY <1>1, <1>2, <1>4, <1>5, <2>1, ViewerAssumption DEF OutputInv
<1>8. Undecided'
  BY <1>1, <1>2, <1>5 DEF Undecided, OutputInv
<1>9. ReportMatchesRoom'
  <2>1. durable[a] > sent[a] => reason[a] = "session_stopped"
    BY <1>1, <1>2 DEF OutputInv
  <2>2. sent[a] > 0 => durable[a] > 0
    BY <1>3
  <2>3. durable[a] > 0 /\ ~(sent[a] > 0) => durable[a] > sent[a]
    BY <1>3
  <2>4. /\ verdict'[a] = "published" => durable[a] > 0
        /\ verdict'[a] \notin {None, "published"} /\ durable[a] > 0 => reason[a] = "session_stopped"
    BY <1>5, <2>1, <2>2, <2>3
  <2>5. QED BY <1>1, <1>5, <2>4 DEF ReportMatchesRoom
<1>10. TypeOK'
  BY <1>1, <1>5, <1>6 DEF TypeOK, WorkerPoints
<1>11. QED BY <1>4, <1>7, <1>8, <1>9, <1>10 DEF IInv

---------------------------------------------------------------------------
(* The session and its viewers.                                            *)

\* A cancelled task unwinds, but for the shielded silence commit.
LEMMA StruckFacts ==
  ASSUME pc \in [Items -> Points], NEW S \in SUBSET Items, \A i \in S : pc[i] # "new", Struck(S)
  PROVE  /\ pc' \in [Items -> Points]
         /\ \A i \in Items : pc'[i] = "new" <=> pc[i] = "new"
         /\ \A i \in Items : pc'[i] # pc[i] => pc'[i] = "unwind"
<1>1. "unwind" \in Points
  BY DEF Points
<1>2. pc' = [i \in Items |-> IF i \in S /\ pc[i] # "silence" THEN "unwind" ELSE pc[i]]
  BY DEF Struck
<1>3. QED BY <1>1, <1>2

\* A session starts or is over.
LEMMA SessionKeeps ==
  ASSUME IInv, StartSession \/ StopEnds \/ \E v \in Viewers : ViewerChanges(v)
  PROVE  IInv'
<1>1. /\ TypeOK /\ Lanes /\ PlaceInv /\ OutputInv /\ Undecided /\ ReportMatchesRoom
      /\ UNCHANGED <<home, pc, mailed, slot, lane, scheduled, queue, active, worker, reason,
                     durable, sent, behavior, verdict>>
      /\ phase' = "stopping" => phase = "stopping"
  BY DEF IInv, StartSession, StopEnds, ViewerChanges, mailbox, output, effects
<1>2. Lanes' /\ Undecided' /\ ReportMatchesRoom' /\ Queued' = Queued
  BY <1>1, LanesUntouched DEF Undecided, ReportMatchesRoom, Queued
<1>3. CASE StartSession
  <2>1. /\ phase = "idle" /\ phase' = "live" /\ session < MaxSession /\ session' = session + 1
        /\ awaited' = awaited /\ viewer' = viewer /\ session \in 0..MaxSession /\ MaxSession \in Nat
    BY <1>1, <1>3, LimitsAssumption DEF StartSession, TypeOK
  <2>2. session' \in Sessions /\ session' \in 0..MaxSession
    BY <2>1 DEF Sessions
  <2>3. PlaceInv'
    BY <1>1, <2>1, <2>2 DEF PlaceInv
  <2>4. OutputInv'
    BY <1>1, <1>2, <2>1 DEF OutputInv
  <2>5. TypeOK'
    BY <1>1, <2>1, <2>2 DEF TypeOK, Phases
  <2>6. QED BY <1>2, <2>3, <2>4, <2>5 DEF IInv
<1>4. CASE StopEnds
  <2>1. /\ phase = "stopping" /\ worker = "none" /\ phase' = "idle" /\ awaited' = {}
        /\ session' = session /\ viewer' = viewer
    BY <1>4 DEF StopEnds
  <2>2. PlaceInv'
    BY <1>1, <2>1 DEF PlaceInv
  <2>3. OutputInv'
    BY <1>1, <1>2, <2>1 DEF OutputInv
  <2>4. TypeOK'
    BY <1>1, <2>1 DEF TypeOK, Phases
  <2>5. QED BY <1>2, <2>2, <2>3, <2>4 DEF IInv
<1>5. CASE \E v \in Viewers : ViewerChanges(v)
  <2>1. PICK v \in Viewers : ViewerChanges(v)
    BY <1>5
  <2>2. UNCHANGED <<session, phase, awaited>> /\ viewer' = [viewer EXCEPT ![v] = "leaving"]
    BY <2>1 DEF ViewerChanges
  <2>3. PlaceInv'
    BY <1>1, <2>2 DEF PlaceInv
  <2>4. OutputInv'
    BY <1>1, <1>2, <2>2 DEF OutputInv
  <2>5. viewer' \in [Viewers -> {"present", "leaving", "gone"}]
    BY <1>1, <2>2 DEF TypeOK
  <2>6. TypeOK'
    BY <1>1, <2>2, <2>5 DEF TypeOK
  <2>7. QED BY <1>2, <2>3, <2>4, <2>6 DEF IInv
<1>6. QED BY <1>3, <1>4, <1>5

\* stop_session: the output that waited is cancelled with nothing of it in the Room, the
\* active one keeps the lines that are there and says why there are no more.
LEMMA StopKeeps ==
  ASSUME IInv, Stop PROVE IInv'
<1> DEFINE C == {i \in mailed : slot[i] = "queued" /\ i \notin scheduled} \cup Queued
<1>1. /\ TypeOK /\ Lanes /\ PlaceInv /\ OutputInv /\ Undecided /\ ReportMatchesRoom
      /\ UNCHANGED <<session, viewer, home, slot, lane, scheduled, active, durable, sent, behavior>>
      /\ phase = "live" /\ phase' = "stopping" /\ awaited' = mailed /\ mailed' = {} /\ queue' = <<>>
      /\ Struck(mailed) /\ WorkerStruck /\ Interrupt(Queued, "session_stopped", TRUE)
      /\ Settle(C, "cancelled")
  BY DEF IInv, Stop, effects
<1>2. /\ pc \in [Items -> Points] /\ mailed \subseteq Items /\ worker \in WorkerPoints
      /\ verdict \in [Items -> Verdicts \cup {None}] /\ reason \in [Items -> Reasons \cup {None}]
      /\ active \in Items \cup {None} /\ Queued \subseteq Items /\ scheduled \subseteq Items
      /\ durable \in [Items -> 0..Lines] /\ sent \in [Items -> 0..Lines] /\ Lines \in Nat
  BY <1>1, LimitsAssumption DEF TypeOK, Queued
<1>3. \A i \in Items : durable[i] \in Nat /\ sent[i] \in Nat
  BY <1>2
<1>4. /\ pc' \in [Items -> Points] /\ \A i \in Items : pc'[i] = "new" <=> pc[i] = "new"
      /\ \A i \in Items : pc'[i] # pc[i] => pc'[i] = "unwind"
  <2>1. \A i \in mailed : pc[i] # "new"
    BY <1>1, <1>2 DEF PlaceInv
  <2>2. QED BY <1>1, <1>2, <2>1, StruckFacts
<1>5. Lanes'
  BY <1>1, LanesUntouched
<1>6. PlaceInv'
  BY <1>1, <1>4 DEF PlaceInv
<1>7. /\ verdict' \in [Items -> Verdicts \cup {None}]
      /\ \A i \in Items : i \notin C => verdict'[i] = verdict[i]
      /\ \A i \in Items : verdict'[i] # verdict[i] => verdict[i] = None /\ verdict'[i] = "cancelled"
  BY <1>1, <1>2 DEF Settle, Settled, Verdicts
<1>8. /\ reason' \in [Items -> Reasons \cup {None}]
      /\ \A i \in Items : reason'[i] # reason[i] => reason'[i] = "session_stopped"
      /\ active \in Items => reason'[active] = "session_stopped"
  BY <1>1, <1>2 DEF Interrupt, Reasons
<1>9. \A i \in C : i \in Items /\ durable[i] = 0 /\ i # active
  <2>1. \A i \in Items \ scheduled : durable[i] = 0 /\ i # active
    BY <1>1, ViewerAssumption DEF OutputInv
  <2>2. \A i \in Queued : durable[i] = 0 /\ i # active
    BY <1>1 DEF OutputInv
  <2>3. QED BY <1>2, <2>1, <2>2
<1> HIDE DEF C
<1>10. OutputInv'
  <2>1. Queued' = {} /\ Distinct(queue)'
    BY <1>1 DEF Queued, Distinct
  <2>2. \A i \in scheduled : pc'[i] \in {"release", "unwind", "gone"}
    BY <1>1, <1>2, <1>4 DEF OutputInv
  <2>3. \/ worker' = worker /\ worker \notin {"take", "check"}
        \/ worker = "take" /\ worker' = "none"
        \/ worker \in {"check", "deliver"} /\ worker' = "finish"
    BY <1>1 DEF WorkerStruck
  <2>4. active # None <=> worker' \in {"check", "commit", "deliver", "finish"}
    BY <1>1, <2>3 DEF OutputInv
  <2>5. active # None => active \in Items /\ active \in scheduled /\ verdict'[active] = None
    BY <1>1, <1>2, <1>7, <1>9 DEF OutputInv
  <2>6. /\ worker' # "check"
        /\ worker' = "commit" => durable[active] = sent[active] /\ sent[active] < Lines
        /\ worker' = "deliver" => durable[active] = sent[active] + 1
    BY <1>1, <2>3 DEF OutputInv
  <2>7. worker' = "finish" => reason'[active] = "session_stopped"
    BY <1>8, <2>4, <2>5
  <2>8. QED BY <1>1, <2>1, <2>2, <2>4, <2>5, <2>6, <2>7 DEF OutputInv
<1>11. Undecided'
  <2>1. ASSUME NEW i \in C, pc'[i] \in {"new", "waiting", "attempt", "fence", "schedule"}
        PROVE  FALSE
    <3>1. pc'[i] = pc[i]
      BY <1>4, <1>9, <2>1
    <3>2. (i \in mailed /\ pc[i] # "silence") \/ i \in scheduled
      BY <1>1, <2>1, <3>1 DEF C, OutputInv
    <3>3. i \in scheduled => pc[i] \in {"release", "unwind", "gone"}
      BY <1>1 DEF OutputInv
    <3>4. i \in mailed /\ pc[i] # "silence" => pc'[i] = "unwind"
      BY <1>1, <1>2 DEF Struck
    <3>5. QED BY <2>1, <3>1, <3>2, <3>3, <3>4
  <2>2. QED BY <1>1, <1>4, <1>7, <2>1 DEF Undecided
<1>12. ReportMatchesRoom'
  <2>1. ASSUME NEW i \in Items PROVE /\ verdict'[i] = "published" => durable[i] > 0
                                     /\ verdict'[i] \notin {None, "published"} /\ durable[i] > 0
                                           => reason'[i] = "session_stopped"
    <3>1. CASE i \in C
      BY <1>1, <1>3, <1>7, <1>9, <3>1 DEF ReportMatchesRoom
    <3>2. CASE i \notin C
      BY <1>1, <1>7, <1>8, <3>2 DEF ReportMatchesRoom
    <3>3. QED BY <3>1, <3>2
  <2>2. QED BY <1>1, <2>1 DEF ReportMatchesRoom
<1>13. TypeOK'
  <2>1. worker' \in WorkerPoints
    BY <1>1, <1>2 DEF WorkerStruck, WorkerPoints
  <2>2. queue' \in Seq(Items) /\ phase' \in Phases /\ awaited' \subseteq Items /\ mailed' \subseteq Items
    BY <1>1, <1>2 DEF Phases
  <2>3. QED BY <1>1, <1>4, <1>7, <1>8, <2>1, <2>2 DEF TypeOK
<1>14. QED BY <1>5, <1>6, <1>10, <1>11, <1>12, <1>13 DEF IInv

\* cancel_viewer takes the viewer's requests out of the mailboxes and its output out of
\* the queue; what is active is left to the worker.
LEMMA CancelViewerKeeps ==
  ASSUME IInv, NEW v \in Viewers, CancelViewer(v)
  PROVE  IInv'
<1> DEFINE mine == {i \in mailed : ViewerOf[i] = v}
           cut == {i \in Queued : ViewerOf[i] = v}
           C == (mine \ scheduled) \cup cut
<1>1. /\ TypeOK /\ Lanes /\ PlaceInv /\ OutputInv /\ Undecided /\ ReportMatchesRoom
      /\ UNCHANGED <<session, phase, awaited, home, scheduled, active, worker,
                     durable, sent, behavior>>
      /\ viewer' = [viewer EXCEPT ![v] = "gone"] /\ mailed' = mailed \ mine
      /\ Settle(C, "cancelled") /\ Struck(mine) /\ queue' = Excluding(queue, cut)
      /\ Interrupt(cut, "viewer_gone", phase = "live" /\ active # None /\ ViewerOf[active] = v)
      /\ IF mine = {} THEN UNCHANGED <<lane, slot>> ELSE Discard(mine, session)
  BY DEF IInv, CancelViewer, effects
<1>2. /\ pc \in [Items -> Points] /\ mailed \subseteq Items /\ worker \in WorkerPoints
      /\ verdict \in [Items -> Verdicts \cup {None}] /\ reason \in [Items -> Reasons \cup {None}]
      /\ active \in Items \cup {None} /\ Queued \subseteq Items /\ scheduled \subseteq Items
      /\ durable \in [Items -> 0..Lines] /\ sent \in [Items -> 0..Lines] /\ Lines \in Nat
      /\ viewer \in [Viewers -> {"present", "leaving", "gone"}] /\ queue \in Seq(Items)
      /\ lane \in [Sessions -> [active : Nat, queued : Nat, eligible : Seq(Items)]]
      /\ slot \in [Items -> {"none", "queued", "held"}]
  BY <1>1, LimitsAssumption DEF TypeOK, Queued
<1>3. \A i \in Items : durable[i] \in Nat /\ sent[i] \in Nat
  BY <1>2
<1>4. mine \subseteq mailed /\ mine \in SUBSET Items /\ cut \subseteq Queued
  BY <1>2
<1>5. \A i \in mine : pc[i] # "new" /\ home[i] = session /\ session \in Sessions
  BY <1>1, <1>2 DEF PlaceInv
<1>6. /\ verdict' \in [Items -> Verdicts \cup {None}]
      /\ \A i \in Items : i \notin C => verdict'[i] = verdict[i]
      /\ \A i \in Items : verdict'[i] # verdict[i] => verdict[i] = None /\ verdict'[i] = "cancelled"
  BY <1>1, <1>2 DEF Settle, Settled, Verdicts
<1>7. \A i \in C : i \in Items /\ durable[i] = 0 /\ i # active /\ (i \notin scheduled \/ i \in cut)
  <2>1. \A i \in Items \ scheduled : durable[i] = 0 /\ i # active
    BY <1>1, ViewerAssumption DEF OutputInv
  <2>2. \A i \in Queued : durable[i] = 0 /\ i # active
    BY <1>1 DEF OutputInv
  <2>3. QED BY <1>2, <1>4, <2>1, <2>2
<1>8. \A i \in C : i \in mine \/ i \in scheduled
  BY <1>1, <1>4 DEF OutputInv
<1> HIDE DEF mine, C
<1>9. /\ pc' \in [Items -> Points] /\ \A i \in Items : pc'[i] = "new" <=> pc[i] = "new"
      /\ \A i \in Items : pc'[i] # pc[i] => pc'[i] = "unwind"
  BY <1>1, <1>2, <1>4, <1>5, StruckFacts
<1>10. /\ lane' \in [Sessions -> [active : Nat, queued : Nat, eligible : Seq(Items)]]
       /\ slot' \in [Items -> {"none", "queued", "held"}]
       /\ \A i \in Items : slot[i] = "none" => slot'[i] = "none"
       /\ Lanes'
  <2>1. CASE mine = {}
    BY <1>1, <1>2, <2>1, LanesUntouched
  <2>2. CASE mine # {}
    BY <1>1, <1>4, <1>5, <2>2, Discarded
  <2>3. QED BY <2>1, <2>2
<1>11. PlaceInv'
  BY <1>1, <1>9, <1>10 DEF PlaceInv
<1>12. /\ queue' \in Seq(Items) /\ Distinct(queue)' /\ Queued' = Queued \ cut
  <2>1. Distinct(queue) /\ Elements(queue) = Queued
    BY <1>1 DEF OutputInv, Elements, Queued
  <2>2. /\ Excluding(queue, cut) \in Seq(Items) /\ Distinct(Excluding(queue, cut))
        /\ Elements(Excluding(queue, cut)) = Queued \ cut
    BY <1>2, <2>1, ExcludingFacts
  <2>3. queue' = Excluding(queue, cut)
    BY <1>1
  <2> HIDE DEF cut
  <2>4. QED BY <2>2, <2>3 DEF Distinct, Elements, Queued
<1>13. /\ reason' \in [Items -> Reasons \cup {None}]
       /\ \A i \in Items : reason'[i] # reason[i] => i \in cut \/ (i = active /\ phase = "live")
  BY <1>1, <1>2 DEF Interrupt, Reasons
<1>14. OutputInv'
  <2>1. \A i \in scheduled : pc'[i] \in {"release", "unwind", "gone"}
    BY <1>1, <1>2, <1>9 DEF OutputInv
  <2>2. \A i \in Queued' : i \in Queued /\ verdict'[i] = verdict[i]
    BY <1>1, <1>2, <1>6, <1>7, <1>12 DEF OutputInv
  <2>3. active # None => verdict'[active] = verdict[active]
    BY <1>2, <1>6, <1>7
  <2>4. phase = "stopping" /\ active # None => reason'[active] = reason[active]
    BY <1>1, <1>2, <1>4, <1>13 DEF OutputInv
  <2> HIDE DEF cut
  <2>5. QED BY <1>1, <1>12, <2>1, <2>2, <2>3, <2>4 DEF OutputInv
<1>15. Undecided'
  <2>1. ASSUME NEW i \in C, pc'[i] \in {"new", "waiting", "attempt", "fence", "schedule"}
        PROVE  FALSE
    <3>1. pc'[i] = pc[i]
      BY <1>7, <1>9, <2>1
    <3>2. i \in scheduled => pc[i] \in {"release", "unwind", "gone"}
      BY <1>1 DEF OutputInv
    <3>3. i \in mine /\ pc[i] # "silence" => pc'[i] = "unwind"
      BY <1>1, <1>4 DEF Struck
    <3>4. QED BY <1>8, <2>1, <3>1, <3>2, <3>3
  <2>2. QED BY <1>1, <1>6, <1>9, <2>1 DEF Undecided
<1>16. ReportMatchesRoom'
  <2>1. ASSUME NEW i \in Items PROVE /\ verdict'[i] = "published" => durable[i] > 0
                                     /\ verdict'[i] \notin {None, "published"} /\ durable[i] > 0
                                           => reason'[i] = "session_stopped"
    <3>1. CASE i \in C
      BY <1>1, <1>3, <1>6, <1>7, <3>1 DEF ReportMatchesRoom
    <3>2. CASE i \notin C
      <4>1. verdict'[i] = verdict[i]
        BY <1>6, <3>2
      <4>2. CASE reason'[i] = reason[i]
        BY <1>1, <4>1, <4>2 DEF ReportMatchesRoom
      <4>3. CASE reason'[i] # reason[i]
        <5>1. i \in cut => verdict[i] = None
          BY <1>1, <1>4 DEF OutputInv
        <5>2. i = active => verdict[i] = None
          BY <1>1, ViewerAssumption DEF OutputInv
        <5>3. verdict[i] = None
          BY <1>13, <4>3, <5>1, <5>2
        <5>4. None # "published"
          BY NoneAssumption DEF Verdicts
        <5>5. QED BY <4>1, <5>3, <5>4
      <4>4. QED BY <4>2, <4>3
    <3>3. QED BY <3>1, <3>2
  <2>2. QED BY <1>1, <2>1 DEF ReportMatchesRoom
<1>17. TypeOK'
  <2>1. viewer' \in [Viewers -> {"present", "leaving", "gone"}] /\ mailed' \subseteq Items
    BY <1>1, <1>2
  <2>2. QED BY <1>1, <1>6, <1>9, <1>10, <1>12, <1>13, <2>1 DEF TypeOK
<1>18. QED BY <1>10, <1>11, <1>14, <1>15, <1>16, <1>17 DEF IInv

---------------------------------------------------------------------------
(* The theorems.                                                           *)

\* The invariant of ViewerDispatch holds at first.
LEMMA InitEstablishes == Init => IInv
<1> SUFFICES ASSUME Init PROVE IInv
  OBVIOUS
<1>1. /\ session = 0 /\ phase = "idle" /\ awaited = {} /\ mailed = {} /\ scheduled = {}
      /\ queue = <<>> /\ active = None /\ worker = "none"
      /\ viewer = [v \in Viewers |-> "present"] /\ home = [i \in Items |-> 0]
      /\ pc = [i \in Items |-> "new"] /\ slot = [i \in Items |-> "none"]
      /\ lane = [s \in Sessions |-> EmptyLane]
      /\ reason = [i \in Items |-> None] /\ durable = [i \in Items |-> 0]
      /\ sent = [i \in Items |-> 0] /\ behavior = [i \in Items |-> None]
      /\ verdict = [i \in Items |-> None]
  BY DEF Init
<1>2. TypeOK
  <2>1. EmptyLane \in [active : Nat, queued : Nat, eligible : Seq(Items)]
    BY DEF EmptyLane
  <2>2. 0 \in 0..MaxSession /\ 0 \in 0..Lines
    BY LimitsAssumption
  <2>3. QED BY <1>1, <2>1, <2>2 DEF TypeOK, Phases, Points, WorkerPoints
<1>3. Lanes
  <2>1. ASSUME NEW s \in Sessions PROVE LaneOK(s)
    <3>1. Held(s) = {} /\ Waits(s) = {}
      BY <1>1 DEF Held, Waits
    <3>2. IsFiniteSet(Held(s)) /\ Cardinality(Held(s)) = 0
      BY <3>1, FS_EmptySet
    <3>3. lane[s].active = 0 /\ lane[s].queued = 0 /\ lane[s].eligible = <<>>
      BY <1>1 DEF EmptyLane
    <3>4. QED BY <3>1, <3>2, <3>3, LimitsAssumption DEF LaneOK, Distinct, Elements
  <2>2. QED BY <2>1 DEF Lanes
<1>4. PlaceInv
  BY <1>1 DEF PlaceInv
<1>5. OutputInv
  BY <1>1 DEF OutputInv, Distinct, Queued
<1>6. Undecided
  BY <1>1 DEF Undecided
<1>7. ReportMatchesRoom
  BY <1>1, NoneAssumption DEF ReportMatchesRoom, Verdicts
<1>8. QED BY <1>2, <1>3, <1>4, <1>5, <1>6, <1>7 DEF IInv

\* And every step keeps it.
LEMMA NextKeeps == IInv /\ [Next]_vars => IInv'
<1> SUFFICES ASSUME IInv, [Next]_vars PROVE IInv'
  OBVIOUS
<1>1. CASE UNCHANGED vars
  <2>1. UNCHANGED <<session, phase, awaited, viewer, home, pc, mailed, slot, lane, scheduled,
                    queue, active, worker, reason, durable, sent, behavior, verdict>>
    BY <1>1 DEF vars, control, mailbox, output, effects
  <2>2. Lanes' /\ PlaceInv' /\ Undecided' /\ ReportMatchesRoom' /\ Queued' = Queued
    BY <2>1, LanesUntouched DEF IInv, PlaceInv, Undecided, ReportMatchesRoom, Queued
  <2>3. OutputInv' /\ TypeOK'
    BY <2>1, <2>2 DEF IInv, OutputInv, TypeOK
  <2>4. QED BY <2>2, <2>3 DEF IInv
<1>2. CASE StartSession \/ StopEnds \/ \E v \in Viewers : ViewerChanges(v)
  BY <1>2, SessionKeeps
<1>3. CASE Stop
  BY <1>3, StopKeeps
<1>4. ASSUME NEW v \in Viewers, CancelViewer(v) PROVE IInv'
  BY <1>4, CancelViewerKeeps
<1>5. ASSUME NEW i \in Items, Enqueue(i) \/ Mail(i) PROVE IInv'
  BY <1>5, EnqueueKeeps, MailKeeps, ScheduleKeeps, MailEnds DEF Mail
<1>6. CASE Work
  BY <1>6, TakeKeeps, WorkKeeps, FinishKeeps DEF Work
<1>7. QED BY <1>1, <1>2, <1>3, <1>4, <1>5, <1>6 DEF Next

\* The inductive invariant holds in every reachable state.
THEOREM Invariance == Spec => []IInv
<1>1. QED BY InitEstablishes, NextKeeps, PTL DEF Spec

\* However cancellation, stop and the end of a task share the work of giving back, the
\* counters of every lane say what its requests hold, stay within the limits, and no
\* request waits beside a free slot.
THEOREM LanesAreKept == Spec => []LanesKept
<1>1. IInv => LanesKept
  <2> SUFFICES ASSUME IInv PROVE LanesKept
    OBVIOUS
  <2>1. TypeOK /\ Lanes
    BY DEF IInv
  <2>2. ASSUME NEW s \in Sessions
        PROVE  /\ lane[s].active = Cardinality(Held(s)) /\ lane[s].active <= MaxInFlight
               /\ lane[s].queued = Cardinality(Waits(s)) /\ lane[s].queued <= QueueCapacity
               /\ {lane[s].eligible[k] : k \in DOMAIN lane[s].eligible} = Waits(s)
               /\ Len(lane[s].eligible) = lane[s].queued
               /\ lane[s].queued > 0 => lane[s].active = MaxInFlight
    <3>1. LaneOK(s) /\ lane[s].eligible \in Seq(Items)
      BY <2>1 DEF Lanes, TypeOK
    <3>2. Cardinality(Elements(lane[s].eligible)) = Len(lane[s].eligible)
      BY <3>1, LenIsCardinality DEF LaneOK
    <3>3. QED BY <3>1, <3>2 DEF LaneOK, Elements
  <2>3. LaneCountsSlots
    BY <2>2 DEF LaneCountsSlots, Held, Waits
  <2>4. NoIdleSlot
    BY <2>2 DEF NoIdleSlot
  <2>5. QED BY <2>1, <2>3, <2>4 DEF LanesKept
<1>2. QED BY <1>1, Invariance, PTL

\* What a request is told agrees with the Room: "published" only with something of it
\* there, and anything else beside something there only when the session stopped.
THEOREM ReportsMatchTheRoom == Spec => []ReportMatchesRoom
<1>1. IInv => ReportMatchesRoom
  BY DEF IInv
<1>2. QED BY <1>1, Invariance, PTL

\* After a stop or cancel_viewer nothing more of the session or the viewer enters the
\* Room and no silence is committed: only the two guarded steps write either.
THEOREM CancelledIsQuiet == Spec => QuietAfterCancel
<1> DEFINE Enters(i) == durable'[i] > durable[i] \/ (behavior'[i] = "silence" /\ behavior[i] # "silence")
           Allowed(i) == phase = "live" /\ home[i] = session /\ viewer[ViewerOf[i]] # "gone"
<1>1. ASSUME IInv, [Next]_vars, NEW i \in Items, Enters(i) PROVE Allowed(i)
  <2>1. /\ durable \in [Items -> 0..Lines] /\ behavior \in [Items -> {None, "silence", "published"}]
        /\ active \in Items \cup {None} /\ \A j \in Items : durable[j] \in Nat
    BY <1>1, LimitsAssumption DEF IInv, TypeOK
  <2>2. ~(durable[i] > durable[i])
    BY <2>1
  <2>3. ~UNCHANGED <<durable, behavior>>
    BY <1>1, <2>2
  <2>4. \/ \E j \in Items : Silence(j)
        \/ Commit \/ Finish
    BY <1>1, <2>3 DEF Next, Mail, Work, vars, effects, StartSession, Stop, StopEnds,
       ViewerChanges, CancelViewer, Enqueue, Begin, Attempt, Fence, Schedule, Release,
       Unwind, Take, Check, Deliver
  <2>5. ASSUME NEW j \in Items, Silence(j) PROVE Allowed(i)
    <3>1. durable' = durable
      BY <2>5 DEF Silence
    <3>2. behavior' = [behavior EXCEPT ![j] = "silence"] /\ Accepts(j) /\ Current(j)
      BY <1>1, <2>2, <2>5, <3>1 DEF Silence
    <3>3. i = j
      BY <1>1, <2>1, <2>2, <3>1, <3>2
    <3>4. QED BY <3>2, <3>3 DEF Accepts, Current
  <2>6. CASE Commit
    <3>1. behavior' = behavior
      BY <2>6 DEF Commit
    <3>2. /\ Accepts(active) /\ ActiveIsCurrent
          /\ durable' = [durable EXCEPT ![active] = @ + 1]
      BY <1>1, <2>2, <2>6, <3>1 DEF Commit
    <3>3. i = active
      BY <1>1, <2>1, <2>2, <3>1, <3>2
    <3>4. QED BY <3>2, <3>3 DEF Accepts, ActiveIsCurrent, Current
  <2>7. CASE Finish
    <3>1. durable' = durable
      BY <2>7 DEF Finish
    <3>2. behavior' = behavior \/ behavior' = [behavior EXCEPT ![active] = "published"]
      BY <2>7 DEF Finish
    <3>3. QED BY <1>1, <2>1, <2>2, <3>1, <3>2
  <2>8. QED BY <2>4, <2>5, <2>6, <2>7
<1> DEFINE Quietly ==
      \A i \in Items :
          \/ durable'[i] > durable[i]
          \/ behavior'[i] = "silence" /\ behavior[i] # "silence"
          => phase = "live" /\ home[i] = session /\ viewer[ViewerOf[i]] # "gone"
<1>2. ASSUME IInv, [Next]_vars PROVE [Quietly]_vars
  BY <1>1, <1>2
<1>3. Spec => [][Quietly]_vars
  BY <1>2, Invariance, PTL DEF Spec
<1>4. QED BY <1>3 DEF QuietAfterCancel

---------------------------------------------------------------------------
(* WaveCoordinator: lists of frames.                                      *)

\* The vocabulary of SequencesExt and that of the lemmas on lists say the same.
LEMMA ListsAsSets ==
  ASSUME NEW s
  PROVE  ToSet(s) = Elements(s) /\ (IsInjective(s) <=> Distinct(s))
BY DEF ToSet, Elements, IsInjective, Distinct

\* The first elements of a list of different ones.
LEMMA PrefixIsCardinality ==
  ASSUME NEW A, NEW s \in Seq(A), Distinct(s), NEW n \in 0..Len(s)
  PROVE  IsFiniteSet(First(s, n)) /\ Cardinality(First(s, n)) = n
<1>1. PICK t : t = SubSeq(s, 1, n)
  OBVIOUS
<1>2. Len(s) \in Nat /\ n \in Nat /\ n <= Len(s) /\ DOMAIN s = 1..Len(s)
  OBVIOUS
<1>3. t \in Seq(A) /\ Len(t) = n /\ DOMAIN t = 1..n /\ \A k \in 1..n : t[k] = s[k]
  BY <1>1, <1>2
<1>4. Distinct(t) /\ Elements(t) = First(s, n)
  BY <1>2, <1>3 DEF Distinct, Elements, First
<1>5. QED BY <1>3, <1>4, LenIsCardinality

\* Two lists without a common element, one after the other.
LEMMA ConcatFacts ==
  ASSUME NEW A, NEW a \in Seq(A), NEW b \in Seq(A)
  PROVE  /\ a \o b \in Seq(A) /\ Elements(a \o b) = Elements(a) \cup Elements(b)
         /\ Distinct(a) /\ Distinct(b) /\ Elements(a) \cap Elements(b) = {} => Distinct(a \o b)
<1>1. PICK m, n, c : m = Len(a) /\ n = Len(b) /\ c = a \o b
  OBVIOUS
<1>2. /\ m \in Nat /\ n \in Nat /\ DOMAIN a = 1..m /\ DOMAIN b = 1..n
      /\ c \in Seq(A) /\ DOMAIN c = 1..m+n
      /\ \A k \in 1..m+n : c[k] = IF k <= m THEN a[k] ELSE b[k-m]
  BY <1>1
<1>3. \A k \in 1..m : k \in 1..m+n /\ c[k] = a[k]
  BY <1>2
<1>4. \A k \in 1..n : m + k \in 1..m+n /\ c[m+k] = b[k]
  <2>1. ASSUME NEW k \in 1..n PROVE m + k \in 1..m+n /\ ~(m + k <= m) /\ m + k - m = k
    BY <1>2
  <2>2. QED BY <1>2, <2>1
<1>5. \A k \in 1..m+n : (k \in 1..m /\ c[k] = a[k]) \/ (k - m \in 1..n /\ c[k] = b[k-m] /\ k = m + (k - m))
  BY <1>2
<1>6. Elements(c) = Elements(a) \cup Elements(b)
  <2>1. ASSUME NEW x \in Elements(c) PROVE x \in Elements(a) \/ x \in Elements(b)
    <3>1. PICK k \in 1..m+n : x = c[k]
      BY <1>2 DEF Elements
    <3>2. \/ k \in DOMAIN a /\ a[k] = x
          \/ k - m \in DOMAIN b /\ b[k-m] = x
      BY <1>2, <1>5, <3>1
    <3>3. QED BY <3>2 DEF Elements
  <2>2. \A x : x \in Elements(a) => x \in Elements(c)
    BY <1>2, <1>3 DEF Elements
  <2>3. ASSUME NEW x \in Elements(b) PROVE x \in Elements(c)
    <3>1. PICK k \in 1..n : x = b[k]
      BY <1>2 DEF Elements
    <3>2. m + k \in DOMAIN c /\ c[m+k] = x
      BY <1>2, <1>4, <3>1
    <3>3. QED BY <3>2 DEF Elements
  <2>4. QED BY <2>1, <2>2, <2>3
<1>7. ASSUME Distinct(a), Distinct(b), Elements(a) \cap Elements(b) = {} PROVE Distinct(c)
  <2>1. SUFFICES ASSUME NEW j \in 1..m+n, NEW k \in 1..m+n, c[j] = c[k] PROVE j = k
    BY <1>2 DEF Distinct
  <2>2. \A i \in 1..m, l \in 1..n : a[i] # b[l]
    BY <1>2, <1>7 DEF Elements
  <2>3. \A i, l \in 1..m : a[i] = a[l] => i = l
    BY <1>2, <1>7 DEF Distinct
  <2>4. \A i, l \in 1..n : b[i] = b[l] => i = l
    BY <1>2, <1>7 DEF Distinct
  <2>5. QED BY <1>2, <1>5, <2>1, <2>2, <2>3, <2>4
<1>8. QED BY <1>1, <1>2, <1>6, <1>7

\* Eviction repeats and adds no frame, takes no retained one, and exceeds the limit only with those.
LEMMA EvictedFacts ==
  ASSUME NEW s \in Seq(Frames), IsInjective(s), NEW c \in [Frames -> Nat]
  PROVE  /\ Evicted(s, c) \in Seq(Frames) /\ IsInjective(Evicted(s, c))
         /\ ToSet(Evicted(s, c)) \subseteq ToSet(s)
         /\ \A f \in ToSet(s) : c[f] > 0 => f \in ToSet(Evicted(s, c))
         /\ Len(Evicted(s, c)) > MaxFrames => \A f \in ToSet(Evicted(s, c)) : c[f] > 0
<1> DEFINE busy == {f \in Frames : c[f] > 0}
           free == Excluding(s, busy)
           excess == IF Len(s) > MaxFrames THEN Len(s) - MaxFrames ELSE 0
           n == IF excess < Len(free) THEN excess ELSE Len(free)
           out == {free[i] : i \in 1..n}
           kept == Excluding(s, out)
<1>1. Evicted(s, c) = kept
  BY DEF Evicted
<1>2. Distinct(s) /\ ToSet(s) = Elements(s) /\ Elements(s) \subseteq Frames /\ MaxFrames \in Nat
  BY ListsAsSets, WaveAssumption DEF Elements
<1>3. free \in Seq(Frames) /\ Elements(free) = Elements(s) \ busy /\ Distinct(free)
  <2> HIDE DEF busy
  <2>1. QED BY <1>2, ExcludingFacts
<1>4. kept \in Seq(Frames) /\ Elements(kept) = Elements(s) \ out /\ Distinct(kept)
  <2> HIDE DEF out
  <2>1. QED BY <1>2, ExcludingFacts
<1>5. ToSet(kept) = Elements(kept) /\ IsInjective(kept)
  <2> HIDE DEF kept
  <2>1. ToSet(kept) = Elements(kept) /\ (IsInjective(kept) <=> Distinct(kept))
    BY ListsAsSets
  <2>2. QED BY <1>4, <2>1
<1>6. excess \in Nat /\ Len(free) \in Nat /\ n \in 0..Len(free) /\ DOMAIN free = 1..Len(free)
  BY <1>2, <1>3
<1> HIDE DEF free, excess
<1>7. out \subseteq Elements(free)
  BY <1>6 DEF Elements
<1>8. \A f \in Elements(s) : c[f] > 0 => f \in Elements(kept)
  BY <1>2, <1>3, <1>4, <1>7
<1>9. ASSUME Len(kept) > MaxFrames, NEW f \in Elements(kept) PROVE c[f] > 0
  <2>1. CASE n = Len(free)
    <3>1. out = Elements(free)
      BY <1>6, <2>1 DEF Elements
    <3>2. QED BY <1>2, <1>3, <1>4, <1>9, <3>1
  <2>2. CASE n # Len(free)
    <3>1. n = excess
      BY <2>2
    <3>2. First(free, n) = out
      BY DEF First
    <3>3. IsFiniteSet(out) /\ Cardinality(out) = n
      BY <1>3, <1>6, <3>2, PrefixIsCardinality
    <3>4. IsFiniteSet(Elements(s)) /\ Cardinality(Elements(s)) = Len(s) /\ Cardinality(Elements(kept)) = Len(kept)
      BY <1>2, <1>4, LenIsCardinality
    <3>5. Elements(s) \cap out = out
      BY <1>3, <1>7
    <3>6. Cardinality(Elements(kept)) = Cardinality(Elements(s)) - n
      <4> HIDE DEF out, kept
      <4>1. Cardinality(Elements(s) \ out) = Cardinality(Elements(s)) - Cardinality(Elements(s) \cap out)
        BY <3>4, FS_Difference
      <4>2. QED BY <1>4, <3>3, <3>5, <4>1
    <3>7. Len(s) \in Nat /\ Len(kept) = Len(s) - excess
      BY <3>1, <3>4, <3>6
    <3>8. QED BY <1>2, <1>9, <3>7 DEF excess
  <2>3. QED BY <2>1, <2>2
<1> HIDE DEF kept
<1>10. QED BY <1>1, <1>2, <1>4, <1>5, <1>8, <1>9

\* Using frames only changes their order.
LEMMA TouchedFacts ==
  ASSUME stored \in Seq(Frames), IsInjective(stored), NEW fs
  PROVE  /\ Touched(fs) \in Seq(Frames) /\ IsInjective(Touched(fs))
         /\ ToSet(Touched(fs)) = ToSet(stored) /\ Len(Touched(fs)) = Len(stored)
<1>1. PICK a, b : a = Excluding(stored, fs) /\ b = Excluding(stored, Frames \ fs)
  OBVIOUS
<1>2. Distinct(stored) /\ ToSet(stored) = Elements(stored) /\ Elements(stored) \subseteq Frames
  BY ListsAsSets DEF Elements
<1>3. a \in Seq(Frames) /\ Elements(a) = Elements(stored) \ fs /\ Distinct(a)
  BY <1>1, <1>2, ExcludingFacts
<1>4. b \in Seq(Frames) /\ Elements(b) = Elements(stored) \ (Frames \ fs) /\ Distinct(b)
  BY <1>1, <1>2, ExcludingFacts
<1>5. Elements(a) \cap Elements(b) = {} /\ Elements(a) \cup Elements(b) = Elements(stored)
  BY <1>2, <1>3, <1>4
<1>6. a \o b \in Seq(Frames) /\ Elements(a \o b) = Elements(a) \cup Elements(b) /\ Distinct(a \o b)
  BY <1>3, <1>4, <1>5, ConcatFacts
<1>7. Touched(fs) = a \o b
  BY <1>1 DEF Touched
<1>8. Len(a \o b) = Len(stored)
  BY <1>2, <1>5, <1>6, LenIsCardinality
<1>9. ToSet(a \o b) = Elements(a \o b) /\ IsInjective(a \o b)
  BY <1>6, ListsAsSets
<1>10. QED BY <1>2, <1>5, <1>6, <1>7, <1>8, <1>9

---------------------------------------------------------------------------
(* WaveCoordinator: the inductive invariant.                               *)

\* The running waves that look at a frame.
Retainers(f) == {w \in Waves : Holds(w, f)}

\* How many ambient waves in a row epoch e lets pass: any number in a batch epoch (WINDOW_BATCH).
Granted(e, n) == e \in BatchEpochs \/ n <= MaxAmbient

WaveRecords ==
    {r \in [at : {"none", "draining", "preparing", "dispatching", "ended"}, kind : Kinds \cup {"none"},
            epoch : 0..MaxEpoch, accepted : BOOLEAN, frames : SUBSET Frames, proposed : Nat] :
       Granted(r.epoch, r.proposed)}

Policies == {p \in [epoch : 0..MaxEpoch, ambient : Nat] : Granted(p.epoch, p.ambient)}

\* What everything is, and that only extractions that are not over are tracked.
WavesShaped ==
    /\ lifetime \in {"running", "stopping", "stopped"} /\ epoch \in 0..MaxEpoch /\ accepting \in BOOLEAN
    /\ shown \in 0..MaxStored
    /\ wave \in [Waves -> WaveRecords]
    /\ extraction \in [Waves -> {"none", "scheduled", "extracting", "cancelled"}]
    /\ tracked \subseteq {w \in Waves : extraction[w] \in {"scheduled", "extracting", "cancelled"}}
    /\ policy \in {NoPolicy} \cup Policies
    /\ quiet \in Nat

\* The books of the frame store also for frames that are gone: nobody looks at those.
StoreInv ==
    /\ stored \in Seq(Frames) /\ IsInjective(stored) /\ ToSet(stored) \subseteq 1..shown
    /\ retained \in [Frames -> Nat]
    /\ lifetime = "stopped" => stored = <<>>
    /\ lifetime # "stopped" => \A f \in Frames : retained[f] = Cardinality(Retainers(f))
    /\ FramesLast
    /\ Len(stored) > MaxFrames => \A f \in ToSet(stored) : retained[f] > 0

\* An ambient wave under way: there is at most one.  It has proposed more than were counted, unless a hot
\* update came meanwhile; then none has been counted since, and what it stores does not count.
Ambient(w) == Live(w) /\ wave[w].kind = "ambient"
AmbientInv ==
    /\ quiet > 0 => policy # NoPolicy /\ policy.epoch = epoch /\ quiet <= policy.ambient
    /\ \A v, w \in Waves : Ambient(v) /\ Ambient(w) => v = w
    /\ \A w \in Waves : Ambient(w) =>
          /\ wave[w].epoch # epoch => quiet = 0
          /\ wave[w].at # "draining" =>
                wave[w].proposed > 0 /\ (wave[w].epoch = epoch => quiet < wave[w].proposed)

WaveInv == WavesShaped /\ StoreInv /\ AmbientInv

---------------------------------------------------------------------------
(* The frame store.                                                        *)

\* The waves that look at a frame are finitely many.
LEMMA RetainersFinite ==
  ASSUME NEW f PROVE IsFiniteSet(Retainers(f)) /\ Retainers(f) \subseteq Waves
<1>1. MaxWaves \in Nat
  BY WaveAssumption
<1>2. IsFiniteSet(Waves)
  BY <1>1, FS_Interval DEF Waves
<1>3. Retainers(f) \subseteq Waves
  BY DEF Retainers
<1>4. QED BY <1>2, <1>3, FS_Subset

\* Frames come, go and change their order: the books are kept as long as no wave takes or gives back
\* one and no retained one goes.
LEMMA StoreMoves ==
  ASSUME WavesShaped', StoreInv,
         \A w \in Waves, f \in Frames : (Holds(w, f))' <=> Holds(w, f),
         lifetime' = "stopped" <=> lifetime = "stopped", retained' = retained,
         stored' \in Seq(Frames), IsInjective(stored'), ToSet(stored') \subseteq 1..shown',
         \A f \in ToSet(stored) : retained[f] > 0 => f \in ToSet(stored'),
         lifetime = "stopped" => stored' = <<>>,
         Len(stored') > MaxFrames => \A f \in ToSet(stored') : retained[f] > 0
  PROVE  StoreInv'
<1>1. \A f \in Frames : (Retainers(f))' = Retainers(f)
  BY DEF Retainers
<1>2. lifetime' # "stopped" => \A f \in Frames : retained'[f] = Cardinality((Retainers(f))')
  BY <1>1 DEF StoreInv
<1>3. FramesLast'
  <2>1. SUFFICES ASSUME lifetime' # "stopped", NEW w \in Waves, wave'[w].at = "dispatching",
                        NEW f \in wave'[w].frames
                 PROVE  f \in ToSet(stored')
    BY DEF FramesLast
  <2>2. f \in Frames
    BY <2>1 DEF WavesShaped, WaveRecords
  <2>3. Holds(w, f)
    BY <2>1, <2>2 DEF Holds
  <2>4. f \in ToSet(stored)
    BY <2>1, <2>3 DEF StoreInv, FramesLast, Holds
  <2>5. w \in Retainers(f)
    BY <2>3 DEF Retainers
  <2>6. Cardinality(Retainers(f)) \in Nat /\ Cardinality(Retainers(f)) # 0
    BY <2>5, RetainersFinite, FS_CardinalityType, FS_EmptySet
  <2>7. retained[f] > 0
    BY <2>1, <2>2, <2>6 DEF StoreInv
  <2>8. QED BY <2>4, <2>7
<1>4. QED BY <1>2, <1>3 DEF StoreInv

\* What leaves the store and what waves hold alone.
LEMMA StoreUntouched ==
  ASSUME WavesShaped', StoreInv,
         \A w \in Waves, f \in Frames : (Holds(w, f))' <=> Holds(w, f),
         lifetime' = "stopped" <=> lifetime = "stopped", UNCHANGED <<stored, retained, shown>>
  PROVE  StoreInv'
<1>1. /\ stored' \in Seq(Frames) /\ IsInjective(stored') /\ ToSet(stored') \subseteq 1..shown'
      /\ retained' = retained /\ ToSet(stored') = ToSet(stored)
      /\ lifetime = "stopped" => stored' = <<>>
      /\ Len(stored') > MaxFrames => \A f \in ToSet(stored') : retained[f] > 0
  BY DEF StoreInv
<1>2. \A f \in ToSet(stored) : retained[f] > 0 => f \in ToSet(stored')
  BY <1>1
<1>3. QED BY <1>1, <1>2, StoreMoves

\* A wave gives back what it looked at.
LEMMA ReleaseKeeps ==
  ASSUME WavesShaped', StoreInv, NEW w \in Waves, wave[w].at = "dispatching", wave[w].frames \subseteq Frames,
         ReleaseFrames(wave[w].frames), UNCHANGED <<lifetime, shown>>,
         wave'[w].at = "ended", \A v \in Waves \ {w} : wave'[v] = wave[v]
  PROVE  StoreInv'
<1>1. CASE lifetime = "stopped"
  <2>1. UNCHANGED <<stored, retained, shown, lifetime>>
    BY <1>1 DEF ReleaseFrames
  <2>2. QED BY <1>1, <2>1 DEF StoreInv, FramesLast
<1>2. CASE lifetime # "stopped"
  <2>1. /\ retained' = [f \in Frames |->
               IF f \in wave[w].frames \cap ToSet(stored) /\ retained[f] > 0 THEN retained[f] - 1 ELSE retained[f]]
        /\ stored' = Evicted(stored, retained')
    BY <1>2 DEF ReleaseFrames
  <2>2. \A f \in Frames : (Retainers(f))' = Retainers(f) \ {w}
    BY DEF Retainers, Holds
  <2>3. \A f \in Frames : w \in Retainers(f) <=> f \in wave[w].frames
    BY DEF Retainers, Holds
  <2>4. ASSUME NEW f \in Frames
        PROVE  /\ retained'[f] = Cardinality((Retainers(f))') /\ retained'[f] \in Nat
               /\ Cardinality((Retainers(f))') \in Nat
    <3>1. IsFiniteSet(Retainers(f)) /\ retained[f] = Cardinality(Retainers(f)) /\ retained[f] \in Nat
      BY <1>2, RetainersFinite DEF StoreInv
    <3>2. CASE f \in wave[w].frames
      <4>1. w \in Retainers(f) /\ f \in ToSet(stored)
        BY <1>2, <2>3, <3>2 DEF StoreInv, FramesLast
      <4>2. Cardinality(Retainers(f) \ {w}) = retained[f] - 1 /\ retained[f] # 0
        BY <3>1, <4>1, FS_RemoveElement, FS_EmptySet
      <4>3. retained'[f] = retained[f] - 1
        BY <2>1, <3>1, <3>2, <4>1, <4>2
      <4>4. (Retainers(f))' = Retainers(f) \ {w}
        BY <2>2
      <4>5. retained[f] - 1 \in Nat
        BY <3>1, <4>2
      <4>6. QED BY <4>2, <4>3, <4>4, <4>5
    <3>3. CASE f \notin wave[w].frames
      <4>1. Retainers(f) \ {w} = Retainers(f)
        BY <2>3, <3>3
      <4>2. retained'[f] = retained[f]
        BY <2>1, <3>3
      <4>3. QED BY <2>2, <3>1, <4>1, <4>2
    <3>4. QED BY <3>2, <3>3
  <2>5. retained' \in [Frames -> Nat]
    BY <2>1, <2>4
  <2>6. /\ stored' \in Seq(Frames) /\ IsInjective(stored')
        /\ ToSet(stored') \subseteq ToSet(stored)
        /\ \A f \in ToSet(stored) : retained'[f] > 0 => f \in ToSet(stored')
        /\ Len(stored') > MaxFrames => \A f \in ToSet(stored') : retained'[f] > 0
    <3>1. PICK c : c = retained'
      OBVIOUS
    <3>2. stored \in Seq(Frames) /\ IsInjective(stored) /\ c \in [Frames -> Nat]
      BY <2>5, <3>1 DEF StoreInv
    <3>3. stored' = Evicted(stored, c)
      BY <2>1, <3>1
    <3>4. QED BY <3>1, <3>2, <3>3, EvictedFacts
  <2>7. FramesLast'
    <3>1. SUFFICES ASSUME NEW v \in Waves, wave'[v].at = "dispatching", NEW f \in wave'[v].frames
                   PROVE  f \in ToSet(stored')
      BY DEF FramesLast
    <3>2. v # w /\ wave'[v] = wave[v]
      BY <3>1
    <3>3. f \in Frames /\ f \in ToSet(stored)
      BY <1>2, <3>1, <3>2 DEF WavesShaped, WaveRecords, StoreInv, FramesLast
    <3>4. v \in (Retainers(f))'
      BY <3>1 DEF Retainers, Holds
    <3>5. IsFiniteSet((Retainers(f))')
      BY <2>2, <3>3, RetainersFinite, FS_Subset
    <3>6. Cardinality((Retainers(f))') # 0
      BY <3>4, <3>5, FS_EmptySet
    <3>7. retained'[f] > 0
      BY <2>4, <3>3, <3>6
    <3>8. QED BY <2>6, <3>3, <3>7
  <2>8. ToSet(stored') \subseteq 1..shown'
    BY <2>6 DEF StoreInv
  <2>9. QED BY <1>2, <2>4, <2>5, <2>6, <2>7, <2>8 DEF StoreInv
<1>3. QED BY <1>1, <1>2

\* A wave begins to look at frames that are all still there.
LEMMA RetainKeeps ==
  ASSUME WavesShaped, WavesShaped', StoreInv, NEW w \in Waves, NEW fs \in SUBSET Frames, RetainFrames(w, fs)
  PROVE  StoreInv'
<1>1. /\ wave[w].at = "preparing" /\ fs # {} /\ fs \subseteq ToSet(stored)
      /\ retained' = [f \in Frames |-> IF f \in fs THEN retained[f] + 1 ELSE retained[f]]
      /\ stored' = Touched(fs) /\ lifetime' = lifetime /\ shown' = shown
  BY DEF RetainFrames
<1>2. wave'[w].at = "dispatching" /\ wave'[w].frames = fs /\ \A v \in Waves \ {w} : wave'[v] = wave[v]
  BY DEF RetainFrames, WavesShaped, WaveRecords
<1>3. /\ stored' \in Seq(Frames) /\ IsInjective(stored') /\ ToSet(stored') = ToSet(stored)
      /\ Len(stored') = Len(stored)
  BY <1>1, TouchedFacts DEF StoreInv
<1>4. lifetime # "stopped"
  BY <1>1 DEF StoreInv, ToSet
<1>5. retained' \in [Frames -> Nat] /\ \A f \in Frames : retained[f] > 0 => retained'[f] > 0
  BY <1>1 DEF StoreInv
<1>6. ASSUME NEW f \in Frames PROVE retained'[f] = Cardinality((Retainers(f))')
  <2>1. IsFiniteSet(Retainers(f)) /\ retained[f] = Cardinality(Retainers(f)) /\ retained[f] \in Nat
    BY <1>4, RetainersFinite DEF StoreInv
  <2>2. w \notin Retainers(f)
    BY <1>1 DEF Retainers, Holds
  <2>3. CASE f \in fs
    <3>1. (Retainers(f))' = Retainers(f) \cup {w}
      BY <1>2, <2>3 DEF Retainers, Holds
    <3>2. Cardinality(Retainers(f) \cup {w}) = retained[f] + 1
      BY <2>1, <2>2, FS_AddElement
    <3>3. QED BY <1>1, <2>3, <3>1, <3>2
  <2>4. CASE f \notin fs
    <3>1. (Retainers(f))' = Retainers(f)
      BY <1>2, <2>2, <2>4 DEF Retainers, Holds
    <3>2. QED BY <1>1, <2>1, <2>4, <3>1
  <2>5. QED BY <2>3, <2>4
<1>7. FramesLast'
  BY <1>1, <1>2, <1>3, <1>4 DEF StoreInv, FramesLast
<1>8. Len(stored') > MaxFrames => \A f \in ToSet(stored') : retained'[f] > 0
  <2>1. ToSet(stored) \subseteq Frames
    BY DEF StoreInv, ToSet
  <2>2. QED BY <1>3, <1>5, <2>1 DEF StoreInv
<1>9. ToSet(stored') \subseteq 1..shown'
  BY <1>1, <1>3 DEF StoreInv
<1>10. QED BY <1>1, <1>3, <1>4, <1>5, <1>6, <1>7, <1>8, <1>9 DEF StoreInv

\* A new frame is stored, and the limit restored as far as it can be.
LEMMA StoreFrameKeeps ==
  ASSUME WavesShaped, WavesShaped', StoreInv, StoreFrame PROVE StoreInv'
<1>1. /\ lifetime = "running" /\ lifetime' = lifetime /\ shown' = shown + 1 /\ shown \in Nat
      /\ shown' \in Frames /\ UNCHANGED <<wave, retained>> /\ stored' = Evicted(Append(stored, shown'), retained)
  BY WaveAssumption DEF StoreFrame, WavesShaped, Frames
<1>2. PICK n, s : n = shown' /\ s = Append(stored, n)
  OBVIOUS
<1>3. stored \in Seq(Frames) /\ Distinct(stored) /\ ToSet(stored) = Elements(stored)
  BY ListsAsSets DEF StoreInv
<1>4. n \in Frames /\ n \notin Elements(stored)
  BY <1>1, <1>2, <1>3 DEF StoreInv
<1>5. s \in Seq(Frames) /\ Elements(s) = Elements(stored) \cup {n} /\ Distinct(s)
  BY <1>2, <1>3, <1>4, AppendFacts
<1>6. IsInjective(s) /\ ToSet(s) = Elements(stored) \cup {n}
  BY <1>5, ListsAsSets
<1>7. PICK c : c = retained
  OBVIOUS
<1>8. c \in [Frames -> Nat] /\ stored' = Evicted(s, c)
  BY <1>1, <1>2, <1>7 DEF StoreInv
<1>9. /\ stored' \in Seq(Frames) /\ IsInjective(stored') /\ ToSet(stored') \subseteq ToSet(s)
      /\ \A f \in ToSet(s) : c[f] > 0 => f \in ToSet(stored')
      /\ Len(stored') > MaxFrames => \A f \in ToSet(stored') : c[f] > 0
  BY <1>5, <1>6, <1>8, EvictedFacts
<1>10. ToSet(stored') \subseteq 1..shown'
  BY <1>1, <1>2, <1>3, <1>6, <1>9 DEF StoreInv
<1>11. \A f \in ToSet(stored) : retained[f] > 0 => f \in ToSet(stored')
  BY <1>3, <1>6, <1>7, <1>9
<1>12. \A v \in Waves, f \in Frames : (Holds(v, f))' <=> Holds(v, f)
  BY <1>1 DEF Holds
<1>13. QED BY <1>1, <1>7, <1>9, <1>10, <1>11, <1>12, StoreMoves

---------------------------------------------------------------------------
(* Steps of the coordinator.                                               *)

\* A step of one wave that counts nothing.
LEMMA AmbientUntouched ==
  ASSUME AmbientInv, UNCHANGED <<epoch, policy, quiet>>,
         \A w \in Waves : (Ambient(w))' =>
             /\ Ambient(w) /\ wave'[w].epoch = wave[w].epoch
             /\ wave'[w].at # "draining" => wave[w].at # "draining" /\ wave'[w].proposed = wave[w].proposed
  PROVE  AmbientInv'
BY DEF AmbientInv

\* A wave that leaves; the others do not move.
LEMMA LeavesUncounted ==
  ASSUME WavesShaped, AmbientInv, UNCHANGED <<epoch, policy, quiet>>, NEW w \in Waves,
         wave' = [wave EXCEPT ![w] = Gone]
  PROVE  AmbientInv'
<1>1. \A v \in Waves : v # w => wave'[v] = wave[v]
  BY DEF WavesShaped
<1>2. wave'[w].at = "ended"
  BY DEF WavesShaped, Gone, NoWave
<1>3. \A v \in Waves : (Ambient(v))' => v # w
  BY <1>2 DEF Ambient, Live
<1>4. \A v \in Waves : v # w => ((Ambient(v))' <=> Ambient(v))
  BY <1>1 DEF Ambient, Live
<1>5. QED BY <1>1, <1>3, <1>4, AmbientUntouched

\* The records that begin and end a wave.
LEMMA WaveShapes ==
  /\ Gone \in WaveRecords /\ Gone.at = "ended"
  /\ \A r \in WaveRecords : [NoWave EXCEPT !.at = "ended", !.epoch = r.epoch] \in WaveRecords
  /\ \A kind \in Kinds, e \in 0..MaxEpoch, a \in BOOLEAN :
        [NoWave EXCEPT !.at = "draining", !.kind = kind, !.epoch = e, !.accepted = a] \in WaveRecords
<1>1. MaxEpoch \in Nat /\ MaxAmbient \in Nat
  BY WaveAssumption
<1>2. 0 \in 0..MaxEpoch /\ 0 \in Nat /\ 0 <= MaxAmbient
  BY <1>1
<1>3. QED BY <1>2 DEF Gone, NoWave, WaveRecords, Granted

\* Frames that fall to nobody.
LEMMA HoldsOthers ==
  ASSUME NEW w \in Waves, wave[w].at # "dispatching", wave'[w].at # "dispatching" \/ wave'[w].frames = {},
         \A v \in Waves \ {w} : wave'[v] = wave[v]
  PROVE  \A v \in Waves, f \in Frames : (Holds(v, f))' <=> Holds(v, f)
BY DEF Holds

\* A reaction begins; the extractions of other epochs are cancelled.
LEMMA ReactKeeps ==
  ASSUME WaveInv, NEW w \in Waves, NEW kind \in Kinds, React(w, kind) PROVE WaveInv'
<1>1. /\ wave[w].at = "none" /\ lifetime # "stopped"
      /\ kind # "user" => \A v \in Waves : Live(v) => wave[v].kind = "user"
      /\ wave' = [wave EXCEPT ![w] = [NoWave EXCEPT !.at = "draining", !.kind = kind,
                                                    !.epoch = epoch, !.accepted = accepting]]
      /\ extraction' = [v \in Waves |-> IF v \in {u \in tracked : wave[u].epoch # epoch}
                                        THEN "cancelled" ELSE extraction[v]]
      /\ UNCHANGED <<lifetime, epoch, accepting, stored, retained, shown, policy, tracked, quiet>>
  BY DEF React, BeginDrain
<1>2. WavesShaped /\ StoreInv /\ AmbientInv
  BY DEF WaveInv
<1>3. /\ wave'[w].at = "draining" /\ wave'[w].kind = kind /\ wave'[w].epoch = epoch
      /\ \A v \in Waves \ {w} : wave'[v] = wave[v]
  BY <1>1, <1>2 DEF WavesShaped, NoWave
<1>4. WavesShaped'
  <2>1. wave' \in [Waves -> WaveRecords]
    BY <1>1, <1>2, WaveShapes DEF WavesShaped
  <2>2. extraction' \in [Waves -> {"none", "scheduled", "extracting", "cancelled"}]
    BY <1>1, <1>2 DEF WavesShaped
  <2>3. tracked' \subseteq {v \in Waves : extraction'[v] \in {"scheduled", "extracting", "cancelled"}}
    BY <1>1, <1>2 DEF WavesShaped
  <2>4. QED BY <1>1, <1>2, <2>1, <2>2, <2>3 DEF WavesShaped
<1>5. \A v \in Waves, f \in Frames : (Holds(v, f))' <=> Holds(v, f)
  BY <1>1, <1>3, HoldsOthers
<1>6. StoreInv'
  BY <1>1, <1>2, <1>4, <1>5, StoreUntouched
<1>7. AmbientInv'
  <2>1. \A v \in Waves : v # w => ((Ambient(v))' <=> Ambient(v)) /\ wave'[v] = wave[v]
    BY <1>3 DEF Ambient, Live
  <2>2. (Ambient(w))' => kind = "ambient" /\ \A v \in Waves : ~Ambient(v)
    BY <1>1, <1>3 DEF Ambient, Live
  <2>3. \A v \in Waves : ~Ambient(v) \/ v # w
    BY <1>1 DEF Ambient, Live
  <2>4. epoch' = epoch /\ policy' = policy /\ quiet' = quiet
    BY <1>1
  <2>5. QED BY <1>2, <1>3, <2>1, <2>2, <2>3, <2>4 DEF AmbientInv
<1>8. QED BY <1>4, <1>6, <1>7 DEF WaveInv

\* A wave is admitted on a copy of the policy, which proposes one more than was counted, or ends.
LEMMA BuildWaveKeeps ==
  ASSUME WaveInv, NEW w \in Waves, NEW fs \in SUBSET Frames, BuildWave(w, fs) PROVE WaveInv'
<1>1. /\ wave[w].at = "draining" /\ stored' = Touched(fs)
      /\ UNCHANGED <<lifetime, epoch, accepting, retained, shown, policy, extraction, tracked, quiet>>
  BY DEF BuildWave
<1>2. WavesShaped /\ StoreInv /\ AmbientInv
  BY DEF WaveInv
<1>3. /\ Resolvable(fs) \subseteq Frames /\ MaxAmbient \in Nat
      /\ wave \in [Waves -> WaveRecords] /\ wave[w] \in WaveRecords
  BY <1>2, WaveAssumption DEF Resolvable, WavesShaped
<1>4. Counted(w) \in Nat
  BY <1>2, <1>3 DEF Counted, WavesShaped, Policies
<1>5. \/ /\ Admits(w)
         /\ wave' = [wave EXCEPT ![w].at = "preparing", ![w].frames = Resolvable(fs),
                        ![w].proposed = IF wave[w].kind = "ambient" THEN Counted(w) + 1 ELSE 0]
      \/ wave' = [wave EXCEPT ![w] = Gone]
  BY DEF BuildWave
<1>6. Admits(w) /\ wave[w].kind = "ambient" => Granted(wave[w].epoch, Counted(w) + 1)
  BY <1>3, <1>4 DEF Admits, AmbientAllowed, Granted
<1>7. \A v \in Waves \ {w} : wave'[v] = wave[v]
  BY <1>3, <1>5
<1>8. wave' \in [Waves -> WaveRecords] /\ wave'[w].at # "dispatching"
  <2>1. CASE Admits(w) /\ wave' = [wave EXCEPT ![w].at = "preparing", ![w].frames = Resolvable(fs),
                        ![w].proposed = IF wave[w].kind = "ambient" THEN Counted(w) + 1 ELSE 0]
    <3>1. PICK r, p : r = Resolvable(fs) /\ p = IF wave[w].kind = "ambient" THEN Counted(w) + 1 ELSE 0
      OBVIOUS
    <3>2. r \in SUBSET Frames /\ p \in Nat /\ Granted(wave[w].epoch, p)
      BY <1>3, <1>4, <1>6, <2>1, <3>1 DEF Granted
    <3>3. wave' = [wave EXCEPT ![w].at = "preparing", ![w].frames = r, ![w].proposed = p]
      BY <2>1, <3>1
    <3>4. QED BY <1>3, <3>2, <3>3 DEF WaveRecords
  <2>2. CASE wave' = [wave EXCEPT ![w] = Gone]
    BY <1>3, <2>2, WaveShapes
  <2>3. QED BY <1>5, <2>1, <2>2
<1>9. WavesShaped'
  BY <1>1, <1>2, <1>8 DEF WavesShaped
<1>10. \A v \in Waves, f \in Frames : (Holds(v, f))' <=> Holds(v, f)
  BY <1>1, <1>7, <1>8, HoldsOthers
<1>11. StoreInv'
  <2>1. /\ stored' \in Seq(Frames) /\ IsInjective(stored') /\ ToSet(stored') = ToSet(stored)
        /\ Len(stored') = Len(stored)
    <3>1. stored \in Seq(Frames) /\ IsInjective(stored)
      BY <1>2 DEF StoreInv
    <3>2. /\ Touched(fs) \in Seq(Frames) /\ IsInjective(Touched(fs))
          /\ ToSet(Touched(fs)) = ToSet(stored) /\ Len(Touched(fs)) = Len(stored)
      BY <3>1, TouchedFacts
    <3>3. QED BY <1>1, <3>2
  <2>2. lifetime = "stopped" => stored' = <<>>
    <3>1. lifetime = "stopped" => Len(stored) = 0
      BY <1>2 DEF StoreInv
    <3>2. QED BY <2>1, <3>1, EmptySeq
  <2>3. /\ ToSet(stored') \subseteq 1..shown' /\ \A f \in ToSet(stored) : retained[f] > 0 => f \in ToSet(stored')
        /\ Len(stored') > MaxFrames => \A f \in ToSet(stored') : retained[f] > 0
        /\ retained' = retained /\ (lifetime' = "stopped" <=> lifetime = "stopped")
    BY <1>1, <1>2, <2>1 DEF StoreInv
  <2>4. QED BY <1>2, <1>9, <1>10, <2>1, <2>2, <2>3, StoreMoves
<1>12. AmbientInv'
  <2>1. CASE wave' = [wave EXCEPT ![w] = Gone]
    BY <1>1, <1>2, <2>1, LeavesUncounted
  <2>2. CASE Admits(w) /\ wave' = [wave EXCEPT ![w].at = "preparing", ![w].frames = Resolvable(fs),
                        ![w].proposed = IF wave[w].kind = "ambient" THEN Counted(w) + 1 ELSE 0]
    <3>1. /\ wave'[w].at = "preparing" /\ wave'[w].kind = wave[w].kind /\ wave'[w].epoch = wave[w].epoch
          /\ wave[w].kind = "ambient" => wave'[w].proposed = Counted(w) + 1
      BY <1>3, <2>2 DEF WaveRecords
    <3>2. \A v \in Waves : ((Ambient(v))' <=> Ambient(v)) /\ wave'[v].epoch = wave[v].epoch
      BY <1>1, <1>7, <3>1 DEF Ambient, Live
    <3>3. epoch' = epoch /\ policy' = policy /\ quiet' = quiet /\ quiet \in Nat
      BY <1>1, <1>2, <1>3 DEF WavesShaped
    <3>4. wave[w].epoch = epoch => quiet <= Counted(w)
      BY <1>2, <1>4, <3>3 DEF AmbientInv, Counted
    <3>5. Ambient(w) => wave'[w].proposed > 0 /\ (wave[w].epoch = epoch => quiet < wave'[w].proposed)
      BY <1>4, <3>1, <3>3, <3>4 DEF Ambient
    <3>6. QED BY <1>2, <1>7, <3>2, <3>3, <3>5 DEF AmbientInv
  <2>3. QED BY <1>5, <2>1, <2>2
<1>13. QED BY <1>9, <1>11, <1>12 DEF WaveInv

\* A preparation fails, or a wave goes out without frames.
LEMMA GoOnKeeps ==
  ASSUME WaveInv, NEW w \in Waves, PreparationFails(w) \/ GoTextOnly(w) PROVE WaveInv'
<1>1. /\ wave[w].at = "preparing"
      /\ UNCHANGED <<lifetime, epoch, accepting, stored, retained, shown, policy, extraction, tracked, drain, quiet>>
  BY DEF PreparationFails, GoTextOnly
<1>2. WavesShaped /\ StoreInv /\ AmbientInv /\ wave \in [Waves -> WaveRecords] /\ wave[w] \in WaveRecords
  BY DEF WaveInv, WavesShaped
<1>3. \/ wave' = [wave EXCEPT ![w] = Gone]
      \/ wave' = [wave EXCEPT ![w].at = "dispatching", ![w].frames = {}]
  BY DEF PreparationFails, GoTextOnly
<1>4. \A v \in Waves \ {w} : wave'[v] = wave[v]
  BY <1>2, <1>3
<1>5. wave' \in [Waves -> WaveRecords] /\ (wave'[w].at # "dispatching" \/ wave'[w].frames = {})
  <2>1. CASE wave' = [wave EXCEPT ![w] = Gone]
    BY <1>2, <2>1, WaveShapes
  <2>2. CASE wave' = [wave EXCEPT ![w].at = "dispatching", ![w].frames = {}]
    BY <1>2, <2>2 DEF WaveRecords
  <2>3. QED BY <1>3, <2>1, <2>2
<1>6. WavesShaped'
  BY <1>1, <1>2, <1>5 DEF WavesShaped
<1>7. \A v \in Waves, f \in Frames : (Holds(v, f))' <=> Holds(v, f)
  BY <1>1, <1>4, <1>5, HoldsOthers
<1>8. StoreInv'
  BY <1>1, <1>2, <1>6, <1>7, StoreUntouched
<1>9. AmbientInv'
  <2>1. CASE wave' = [wave EXCEPT ![w] = Gone]
    BY <1>1, <1>2, <2>1, LeavesUncounted
  <2>2. CASE wave' = [wave EXCEPT ![w].at = "dispatching", ![w].frames = {}]
    <3>1. /\ wave'[w].at = "dispatching" /\ wave'[w].kind = wave[w].kind /\ wave'[w].epoch = wave[w].epoch
          /\ wave'[w].proposed = wave[w].proposed
      BY <1>2, <2>2 DEF WaveRecords
    <3>2. \A v \in Waves : (Ambient(v))' =>
             /\ Ambient(v) /\ wave'[v].epoch = wave[v].epoch
             /\ wave'[v].at # "draining" => wave[v].at # "draining" /\ wave'[v].proposed = wave[v].proposed
      BY <1>1, <1>4, <3>1 DEF Ambient, Live
    <3>3. UNCHANGED <<epoch, policy, quiet>>
      BY <1>1
    <3>4. QED BY <1>2, <3>2, <3>3, AmbientUntouched
  <2>3. QED BY <1>3, <2>1, <2>2
<1>10. QED BY <1>6, <1>8, <1>9 DEF WaveInv

\* A wave goes out with frames.
LEMMA RetainFramesKeeps ==
  ASSUME WaveInv, NEW w \in Waves, NEW fs \in SUBSET Frames, RetainFrames(w, fs) PROVE WaveInv'
<1>1. /\ wave[w].at = "preparing" /\ wave' = [wave EXCEPT ![w].at = "dispatching", ![w].frames = fs]
      /\ UNCHANGED <<lifetime, epoch, accepting, shown, policy, extraction, tracked, drain, quiet>>
  BY DEF RetainFrames
<1>2. WavesShaped /\ StoreInv /\ AmbientInv /\ wave \in [Waves -> WaveRecords] /\ wave[w] \in WaveRecords
  BY DEF WaveInv, WavesShaped
<1>3. wave' \in [Waves -> WaveRecords] /\ \A v \in Waves \ {w} : wave'[v] = wave[v]
  BY <1>1, <1>2 DEF WaveRecords
<1>4. WavesShaped'
  BY <1>1, <1>2, <1>3 DEF WavesShaped
<1>5. StoreInv'
  BY <1>2, <1>4, RetainKeeps
<1>6. AmbientInv'
  <2>1. /\ wave'[w].at = "dispatching" /\ wave'[w].kind = wave[w].kind /\ wave'[w].epoch = wave[w].epoch
        /\ wave'[w].proposed = wave[w].proposed
    BY <1>1, <1>2 DEF WaveRecords
  <2>2. \A v \in Waves : (Ambient(v))' =>
           /\ Ambient(v) /\ wave'[v].epoch = wave[v].epoch
           /\ wave'[v].at # "draining" => wave[v].at # "draining" /\ wave'[v].proposed = wave[v].proposed
    BY <1>1, <1>3, <2>1 DEF Ambient, Live
  <2>3. UNCHANGED <<epoch, policy, quiet>>
    BY <1>1
  <2>4. QED BY <1>2, <2>2, <2>3, AmbientUntouched
<1>7. QED BY <1>4, <1>5, <1>6 DEF WaveInv

\* What the end of a wave does to the frames.
LEMMA EndKeepsStore ==
  ASSUME WaveInv, WavesShaped', NEW w \in Waves, UNCHANGED <<lifetime, shown>>,
         wave'[w].at = "ended", \A v \in Waves \ {w} : wave'[v] = wave[v],
         IF wave[w].at = "dispatching" THEN ReleaseFrames(wave[w].frames) ELSE UNCHANGED <<stored, retained>>
  PROVE  StoreInv'
<1>1. StoreInv /\ wave[w].frames \subseteq Frames
  BY DEF WaveInv, WavesShaped, WaveRecords
<1>2. CASE wave[w].at = "dispatching"
  BY <1>1, <1>2, ReleaseKeeps
<1>3. CASE wave[w].at # "dispatching"
  <2>1. \A v \in Waves, f \in Frames : (Holds(v, f))' <=> Holds(v, f)
    BY <1>3, HoldsOthers
  <2>2. UNCHANGED <<stored, retained, shown>>
    BY <1>3
  <2>3. lifetime' = "stopped" <=> lifetime = "stopped"
    OBVIOUS
  <2>4. QED BY <1>1, <2>1, <2>2, <2>3, StoreUntouched
<1>4. QED BY <1>2, <1>3

\* A wave is cancelled wherever it is.
LEMMA AbortWaveKeeps ==
  ASSUME WaveInv, NEW w \in Waves, AbortWave(w) PROVE WaveInv'
<1>1. /\ wave' = [wave EXCEPT ![w] = Gone]
      /\ IF wave[w].at = "dispatching" THEN ReleaseFrames(wave[w].frames) ELSE UNCHANGED <<stored, retained>>
      /\ UNCHANGED <<lifetime, epoch, accepting, shown, policy, extraction, tracked, quiet>>
  BY DEF AbortWave
<1>2. WavesShaped /\ StoreInv /\ AmbientInv /\ wave \in [Waves -> WaveRecords] /\ wave[w] \in WaveRecords
  BY DEF WaveInv, WavesShaped
<1>3. /\ wave' \in [Waves -> WaveRecords] /\ wave'[w].at = "ended"
      /\ \A v \in Waves \ {w} : wave'[v] = wave[v]
  BY <1>1, <1>2, WaveShapes
<1>4. WavesShaped'
  BY <1>1, <1>2, <1>3 DEF WavesShaped
<1>5. StoreInv'
  BY <1>1, <1>3, <1>4, EndKeepsStore
<1>6. AmbientInv'
  BY <1>1, <1>2, LeavesUncounted
<1>7. QED BY <1>4, <1>5, <1>6 DEF WaveInv

\* A wave is counted: real input ends the silence; an ambient wave adds one to it, and had proposed at
\* least as many.
LEMMA CountedKeeps ==
  ASSUME WavesShaped, AmbientInv, NEW w \in Waves, wave[w].at = "dispatching",
         wave'[w].at = "ended", \A v \in Waves \ {w} : wave'[v] = wave[v], epoch' = epoch, CommitPolicy(w)
  PROVE  /\ AmbientInv' /\ policy' \in Policies
         /\ quiet' \in Nat
<1>1. /\ wave[w] \in WaveRecords /\ wave[w].epoch \in 0..MaxEpoch /\ wave[w].proposed \in Nat
      /\ wave[w].kind \in {"user", "ambient", "none"} /\ Granted(wave[w].epoch, wave[w].proposed) /\ quiet \in Nat /\ MaxAmbient \in Nat
      /\ MaxEpoch \in Nat
  BY WaveAssumption DEF WavesShaped, WaveRecords, Kinds
<1>2. /\ policy' = [epoch |-> wave[w].epoch, ambient |-> wave[w].proposed]
      /\ policy' \in Policies
      /\ policy' \in [epoch : Nat, ambient : Nat]
  BY <1>1 DEF CommitPolicy, Policies
<1>3. policy' # NoPolicy /\ policy'.epoch = wave[w].epoch /\ policy'.ambient = wave[w].proposed
  BY <1>2, NoPolicyIsNoPolicy
<1>4. /\ quiet' = IF wave[w].kind = "ambient"
                  THEN IF wave[w].epoch = epoch THEN quiet + 1 ELSE quiet
                  ELSE 0
  BY DEF CommitPolicy
<1>5. \A v \in Waves : (Ambient(v))' => v # w /\ Ambient(v) /\ wave'[v] = wave[v]
  BY DEF Ambient, Live
<1>6. \A u, v \in Waves : (Ambient(u))' /\ (Ambient(v))' => u = v
  BY <1>5 DEF AmbientInv
<1>7. CASE wave[w].kind # "ambient"
  <2>1. quiet' = 0
    BY <1>4, <1>7
  <2>2. \A v \in Waves : (Ambient(v))' =>
          /\ wave'[v].epoch # epoch' => quiet' = 0
          /\ wave'[v].at # "draining" =>
                wave'[v].proposed > 0 /\ (wave'[v].epoch = epoch' => quiet' < wave'[v].proposed)
    BY <1>5, <2>1 DEF AmbientInv
  <2>3. QED BY <1>1, <1>2, <1>6, <2>1, <2>2 DEF AmbientInv
<1>8. CASE wave[w].kind = "ambient"
  <2>1. Ambient(w)
    BY <1>8 DEF Ambient, Live
  <2>2. /\ wave[w].epoch # epoch => quiet = 0
        /\ wave[w].proposed > 0 /\ (wave[w].epoch = epoch => quiet < wave[w].proposed)
    BY <2>1 DEF AmbientInv
  <2>3. \A v \in Waves : ~(Ambient(v))'
    BY <1>5, <2>1 DEF AmbientInv
  <2>4. quiet' > 0 => wave[w].epoch = epoch /\ quiet' = quiet + 1
    BY <1>1, <1>4, <1>8, <2>2
  <2>5. quiet' \in Nat /\ (quiet' > 0 => quiet' <= wave[w].proposed)
    BY <1>1, <1>4, <1>8, <2>2
  <2>6. QED BY <1>2, <1>3, <2>3, <2>4, <2>5 DEF AmbientInv
<1>9. QED BY <1>7, <1>8

\* A wave ends, whatever became of it.
LEMMA EndDispatchKeeps ==
  ASSUME WaveInv, NEW w \in Waves, NEW outcome \in Outcomes, EndDispatch(w, outcome) PROVE WaveInv'
<1>1. /\ wave[w].at = "dispatching" /\ ReleaseFrames(wave[w].frames)
      /\ wave' = [wave EXCEPT ![w] = IF outcome = "heard" THEN Ended(w) ELSE Gone]
      /\ IF outcome = "lost" THEN UNCHANGED <<policy, quiet>> ELSE CommitPolicy(w)
      /\ IF outcome = "heard"
         THEN extraction' = [extraction EXCEPT ![w] = "scheduled"] /\ tracked' = tracked \cup {w}
         ELSE UNCHANGED <<extraction, tracked>>
      /\ UNCHANGED <<lifetime, epoch, accepting, shown, drain>>
  BY DEF EndDispatch
<1>2. WavesShaped /\ StoreInv /\ AmbientInv /\ wave \in [Waves -> WaveRecords] /\ wave[w] \in WaveRecords
  BY DEF WaveInv, WavesShaped
<1>3. Ended(w) \in WaveRecords /\ Ended(w).at = "ended"
  BY <1>2, WaveShapes DEF Ended, NoWave
<1>4. /\ wave' \in [Waves -> WaveRecords] /\ wave'[w].at = "ended"
      /\ \A v \in Waves \ {w} : wave'[v] = wave[v]
  BY <1>1, <1>2, <1>3, WaveShapes
<1>5. /\ extraction' \in [Waves -> {"none", "scheduled", "extracting", "cancelled"}]
      /\ tracked' \subseteq {v \in Waves : extraction'[v] \in {"scheduled", "extracting", "cancelled"}}
  <2>1. CASE outcome = "heard"
    BY <1>1, <1>2, <2>1 DEF WavesShaped
  <2>2. CASE outcome # "heard"
    BY <1>1, <1>2, <2>2 DEF WavesShaped
  <2>3. QED BY <2>1, <2>2
<1>6. /\ AmbientInv' /\ policy' \in {NoPolicy} \cup Policies
      /\ quiet' \in Nat
  <2>1. CASE outcome = "lost"
    <3>1. UNCHANGED <<epoch, policy, quiet>> /\ wave' = [wave EXCEPT ![w] = Gone]
      BY <1>1, <2>1
    <3>2. AmbientInv'
      BY <1>2, <3>1, LeavesUncounted
    <3>3. QED BY <1>2, <3>1, <3>2 DEF WavesShaped
  <2>2. CASE outcome # "lost"
    <3>1. CommitPolicy(w) /\ epoch' = epoch
      BY <1>1, <2>2
    <3>2. QED BY <1>1, <1>2, <1>4, <3>1, CountedKeeps
  <2>3. QED BY <2>1, <2>2
<1>7. WavesShaped'
  BY <1>1, <1>2, <1>4, <1>5, <1>6 DEF WavesShaped
<1>8. StoreInv'
  BY <1>1, <1>4, <1>7, EndKeepsStore
<1>9. QED BY <1>6, <1>7, <1>8 DEF WaveInv

\* A frame is stored.
LEMMA StoreKeeps ==
  ASSUME WaveInv, StoreFrame PROVE WaveInv'
<1>1. /\ shown < MaxStored /\ shown' = shown + 1
      /\ UNCHANGED <<lifetime, epoch, accepting, retained, wave, policy, extraction, tracked, drain, quiet>>
  BY DEF StoreFrame
<1>2. WavesShaped /\ StoreInv /\ AmbientInv
  BY DEF WaveInv
<1>3. WavesShaped'
  BY <1>1, <1>2, WaveAssumption DEF WavesShaped
<1>4. StoreInv'
  BY <1>2, <1>3, StoreFrameKeeps
<1>5. AmbientInv'
  BY <1>1, <1>2 DEF AmbientInv, Ambient, Live
<1>6. QED BY <1>3, <1>4, <1>5 DEF WaveInv

\* The extractions and their drains hold no frame and count no wave.
LEMMA ExtractionsKeep ==
  ASSUME WaveInv,
         \/ \E w \in Waves : StartExtraction(w) \/ EndExtraction(w)
         \/ \E p \in Waves \cup {Stopper} : DrainTimeout(p)
  PROVE  WaveInv'
<1>1. UNCHANGED <<lifetime, epoch, accepting, stored, retained, shown, wave, policy, quiet>>
  BY DEF StartExtraction, EndExtraction, DrainTimeout
<1>2. WavesShaped /\ StoreInv /\ AmbientInv
  BY DEF WaveInv
<1>3. /\ extraction' \in [Waves -> {"none", "scheduled", "extracting", "cancelled"}]
      /\ tracked' \subseteq {v \in Waves : extraction'[v] \in {"scheduled", "extracting", "cancelled"}}
  <2>1. CASE \E w \in Waves : StartExtraction(w)
    <3>1. PICK w \in Waves : StartExtraction(w)
      BY <2>1
    <3>2. PICK goes \in BOOLEAN :
            /\ extraction' = [extraction EXCEPT ![w] = IF goes THEN "extracting" ELSE "none"]
            /\ tracked' = IF goes THEN tracked ELSE tracked \ {w}
      <4>1. (accepting /\ epoch = wave[w].epoch) \in BOOLEAN
        OBVIOUS
      <4>2. QED BY <3>1, <4>1 DEF StartExtraction
    <3>3. QED BY <1>2, <3>2 DEF WavesShaped
  <2>2. CASE \E w \in Waves : EndExtraction(w)
    BY <1>2, <2>2 DEF EndExtraction, WavesShaped
  <2>3. CASE \E p \in Waves \cup {Stopper} : DrainTimeout(p)
    <3>1. extraction' = extraction /\ tracked' \subseteq tracked
      BY <2>3 DEF DrainTimeout
    <3>2. QED BY <1>2, <3>1 DEF WavesShaped
  <2>4. QED BY <2>1, <2>2, <2>3
<1>4. WavesShaped'
  BY <1>1, <1>2, <1>3 DEF WavesShaped
<1>5. StoreInv'
  <2>1. \A v \in Waves, f \in Frames : (Holds(v, f))' <=> Holds(v, f)
    BY <1>1 DEF Holds
  <2>2. QED BY <1>1, <1>2, <1>4, <2>1, StoreUntouched
<1>6. AmbientInv'
  BY <1>1, <1>2 DEF AmbientInv, Ambient, Live
<1>7. QED BY <1>4, <1>5, <1>6 DEF WaveInv

\* Hot updates, the fence, the beginning of the stop, and steps of nobody.
LEMMA SessionStepsKeep ==
  ASSUME WaveInv, AdvanceEpoch \/ CloseFence \/ StopSession \/ UNCHANGED coordinatorVars
  PROVE  WaveInv'
<1>1. /\ UNCHANGED <<stored, retained, shown, wave, policy, tracked>>
      /\ lifetime' = "stopped" <=> lifetime = "stopped"
  BY DEF AdvanceEpoch, CloseFence, StopSession, coordinatorVars
<1>2. WavesShaped /\ StoreInv /\ AmbientInv
  BY DEF WaveInv
<1>3. /\ lifetime' \in {"running", "stopping", "stopped"} /\ epoch' \in 0..MaxEpoch /\ accepting' \in BOOLEAN
      /\ quiet' \in Nat
  <2>1. CASE AdvanceEpoch
    BY <1>2, <2>1, WaveAssumption DEF AdvanceEpoch, WavesShaped
  <2>2. CASE ~AdvanceEpoch
    BY <1>2, <2>2 DEF CloseFence, StopSession, coordinatorVars, WavesShaped
  <2>3. QED BY <2>1, <2>2
<1>4. extraction' \in [Waves -> {"none", "scheduled", "extracting", "cancelled"}]
      /\ tracked' \subseteq {v \in Waves : extraction'[v] \in {"scheduled", "extracting", "cancelled"}}
  <2>1. CASE extraction' = extraction
    BY <1>1, <1>2, <2>1 DEF WavesShaped
  <2>2. CASE StopSession
    <3>1. extraction' = [w \in Waves |-> IF w \in tracked THEN "cancelled" ELSE extraction[w]]
      BY <2>2 DEF StopSession, BeginDrain
    <3>2. QED BY <1>1, <1>2, <3>1 DEF WavesShaped
  <2>3. QED BY <2>1, <2>2 DEF AdvanceEpoch, CloseFence, coordinatorVars
<1>5. WavesShaped'
  BY <1>1, <1>2, <1>3, <1>4 DEF WavesShaped
<1>6. StoreInv'
  <2>1. \A v \in Waves, f \in Frames : (Holds(v, f))' <=> Holds(v, f)
    BY <1>1 DEF Holds
  <2>2. QED BY <1>1, <1>2, <1>5, <2>1, StoreUntouched
<1>7. AmbientInv'
  <2>1. \A v \in Waves : ((Ambient(v))' <=> Ambient(v)) /\ wave'[v] = wave[v]
    BY <1>1 DEF Ambient, Live
  <2>2. CASE AdvanceEpoch
    <3>1. quiet' = 0 /\ policy' = policy
      BY <2>2 DEF AdvanceEpoch
    <3>2. QED BY <1>2, <2>1, <3>1 DEF AmbientInv
  <2>3. CASE ~AdvanceEpoch
    <3>1. quiet' = quiet /\ policy' = policy /\ epoch' = epoch
      BY <2>3 DEF CloseFence, StopSession, coordinatorVars
    <3>2. QED BY <1>2, <2>1, <3>1 DEF AmbientInv
  <2>4. QED BY <2>2, <2>3
<1>8. QED BY <1>5, <1>6, <1>7 DEF WaveInv

\* The store is cleared and the policy dropped.
LEMMA FinishStopKeeps ==
  ASSUME WaveInv, FinishStop PROVE WaveInv'
<1>1. /\ lifetime' = "stopped" /\ policy' = NoPolicy /\ quiet' = 0
      /\ stored' = <<>> /\ retained' = [f \in Frames |-> 0]
      /\ UNCHANGED <<epoch, accepting, shown, wave, extraction, tracked>>
  BY DEF FinishStop
<1>2. WavesShaped /\ StoreInv /\ AmbientInv /\ MaxAmbient \in Nat /\ MaxFrames \in Nat
  BY WaveAssumption DEF WaveInv
<1>3. WavesShaped'
  BY <1>1, <1>2 DEF WavesShaped
<1>4. StoreInv'
  BY <1>1, <1>2 DEF StoreInv, FramesLast, ToSet, IsInjective
<1>5. AmbientInv'
  <2>1. \A v \in Waves : ((Ambient(v))' <=> Ambient(v)) /\ wave'[v] = wave[v]
    BY <1>1 DEF Ambient, Live
  <2>2. QED BY <1>1, <1>2, <2>1 DEF AmbientInv
<1>6. QED BY <1>3, <1>4, <1>5 DEF WaveInv

\* The invariant holds at first.
LEMMA WaveInitEstablishes == WaveInit => WaveInv
<1>1. SUFFICES ASSUME WaveInit PROVE WaveInv
  OBVIOUS
<1>2. {MaxFrames, MaxAmbient, MaxStored, MaxEpoch} \subseteq Nat
  BY WaveAssumption
<1>3. NoWave \in WaveRecords /\ NoWave.at = "none" /\ wave = [w \in Waves |-> NoWave]
  <2>1. Granted(0, 0) /\ 0 \in 0..MaxEpoch
    BY <1>2 DEF Granted
  <2>2. NoWave \in WaveRecords /\ NoWave.at = "none"
    BY <2>1 DEF NoWave, WaveRecords
  <2>3. QED BY <1>1, <2>2 DEF WaveInit
<1>4. WavesShaped
  BY <1>1, <1>2, <1>3 DEF WaveInit, WavesShaped
<1>5. \A w \in Waves : wave[w].at = "none"
  BY <1>3
<1>6. StoreInv
  <2>1. \A f \in Frames : Retainers(f) = {} /\ Cardinality(Retainers(f)) = 0
    BY <1>5, FS_EmptySet DEF Retainers, Holds
  <2>2. QED BY <1>1, <1>2, <1>5, <2>1 DEF WaveInit, StoreInv, FramesLast, ToSet, IsInjective
<1>7. AmbientInv
  BY <1>1, <1>5 DEF WaveInit, AmbientInv, Ambient, Live
<1>8. QED BY <1>4, <1>6, <1>7 DEF WaveInv

\* And every step keeps it.
LEMMA WaveNextKeeps == WaveInv /\ [WaveNext]_coordinatorVars => WaveInv'
<1>1. SUFFICES ASSUME WaveInv, [WaveNext]_coordinatorVars PROVE WaveInv'
  OBVIOUS
<1>2. CASE StoreFrame
  BY <1>1, <1>2, StoreKeeps
<1>3. ASSUME NEW w \in Waves, NEW kind \in Kinds, React(w, kind) PROVE WaveInv'
  BY <1>1, <1>3, ReactKeeps
<1>4. ASSUME NEW w \in Waves, NEW fs \in SUBSET (1..shown), BuildWave(w, fs) \/ RetainFrames(w, fs)
      PROVE  WaveInv'
  <2>1. fs \in SUBSET Frames
    BY <1>1, WaveAssumption DEF WaveInv, WavesShaped, Frames
  <2>2. QED BY <1>1, <1>4, <2>1, BuildWaveKeeps, RetainFramesKeeps
<1>5. ASSUME NEW w \in Waves, PreparationFails(w) \/ GoTextOnly(w) \/ AbortWave(w) PROVE WaveInv'
  BY <1>1, <1>5, GoOnKeeps, AbortWaveKeeps
<1>6. ASSUME NEW w \in Waves, NEW outcome \in Outcomes, EndDispatch(w, outcome) PROVE WaveInv'
  BY <1>1, <1>6, EndDispatchKeeps
<1>7. CASE \/ \E w \in Waves : StartExtraction(w) \/ EndExtraction(w)
           \/ \E p \in Waves \cup {Stopper} : DrainTimeout(p)
  BY <1>1, <1>7, ExtractionsKeep
<1>8. CASE AdvanceEpoch \/ CloseFence \/ StopSession \/ UNCHANGED coordinatorVars
  BY <1>1, <1>8, SessionStepsKeep
<1>9. CASE FinishStop
  BY <1>1, <1>9, FinishStopKeeps
<1>10. QED BY <1>1, <1>2, <1>3, <1>4, <1>5, <1>6, <1>7, <1>8, <1>9 DEF WaveNext

\* InMemoryFrameStore and ViewerRuntimeCoordinator.react: every frame is retained exactly as often as running
\* waves look at it and stays as long as one does, the store exceeds its limit only by such frames, and
\* outside of window batches never more than max_consecutive_ambient_waves ambient waves are counted since
\* real input was.
THEOREM WavesAreKept == WaveSpec => []WavesKept
<1>1. WaveInv => WavesKept
  <2>1. SUFFICES ASSUME WaveInv PROVE WavesKept
    OBVIOUS
  <2>2. WavesShaped /\ StoreInv
    BY <2>1 DEF WaveInv
  <2>3. ToSet(stored) \subseteq Frames
    BY <2>2 DEF StoreInv, ToSet
  <2>4. \A w \in Waves : wave[w].at \in {"none", "draining", "preparing", "dispatching", "ended"}
    BY <2>2 DEF WavesShaped, WaveRecords
  <2>5. lifetime # "stopped" =>
          \A f \in ToSet(stored) : retained[f] = Cardinality({w \in Waves : Holds(w, f)})
    BY <2>2, <2>3 DEF StoreInv, Retainers
  <2>6. StoreTyped
    BY <2>2, <2>4, <2>5 DEF StoreTyped, StoreInv, WavesShaped
  <2>7. AmbientBounded
    <3>1. /\ quiet > 0 => policy # NoPolicy /\ policy.epoch = epoch /\ quiet <= policy.ambient
          /\ policy # NoPolicy => policy.ambient \in Nat /\ Granted(policy.epoch, policy.ambient)
          /\ quiet \in Nat /\ MaxAmbient \in Nat
      BY <2>1, <2>2, WaveAssumption DEF WaveInv, AmbientInv, WavesShaped, Policies
    <3>2. QED BY <3>1 DEF AmbientBounded, Granted
  <2>8. QED BY <2>2, <2>6, <2>7 DEF WavesKept, StoreInv
<1>2. QED BY <1>1, WaveInitEstablishes, WaveNextKeeps, PTL DEF WaveSpec

---------------------------------------------------------------------------
(* Orders: the first elements of a finite set.                           *)

\* A strict total order on the elements of S, as a set of pairs.
Orders(R, S) ==
  /\ \A a \in S : <<a, a>> \notin R
  /\ \A a, b \in S : a = b \/ <<a, b>> \in R \/ <<b, a>> \in R
  /\ \A a, b, c \in S : <<a, b>> \in R /\ <<b, c>> \in R => <<a, c>> \in R

\* The first n elements of S in this order, as WaveInputs takes them: those with fewer than n before them.
Preceding(R, S, e) == {d \in S : <<d, e>> \in R}
Ahead(R, S, n) == {e \in S : Cardinality(Preceding(R, S, e)) < n}

\* Every set of numbers that is not empty has a least one.
LEMMA LeastNumber ==
  ASSUME NEW T \in SUBSET Nat, T # {} PROVE \E m \in T : \A n \in T : m <= n
<1>1. PICK m \in T : \A n \in T : ~(<<n, m>> \in Less)
  BY LessWF, WFMin
<1>2. ASSUME NEW n \in T PROVE m <= n
  <2>1. m \in Nat /\ n \in Nat
    OBVIOUS
  <2>2. n < m => <<n, m>> \in Less
    BY <2>1 DEF Less
  <2>3. QED BY <1>1, <2>1, <2>2
<1>3. QED BY <1>2

\* A finite set that is not empty has a first element: one with fewest before it.
LEMMA HasFirst ==
  ASSUME NEW R, NEW S, IsFiniteSet(S), S # {}, Orders(R, S)
  PROVE  \E m \in S : \A d \in S : d = m \/ <<m, d>> \in R
<1>1. \A e \in S : IsFiniteSet(Preceding(R, S, e)) /\ Cardinality(Preceding(R, S, e)) \in Nat
  BY FS_Subset, FS_CardinalityType DEF Preceding
<1> DEFINE T == {Cardinality(Preceding(R, S, e)) : e \in S}
<1>2. T \in SUBSET Nat /\ T # {}
  BY <1>1
<1>3. PICK k \in T : \A n \in T : k <= n
  <2> HIDE DEF T
  <2>1. QED BY <1>2, LeastNumber
<1>4. PICK m \in S : k = Cardinality(Preceding(R, S, m))
  OBVIOUS
<1>5. SUFFICES ASSUME NEW d \in S, d # m, <<m, d>> \notin R PROVE FALSE
  BY <1>4
<1>6. <<d, m>> \in R
  BY <1>4, <1>5 DEF Orders
<1>7. Preceding(R, S, d) \subseteq Preceding(R, S, m) \ {d}
  BY <1>4, <1>5, <1>6 DEF Orders, Preceding
<1>8. d \in Preceding(R, S, m)
  BY <1>6 DEF Preceding
<1>9. /\ Cardinality(Preceding(R, S, m) \ {d}) = Cardinality(Preceding(R, S, m)) - 1
      /\ IsFiniteSet(Preceding(R, S, m) \ {d})
  BY <1>1, <1>4, <1>8, FS_RemoveElement
<1>10. Cardinality(Preceding(R, S, d)) <= Cardinality(Preceding(R, S, m)) - 1
  BY <1>7, <1>9, FS_Subset
<1>11. Cardinality(Preceding(R, S, d)) \in Nat /\ k \in Nat /\ k <= Cardinality(Preceding(R, S, d))
  BY <1>1, <1>2, <1>3, <1>5
<1>12. QED BY <1>4, <1>10, <1>11

\* What is ahead is before what is not.
LEMMA AheadIsBefore ==
  ASSUME NEW R, NEW S, IsFiniteSet(S), Orders(R, S), NEW n \in Nat,
         NEW e \in Ahead(R, S, n), NEW d \in S \ Ahead(R, S, n)
  PROVE  <<e, d>> \in R
<1>1. \A x \in S : IsFiniteSet(Preceding(R, S, x)) /\ Cardinality(Preceding(R, S, x)) \in Nat
  BY FS_Subset, FS_CardinalityType DEF Preceding
<1>2. SUFFICES ASSUME <<e, d>> \notin R PROVE FALSE
  OBVIOUS
<1>3. e \in S /\ d \in S /\ e # d
  BY DEF Ahead
<1>4. <<d, e>> \in R
  BY <1>2, <1>3 DEF Orders
<1>5. Preceding(R, S, d) \subseteq Preceding(R, S, e)
  BY <1>3, <1>4 DEF Orders, Preceding
<1>6. Cardinality(Preceding(R, S, d)) <= Cardinality(Preceding(R, S, e))
  BY <1>1, <1>3, <1>5, FS_Subset
<1>7. Cardinality(Preceding(R, S, e)) < n /\ ~(Cardinality(Preceding(R, S, d)) < n)
  BY <1>3 DEF Ahead
<1>8. QED BY <1>1, <1>3, <1>6, <1>7

\* There are n of them, or all.
LEMMA AheadCounts ==
  ASSUME NEW R, NEW S, IsFiniteSet(S), Orders(R, S), NEW N \in Nat
  PROVE  /\ Ahead(R, S, N) \subseteq S /\ IsFiniteSet(Ahead(R, S, N))
         /\ IF N <= Cardinality(S) THEN Cardinality(Ahead(R, S, N)) = N ELSE Ahead(R, S, N) = S
<1>1. \A x \in S : IsFiniteSet(Preceding(R, S, x)) /\ Cardinality(Preceding(R, S, x)) \in Nat
  BY FS_Subset, FS_CardinalityType DEF Preceding
<1>2. Cardinality(S) \in Nat
  BY FS_CardinalityType
<1>3. \A n \in Nat : Ahead(R, S, n) \subseteq S /\ IsFiniteSet(Ahead(R, S, n))
  BY FS_Subset DEF Ahead
<1> DEFINE T == {n \in Nat : n <= Cardinality(S) => Cardinality(Ahead(R, S, n)) = n}
<1>4. 0 \in T
  <2>1. Ahead(R, S, 0) = {}
    BY <1>1 DEF Ahead
  <2>2. QED BY <2>1, FS_EmptySet
<1>5. ASSUME NEW n \in T, n + 1 <= Cardinality(S) PROVE Cardinality(Ahead(R, S, n + 1)) = n + 1
  <2>1. PICK A : A = Ahead(R, S, n)
    OBVIOUS
  <2>2. n \in Nat /\ n <= Cardinality(S) /\ Cardinality(A) = n /\ A \subseteq S /\ IsFiniteSet(A)
    BY <1>2, <1>3, <1>5, <2>1
  <2>3. S \ A # {} /\ IsFiniteSet(S \ A) /\ Orders(R, S \ A)
    <3>1. S \ A # {}
      <4>1. SUFFICES ASSUME S \ A = {} PROVE FALSE
        OBVIOUS
      <4>2. A = S
        BY <2>2, <4>1
      <4>3. QED BY <1>2, <1>5, <2>2, <4>2
    <3>2. QED BY <3>1, FS_Difference DEF Orders
  <2>4. PICK m \in S \ A : \A d \in S \ A : d = m \/ <<m, d>> \in R
    BY <2>3, HasFirst
  <2>5. \A e \in A, d \in S \ A : <<e, d>> \in R
    BY <2>1, <2>2, AheadIsBefore
  <2>6. Preceding(R, S, m) = A
    <3>1. \A d \in S \ A : <<d, m>> \notin R
      BY <2>4 DEF Orders
    <3>2. QED BY <2>2, <2>4, <2>5, <3>1 DEF Preceding
  <2>7. ASSUME NEW d \in S \ A, d # m PROVE d \notin Ahead(R, S, n + 1)
    <3>1. A \cup {m} \subseteq Preceding(R, S, d)
      BY <2>2, <2>4, <2>5, <2>7 DEF Preceding
    <3>2. Cardinality(A \cup {m}) = n + 1
      BY <2>2, <2>4, FS_AddElement
    <3>3. n + 1 <= Cardinality(Preceding(R, S, d))
      BY <1>1, <2>7, <3>1, <3>2, FS_Subset
    <3>4. QED BY <1>1, <2>2, <2>7, <3>3 DEF Ahead
  <2>8. A \subseteq Ahead(R, S, n + 1)
    <3>1. ASSUME NEW e \in A PROVE e \in Ahead(R, S, n + 1)
      <4>1. e \in S /\ Cardinality(Preceding(R, S, e)) < n
        BY <2>1 DEF Ahead
      <4>2. Cardinality(Preceding(R, S, e)) \in Nat
        BY <1>1, <4>1
      <4>3. QED BY <2>2, <4>1, <4>2 DEF Ahead
    <3>2. QED BY <3>1
  <2>9. m \in Ahead(R, S, n + 1)
    BY <2>2, <2>4, <2>6 DEF Ahead
  <2>10. Ahead(R, S, n + 1) = A \cup {m}
    <3>1. Ahead(R, S, n + 1) \subseteq S
      BY DEF Ahead
    <3>2. QED BY <2>7, <2>8, <2>9, <3>1
  <2>11. QED BY <2>2, <2>4, <2>10, FS_AddElement
<1>6. \A n \in T : n + 1 \in T
  BY <1>5
<1>7. T \in SUBSET Nat
  OBVIOUS
<1>8. \A n \in Nat : n <= Cardinality(S) => Cardinality(Ahead(R, S, n)) = n
  <2>1. T = Nat
    <3> HIDE DEF T
    <3>1. QED BY <1>4, <1>6, <1>7, Inductive
  <2>2. QED BY <2>1
<1>9. CASE N <= Cardinality(S)
  BY <1>3, <1>8, <1>9
<1>10. CASE ~(N <= Cardinality(S))
  <2>1. ASSUME NEW x \in S PROVE Cardinality(Preceding(R, S, x)) < N
    <3>1. Cardinality(Preceding(R, S, x)) <= Cardinality(S)
      BY FS_Subset DEF Preceding
    <3>2. QED BY <1>1, <1>2, <1>10, <3>1
  <2>2. Ahead(R, S, N) = S
    BY <2>1 DEF Ahead
  <2>3. QED BY <1>10, <2>2
<1>11. QED BY <1>9, <1>10

\* The numbers from the greatest down; Less is the order from the least up.
Newer == {p \in Nat \X Nat : p[1] > p[2]}

\* Both are strict total orders on any set of numbers.
LEMMA OrdersNumbers ==
  ASSUME NEW S \in SUBSET Nat PROVE Orders(Less, S) /\ Orders(Newer, S)
BY DEF Orders, Less, Newer

\* The newest and the oldest are the first in these orders.
LEMMA NewestIsAhead ==
  ASSUME NEW S \in SUBSET Nat, NEW n
  PROVE  Newest(S, n) = Ahead(Newer, S, n) /\ Oldest(S, n) = Ahead(Less, S, n)
<1>1. \A e \in S : {d \in S : d > e} = Preceding(Newer, S, e)
  BY DEF Newer, Preceding
<1>2. \A e \in S : {d \in S : d < e} = Preceding(Less, S, e)
  BY DEF Less, Preceding
<1>3. QED BY <1>1, <1>2 DEF Newest, Oldest, Ahead

\* The numbers up to a bound are finitely many.
LEMMA NumbersFinite ==
  ASSUME NEW N \in Nat, NEW S \in SUBSET (1..N)
  PROVE  IsFiniteSet(S) /\ S \in SUBSET Nat /\ Cardinality(S) \in Nat /\ Cardinality(S) <= N
<1>1. IsFiniteSet(1..N) /\ Cardinality(1..N) = N
  BY FS_Interval
<1>2. IsFiniteSet(S) /\ Cardinality(S) <= Cardinality(1..N)
  BY <1>1, FS_Subset
<1>3. S \in SUBSET Nat
  OBVIOUS
<1>4. QED BY <1>1, <1>2, <1>3, FS_CardinalityType

\* The newest of a set of numbers: as many as asked for or all, and newer than the rest.
LEMMA NewestFacts ==
  ASSUME NEW S \in SUBSET Nat, IsFiniteSet(S), NEW n \in Nat
  PROVE  /\ Newest(S, n) \subseteq S /\ IsFiniteSet(Newest(S, n))
         /\ IF n <= Cardinality(S) THEN Cardinality(Newest(S, n)) = n ELSE Newest(S, n) = S
         /\ \A e \in Newest(S, n), d \in S \ Newest(S, n) : d < e
<1>1. Orders(Newer, S) /\ Newest(S, n) = Ahead(Newer, S, n)
  BY OrdersNumbers, NewestIsAhead
<1>2. /\ Ahead(Newer, S, n) \subseteq S /\ IsFiniteSet(Ahead(Newer, S, n))
      /\ IF n <= Cardinality(S) THEN Cardinality(Ahead(Newer, S, n)) = n ELSE Ahead(Newer, S, n) = S
  BY <1>1, AheadCounts
<1>3. \A e \in Ahead(Newer, S, n), d \in S \ Ahead(Newer, S, n) : <<e, d>> \in Newer
  BY <1>1, AheadIsBefore
<1>4. QED BY <1>1, <1>2, <1>3 DEF Newer

\* In numbers.
LEMMA NewestCounts ==
  ASSUME NEW S \in SUBSET Nat, IsFiniteSet(S), NEW n \in Nat
  PROVE  /\ Cardinality(S) \in Nat /\ Cardinality(Newest(S, n)) \in Nat
         /\ Cardinality(Newest(S, n)) = IF n <= Cardinality(S) THEN n ELSE Cardinality(S)
         /\ Newest(S, n) # S => Cardinality(Newest(S, n)) = n
BY NewestFacts, FS_CardinalityType

\* The oldest likewise.
LEMMA OldestFacts ==
  ASSUME NEW S \in SUBSET Nat, IsFiniteSet(S), NEW n \in Nat
  PROVE  /\ Oldest(S, n) \subseteq S /\ IsFiniteSet(Oldest(S, n))
         /\ IF n <= Cardinality(S) THEN Cardinality(Oldest(S, n)) = n ELSE Oldest(S, n) = S
<1>1. Orders(Less, S) /\ Oldest(S, n) = Ahead(Less, S, n)
  BY OrdersNumbers, NewestIsAhead
<1>2. /\ Ahead(Less, S, n) \subseteq S /\ IsFiniteSet(Ahead(Less, S, n))
      /\ IF n <= Cardinality(S) THEN Cardinality(Ahead(Less, S, n)) = n ELSE Ahead(Less, S, n) = S
  BY <1>1, AheadCounts
<1>3. QED BY <1>1, <1>2

\* The greatest of a finite set of numbers.
LEMMA MaxFacts ==
  ASSUME NEW S \in SUBSET Nat, IsFiniteSet(S), S # {}
  PROVE  Max(S) \in S /\ \A d \in S : d <= Max(S)
<1>1. PICK m \in S : \A d \in S : d = m \/ <<m, d>> \in Newer
  BY OrdersNumbers, HasFirst
<1>2. ASSUME NEW d \in S PROVE m >= d
  <2>1. m \in Nat /\ d \in Nat
    OBVIOUS
  <2>2. <<m, d>> \in Newer => m > d
    BY DEF Newer
  <2>3. QED BY <1>1, <2>1, <2>2
<1>3. Max(S) \in S /\ \A d \in S : Max(S) >= d
  BY <1>2 DEF Max
<1>4. QED BY <1>3

\* It is among the newest.
LEMMA MaxIsNewest ==
  ASSUME NEW S \in SUBSET Nat, IsFiniteSet(S), S # {}, NEW n \in Nat, n > 0
  PROVE  Max(S) \in Newest(S, n)
<1>1. Max(S) \in S /\ \A d \in S : d <= Max(S)
  BY MaxFacts
<1>2. {d \in S : d > Max(S)} = {}
  <2>1. ASSUME NEW d \in S PROVE ~(d > Max(S))
    <3>1. PICK m : m = Max(S)
      OBVIOUS
    <3>2. m \in Nat /\ d \in Nat /\ d <= m
      BY <1>1, <3>1
    <3>3. QED BY <3>1, <3>2
  <2>2. QED BY <2>1
<1>3. QED BY <1>1, <1>2, FS_EmptySet DEF Newest

\* Of two numbers.
LEMMA OfTwo ==
  ASSUME NEW a \in Nat, NEW b \in Nat
  PROVE  /\ Min({a, b}) = IF a <= b THEN a ELSE b
         /\ Max({a, b}) = IF a <= b THEN b ELSE a
<1>1. \E x \in {a, b} : \A y \in {a, b} : x <= y
  <2>1. CASE a <= b
    BY <2>1
  <2>2. CASE ~(a <= b)
    BY <2>2
  <2>3. QED BY <2>1, <2>2
<1>2. \E x \in {a, b} : \A y \in {a, b} : x >= y
  <2>1. CASE a <= b
    BY <2>1
  <2>2. CASE ~(a <= b)
    BY <2>2
  <2>3. QED BY <2>1, <2>2
<1>3. Min({a, b}) \in {a, b} /\ \A y \in {a, b} : Min({a, b}) <= y
  BY <1>1 DEF Min
<1>4. Max({a, b}) \in {a, b} /\ \A y \in {a, b} : Max({a, b}) >= y
  BY <1>2 DEF Max
<1>5. QED BY <1>3, <1>4

\* Two parts of a set count together.
LEMMA TwoParts ==
  ASSUME NEW A, NEW B, IsFiniteSet(A), IsFiniteSet(B), A \cap B = {}
  PROVE  /\ IsFiniteSet(A \cup B) /\ Cardinality(A) \in Nat /\ Cardinality(B) \in Nat
         /\ Cardinality(A \cup B) = Cardinality(A) + Cardinality(B)
<1>1. Cardinality(A) \in Nat /\ Cardinality(B) \in Nat /\ Cardinality(A \cap B) = 0
  BY FS_CardinalityType, FS_EmptySet
<1>2. IsFiniteSet(A \cup B) /\ Cardinality(A \cup B) = Cardinality(A) + Cardinality(B) - Cardinality(A \cap B)
  BY FS_Union
<1>3. QED BY <1>1, <1>2

---------------------------------------------------------------------------
(* What the models read.                                                 *)

\* The limits, one by one.
LEMMA LimitsAreNumbers ==
  /\ MaxEvents \in Nat /\ MaxPictures \in Nat /\ MaxViewers \in Nat /\ PerCategory \in Nat
  /\ MaxReplies \in Nat /\ InputBudget \in Nat /\ AmbientBudget \in Nat /\ ScreenBudget \in Nat
  /\ MaxPublic \in Nat /\ BundleSize \in Nat /\ MaxPublic > 0 /\ BundleSize > 0
BY InputsAssumption

\* What an observation holds is finite.
LEMMA ObservationParts ==
  ASSUME NEW o \in Observations
  PROVE  /\ o.trigger \in SUBSET Nat /\ IsFiniteSet(o.trigger)
         /\ \A kinds : Fresh(o, kinds) \in SUBSET Nat /\ IsFiniteSet(Fresh(o, kinds))
<1>1. o.trigger \in SUBSET (1..MaxEvents) /\ o.fresh \in SUBSET (1..MaxEvents)
  BY DEF Observations, Events
<1>2. \A kinds : Fresh(o, kinds) \in SUBSET (1..MaxEvents)
  BY <1>1 DEF Fresh
<1>3. QED BY <1>1, <1>2, LimitsAreNumbers, NumbersFinite

\* The events of one kind in a set.
OfKind(o, S, c) == {e \in S : o.kind[e] = c}

\* The parts of PublicContext: triggers kept, room left to each category, what may fill it, and what does.
ContextSplit(o, kept, others, rest, room) ==
  /\ PublicContext(o) = kept \cup rest
  /\ kept \subseteq o.trigger /\ IsFiniteSet(kept)
  /\ IF MaxPublic <= Cardinality(o.trigger) THEN Cardinality(kept) = MaxPublic ELSE kept = o.trigger
  /\ room = [c \in Inputs |-> AtLeastZero(PerCategory - Cardinality(OfKind(o, o.trigger, c)))]
  /\ others = UNION {Newest(Fresh(o, {c}) \ o.trigger, room[c]) : c \in Inputs}
  /\ Cardinality(kept) \in Nat /\ Cardinality(kept) <= MaxPublic
  /\ rest = Newest(others, MaxPublic - Cardinality(kept))

\* Every public context splits so.
LEMMA ContextParts ==
  ASSUME NEW o \in Observations
  PROVE  \E kept, others, rest, room : ContextSplit(o, kept, others, rest, room)
<1>1. PICK room : room = [c \in Inputs |-> AtLeastZero(PerCategory - Cardinality(OfKind(o, o.trigger, c)))]
  OBVIOUS
<1>2. PICK others : others = UNION {Newest(Fresh(o, {c}) \ o.trigger, room[c]) : c \in Inputs}
  OBVIOUS
<1>3. PICK kept : kept = Oldest(o.trigger, MaxPublic)
  OBVIOUS
<1>4. o.trigger \in SUBSET Nat /\ IsFiniteSet(o.trigger) /\ MaxPublic \in Nat
  BY ObservationParts, LimitsAreNumbers
<1>5. /\ kept \subseteq o.trigger /\ IsFiniteSet(kept)
      /\ IF MaxPublic <= Cardinality(o.trigger) THEN Cardinality(kept) = MaxPublic ELSE kept = o.trigger
  BY <1>3, <1>4, OldestFacts
<1>6. Cardinality(kept) \in Nat /\ Cardinality(kept) <= MaxPublic
  BY <1>4, <1>5, FS_CardinalityType
<1>7. PICK rest : rest = Newest(others, MaxPublic - Cardinality(kept))
  OBVIOUS
<1>8. PublicContext(o) = kept \cup rest
  BY <1>1, <1>2, <1>3, <1>7 DEF PublicContext, OfKind
<1>9. ContextSplit(o, kept, others, rest, room)
  BY <1>1, <1>2, <1>5, <1>6, <1>7, <1>8 DEF ContextSplit
<1>10. QED BY <1>9

\* At most as many of a kind as the room there was for it, the newest of those that came in question.
Fills(o, room, others, c) ==
  /\ Cardinality(OfKind(o, others, c)) <= room[c]
  /\ \A e \in OfKind(o, others, c), d \in (Fresh(o, {c}) \ o.trigger) \ others : d < e
  /\ (Fresh(o, {c}) \ o.trigger) \ others # {} => Cardinality(OfKind(o, others, c)) = room[c]

\* What fills it, category by category.
LEMMA CategoryFacts ==
  ASSUME NEW o \in Observations, NEW room \in [Inputs -> Nat], NEW others,
         others = UNION {Newest(Fresh(o, {c}) \ o.trigger, room[c]) : c \in Inputs}
  PROVE  /\ others \in SUBSET Nat /\ IsFiniteSet(others) /\ others \subseteq Fresh(o, Inputs) \ o.trigger
         /\ \A c \in Inputs : Fills(o, room, others, c)
<1> DEFINE asked(c) == Fresh(o, {c}) \ o.trigger
           part(c) == Newest(asked(c), room[c])
<1>1. \A c : asked(c) \in SUBSET Nat /\ IsFiniteSet(asked(c))
  BY ObservationParts, FS_Difference
<1>2. ASSUME NEW c \in Inputs
      PROVE  /\ part(c) \subseteq asked(c) /\ IsFiniteSet(part(c)) /\ Cardinality(part(c)) <= room[c]
             /\ part(c) # asked(c) => Cardinality(part(c)) = room[c]
             /\ \A e \in part(c), d \in asked(c) \ part(c) : d < e
  <2>1. PICK S, n : S = asked(c) /\ n = room[c]
    OBVIOUS
  <2>2. S \in SUBSET Nat /\ IsFiniteSet(S) /\ n \in Nat
    BY <1>1, <1>2, <2>1
  <2>3. /\ Newest(S, n) \subseteq S /\ IsFiniteSet(Newest(S, n))
        /\ \A e \in Newest(S, n), d \in S \ Newest(S, n) : d < e
    BY <2>2, NewestFacts
  <2>4. /\ Cardinality(S) \in Nat /\ Cardinality(Newest(S, n)) = IF n <= Cardinality(S) THEN n ELSE Cardinality(S)
        /\ Newest(S, n) # S => Cardinality(Newest(S, n)) = n
    BY <2>2, NewestCounts
  <2>5. Cardinality(Newest(S, n)) <= n
    BY <2>2, <2>4
  <2>6. QED BY <2>1, <2>3, <2>4, <2>5
<1> HIDE DEF part
<1>3. others = part("user") \cup part("system_audio")
  BY DEF part, Inputs
<1>4. "user" \in Inputs /\ "system_audio" \in Inputs
  BY DEF Inputs
<1>5. IsFiniteSet(others) /\ others \in SUBSET Nat
  <2>1. IsFiniteSet(part("user")) /\ IsFiniteSet(part("system_audio"))
    BY <1>2, <1>4
  <2>2. IsFiniteSet(part("user") \cup part("system_audio"))
    BY <2>1, FS_Union
  <2>3. part("user") \in SUBSET Nat /\ part("system_audio") \in SUBSET Nat
    BY <1>1, <1>2, <1>4
  <2>4. QED BY <1>3, <2>2, <2>3
<1>6. \A c \in Inputs : \A e \in asked(c) : o.kind[e] = c /\ e \in Fresh(o, Inputs) \ o.trigger
  BY DEF Fresh
<1>7. others \subseteq Fresh(o, Inputs) \ o.trigger
  BY <1>2, <1>3, <1>4, <1>6
<1>8. \A c \in Inputs : OfKind(o, others, c) = part(c)
  <2>1. OfKind(o, others, "user") = part("user")
    BY <1>2, <1>3, <1>4, <1>6 DEF OfKind
  <2>2. OfKind(o, others, "system_audio") = part("system_audio")
    BY <1>2, <1>3, <1>4, <1>6 DEF OfKind
  <2>3. QED BY <2>1, <2>2 DEF Inputs
<1>9. ASSUME NEW c \in Inputs PROVE asked(c) \ others = asked(c) \ part(c)
  BY <1>6, <1>8 DEF OfKind
<1>10. ASSUME NEW c \in Inputs PROVE Fills(o, room, others, c)
  <2>1. OfKind(o, others, c) = part(c) /\ asked(c) \ others = asked(c) \ part(c)
    BY <1>8, <1>9
  <2>2. asked(c) \ part(c) # {} => part(c) # asked(c)
    OBVIOUS
  <2>3. QED BY <1>2, <2>1, <2>2 DEF Fills
<1>11. QED BY <1>5, <1>7, <1>10

\* _select_contexts: triggers first, nothing outdated, and of each category the newest without gaps.
LEMMA ContextsAreSound == ContextsSound
<1>1. SUFFICES ASSUME NEW o \in Observations
      PROVE LET read == PublicContext(o)
                left(c) == Fresh(o, {c}) \ read
            IN /\ Cardinality(read) <= MaxPublic /\ read \subseteq o.trigger \cup Fresh(o, Inputs)
               /\ Cardinality(o.trigger) <= MaxPublic => o.trigger \subseteq read
               /\ \A c \in Inputs :
                     LET of(S) == Cardinality({e \in S : o.kind[e] = c})
                     IN of(read) <= Max({PerCategory, of(o.trigger)})
               /\ \A c \in Inputs, e \in read \ o.trigger :
                     o.kind[e] = c => \A d \in left(c) : d < e
               /\ \A c \in Inputs : left(c) # {} =>
                     \/ Cardinality(read) = MaxPublic
                     \/ Cardinality({e \in read : o.kind[e] = c}) >= PerCategory
  BY DEF ContextsSound
<1>2. PICK kept, others, rest, room : ContextSplit(o, kept, others, rest, room)
  BY ContextParts
<1> USE DEF ContextSplit
<1>3. PICK read : read = kept \cup rest
  OBVIOUS
<1>4. o.trigger \in SUBSET Nat /\ IsFiniteSet(o.trigger) /\ Cardinality(o.trigger) \in Nat /\ MaxPublic \in Nat /\ PerCategory \in Nat
  BY ObservationParts, LimitsAreNumbers, FS_CardinalityType
<1>5. \A c \in Inputs : /\ IsFiniteSet(OfKind(o, o.trigger, c)) /\ Cardinality(OfKind(o, o.trigger, c)) \in Nat
                        /\ room[c] \in Nat /\ room[c] >= PerCategory - Cardinality(OfKind(o, o.trigger, c))
                        /\ room[c] = 0 \/ room[c] = PerCategory - Cardinality(OfKind(o, o.trigger, c))
  <2>1. ASSUME NEW c \in Inputs
        PROVE IsFiniteSet(OfKind(o, o.trigger, c)) /\ Cardinality(OfKind(o, o.trigger, c)) \in Nat
    BY <1>4, FS_Subset, FS_CardinalityType DEF OfKind
  <2>2. QED BY <1>2, <1>4, <2>1 DEF AtLeastZero
<1>6. room \in [Inputs -> Nat]
  BY <1>2, <1>5
<1>7. /\ others \in SUBSET Nat /\ IsFiniteSet(others) /\ others \subseteq Fresh(o, Inputs) \ o.trigger
      /\ \A c \in Inputs : Fills(o, room, others, c)
  <2>1. others = UNION {Newest(Fresh(o, {c}) \ o.trigger, room[c]) : c \in Inputs}
    BY <1>2
  <2>2. QED BY <1>6, <2>1, CategoryFacts
<1>8. PICK n : n = MaxPublic - Cardinality(kept)
  OBVIOUS
<1>9. n \in Nat /\ rest = Newest(others, n)
  BY <1>2, <1>4, <1>8
<1>10. /\ rest \subseteq others /\ IsFiniteSet(rest) /\ \A e \in rest, d \in others \ rest : d < e
       /\ Cardinality(rest) \in Nat /\ Cardinality(rest) <= n /\ (rest # others => Cardinality(rest) = n)
       /\ n = 0 => rest = {}
  <2>1. /\ rest \subseteq others /\ IsFiniteSet(rest) /\ \A e \in rest, d \in others \ rest : d < e
    BY <1>7, <1>9, NewestFacts
  <2>2. /\ Cardinality(others) \in Nat /\ Cardinality(rest) \in Nat
        /\ Cardinality(rest) = IF n <= Cardinality(others) THEN n ELSE Cardinality(others)
        /\ rest # others => Cardinality(rest) = n
    BY <1>7, <1>9, NewestCounts
  <2>3. n = 0 => Cardinality(rest) = 0
    BY <1>9, <2>2
  <2>4. n = 0 => rest = {}
    BY <2>1, <2>3, FS_EmptySet
  <2>5. QED BY <1>9, <2>1, <2>2, <2>4
<1>11. kept \cap rest = {} /\ rest \cap o.trigger = {}
  BY <1>2, <1>7, <1>10
<1>12. Cardinality(read) = Cardinality(kept) + Cardinality(rest)
  BY <1>2, <1>3, <1>10, <1>11, TwoParts
<1>13. Cardinality(read) <= MaxPublic /\ read \subseteq o.trigger \cup Fresh(o, Inputs)
  <2>1. Cardinality(read) <= MaxPublic
    BY <1>2, <1>4, <1>8, <1>10, <1>12
  <2>2. read \subseteq o.trigger \cup Fresh(o, Inputs)
    BY <1>2, <1>3, <1>7, <1>10
  <2>3. QED BY <2>1, <2>2
<1>14. Cardinality(o.trigger) <= MaxPublic => o.trigger \subseteq read
  <2>1. SUFFICES ASSUME Cardinality(o.trigger) <= MaxPublic PROVE kept = o.trigger
    BY <1>3
  <2>2. CASE ~(MaxPublic <= Cardinality(o.trigger))
    BY <1>2, <2>2
  <2>3. CASE MaxPublic <= Cardinality(o.trigger)
    <3>1. Cardinality(kept) = Cardinality(o.trigger)
      BY <1>2, <1>4, <2>1, <2>3
    <3>2. QED BY <1>2, <1>4, <3>1, FS_Subset
  <2>4. QED BY <2>2, <2>3
<1>15. ASSUME NEW c \in Inputs
       PROVE  /\ IsFiniteSet(OfKind(o, kept, c)) /\ IsFiniteSet(OfKind(o, rest, c))
              /\ Cardinality(OfKind(o, kept, c)) <= Cardinality(OfKind(o, o.trigger, c))
              /\ Cardinality(OfKind(o, rest, c)) <= room[c]
              /\ Cardinality(OfKind(o, kept, c)) \in Nat /\ Cardinality(OfKind(o, rest, c)) \in Nat
              /\ Cardinality(OfKind(o, read, c)) = Cardinality(OfKind(o, kept, c)) + Cardinality(OfKind(o, rest, c))
  <2>1. OfKind(o, kept, c) \subseteq OfKind(o, o.trigger, c) /\ OfKind(o, rest, c) \subseteq OfKind(o, others, c)
    BY <1>2, <1>10 DEF OfKind
  <2>2. IsFiniteSet(OfKind(o, o.trigger, c)) /\ IsFiniteSet(OfKind(o, others, c))
    BY <1>4, <1>7, FS_Subset DEF OfKind
  <2>3. /\ IsFiniteSet(OfKind(o, kept, c)) /\ Cardinality(OfKind(o, kept, c)) <= Cardinality(OfKind(o, o.trigger, c))
        /\ IsFiniteSet(OfKind(o, rest, c)) /\ Cardinality(OfKind(o, rest, c)) <= Cardinality(OfKind(o, others, c))
    BY <2>1, <2>2, FS_Subset
  <2>4. OfKind(o, read, c) = OfKind(o, kept, c) \cup OfKind(o, rest, c) /\ OfKind(o, kept, c) \cap OfKind(o, rest, c) = {}
    BY <1>3, <1>11 DEF OfKind
  <2>5. /\ Cardinality(OfKind(o, kept, c)) \in Nat /\ Cardinality(OfKind(o, rest, c)) \in Nat
        /\ Cardinality(OfKind(o, read, c)) = Cardinality(OfKind(o, kept, c)) + Cardinality(OfKind(o, rest, c))
    BY <2>3, <2>4, TwoParts
  <2>6. Cardinality(OfKind(o, others, c)) <= room[c] /\ Cardinality(OfKind(o, others, c)) \in Nat /\ room[c] \in Nat
    BY <1>5, <1>7, <2>2, FS_CardinalityType DEF Fills
  <2>7. QED BY <2>3, <2>5, <2>6
<1>16. ASSUME NEW c \in Inputs
       PROVE  Cardinality(OfKind(o, read, c)) <= Max({PerCategory, Cardinality(OfKind(o, o.trigger, c))})
  <2>1. PICK t : t = Cardinality(OfKind(o, o.trigger, c))
    OBVIOUS
  <2>2. t \in Nat /\ (room[c] = 0 \/ room[c] = PerCategory - t)
    BY <1>5, <2>1
  <2>3. Max({PerCategory, t}) = IF PerCategory <= t THEN t ELSE PerCategory
    BY <1>4, <2>2, OfTwo
  <2>4. Cardinality(OfKind(o, read, c)) <= t + room[c] /\ Cardinality(OfKind(o, read, c)) \in Nat
    BY <1>5, <1>15, <2>1
  <2>5. QED BY <1>4, <1>5, <2>1, <2>2, <2>3, <2>4
<1>17. ASSUME NEW c \in Inputs, NEW e \in read \ o.trigger, o.kind[e] = c, NEW d \in Fresh(o, {c}) \ read
       PROVE  d < e
  <2>1. e \in rest /\ e \in others /\ n # 0
    BY <1>2, <1>3, <1>10, <1>17
  <2>2. d \notin o.trigger
    <3>1. kept = o.trigger
      BY <1>2, <1>4, <1>8, <2>1
    <3>2. QED BY <1>3, <1>17, <3>1
  <2>3. CASE d \in others
    BY <1>3, <1>10, <1>17, <2>1, <2>3
  <2>4. CASE d \notin others
    <3>1. e \in OfKind(o, others, c)
      BY <1>17, <2>1 DEF OfKind
    <3>2. QED BY <1>7, <1>17, <2>2, <2>4, <3>1 DEF Fills
  <2>5. QED BY <2>3, <2>4
<1>18. ASSUME NEW c \in Inputs, Fresh(o, {c}) \ read # {}, Cardinality(read) # MaxPublic
       PROVE  Cardinality(OfKind(o, read, c)) >= PerCategory
  <2>1. Cardinality(rest) # n
    BY <1>2, <1>4, <1>8, <1>10, <1>12, <1>18
  <2>2. rest = others /\ n # 0
    BY <1>9, <1>10, <2>1, FS_EmptySet
  <2>3. kept = o.trigger
    BY <1>2, <1>4, <1>8, <2>2
  <2>4. (Fresh(o, {c}) \ o.trigger) \ others # {}
    BY <1>3, <1>18, <2>2, <2>3
  <2>5. Cardinality(OfKind(o, rest, c)) = room[c]
    BY <1>7, <2>2, <2>4 DEF Fills
  <2>6. Cardinality(OfKind(o, read, c)) = Cardinality(OfKind(o, o.trigger, c)) + room[c]
    BY <1>15, <2>3, <2>5
  <2>7. QED BY <1>4, <1>5, <2>6
<1>19. read = PublicContext(o)
  BY <1>2, <1>3
<1> HIDE DEF ContextSplit
<1>20. QED BY <1>13, <1>14, <1>16, <1>17, <1>18, <1>19 DEF OfKind

\* _select_contexts, barrages: the newest can be answered, with the one it answers.
LEMMA ThreadsAreSound == ThreadsSound
<1>1. SUFFICES ASSUME NEW o \in Observations
      PROVE LET barrages == Fresh(o, {"barrage"})
            IN /\ ReplyContext(o) \subseteq barrages
               /\ Cardinality(ReplyContext(o)) = Min({MaxReplies, Cardinality(barrages)})
               /\ MaxReplies > 0 /\ barrages # {} => Max(barrages) \in ReplyContext(o)
               /\ MaxReplies > 1 => barrages \cap {o.answers} \subseteq ReplyContext(o)
               /\ WindowBatchContext(o) \cap barrages = {}
  BY DEF ThreadsSound
<1>2. PICK barrages, newest, parent, reply :
        /\ barrages = Fresh(o, {"barrage"}) /\ newest = Newest(barrages, MaxReplies)
        /\ parent = barrages \cap {o.answers} /\ reply = ReplyContext(o)
  OBVIOUS
<1>3. barrages \in SUBSET Nat /\ IsFiniteSet(barrages) /\ MaxReplies \in Nat
  BY <1>2, ObservationParts, LimitsAreNumbers
<1>4. /\ newest \subseteq barrages /\ IsFiniteSet(newest)
      /\ \A e \in newest, d \in barrages \ newest : d < e
  BY <1>2, <1>3, NewestFacts
<1>5. /\ Cardinality(barrages) \in Nat /\ Cardinality(newest) \in Nat
      /\ Cardinality(newest) = IF MaxReplies <= Cardinality(barrages) THEN MaxReplies ELSE Cardinality(barrages)
      /\ newest # barrages => Cardinality(newest) = MaxReplies
  BY <1>2, <1>3, NewestCounts
<1>6. Min({MaxReplies, Cardinality(barrages)}) = Cardinality(newest)
  BY <1>3, <1>5, OfTwo
<1>7. MaxReplies > 0 /\ barrages # {} => Max(barrages) \in newest
  BY <1>2, <1>3, MaxIsNewest
<1>8. WindowBatchContext(o) \cap barrages = {}
  <2>1. Fresh(o, Inputs) \in SUBSET Nat /\ IsFiniteSet(Fresh(o, Inputs)) /\ MaxPublic \in Nat
    BY ObservationParts, LimitsAreNumbers
  <2>2. WindowBatchContext(o) \subseteq Fresh(o, Inputs)
    BY <2>1, NewestFacts DEF WindowBatchContext
  <2>3. QED BY <1>2, <2>2 DEF Fresh, Inputs
<1>9. CASE parent \subseteq newest \/ MaxReplies <= 1
  <2>1. reply = newest
    BY <1>2, <1>9 DEF ReplyContext
  <2>2. QED BY <1>2, <1>3, <1>4, <1>6, <1>7, <1>8, <1>9, <2>1
<1>10. CASE ~(parent \subseteq newest) /\ ~(MaxReplies <= 1)
  <2>1. PICK n, last : n = MaxReplies - 1 /\ last = Newest(newest, n)
    OBVIOUS
  <2>2. n \in Nat /\ n > 0 /\ newest \in SUBSET Nat
    BY <1>3, <1>4, <1>10, <2>1
  <2>3. reply = parent \cup last
    BY <1>2, <1>10, <2>1 DEF ReplyContext
  <2>4. parent = {o.answers} /\ o.answers \in barrages /\ o.answers \notin newest
    BY <1>2, <1>10
  <2>5. newest # barrages /\ Cardinality(newest) = MaxReplies
    BY <1>5, <2>4
  <2>6. last \subseteq newest /\ IsFiniteSet(last)
    BY <1>4, <2>1, <2>2, NewestFacts
  <2>7. Cardinality(last) = n
    <3>1. Cardinality(last) = IF n <= Cardinality(newest) THEN n ELSE Cardinality(newest)
      BY <1>4, <2>1, <2>2, NewestCounts
    <3>2. QED BY <1>3, <2>1, <2>5, <3>1
  <2>8. Cardinality(last \cup {o.answers}) = n + 1
    BY <2>4, <2>6, <2>7, FS_AddElement
  <2>9. Cardinality(reply) = MaxReplies /\ reply \subseteq barrages /\ parent \subseteq reply
    <3>1. reply = last \cup {o.answers}
      BY <2>3, <2>4
    <3>2. n + 1 = MaxReplies
      BY <1>3, <2>1
    <3>3. QED BY <1>4, <2>4, <2>6, <2>8, <3>1, <3>2
  <2>10. Max(barrages) \in reply
    <3>1. barrages # {} /\ Max(barrages) \in newest
      BY <1>3, <1>7, <1>10, <2>4
    <3>2. Max(newest) \in last
      <4>1. newest # {}
        BY <3>1
      <4>2. QED BY <1>4, <2>1, <2>2, <4>1, MaxIsNewest
    <3>3. Max(barrages) = Max(newest)
      <4>1. PICK a, b : a = Max(barrages) /\ b = Max(newest)
        OBVIOUS
      <4>2. a \in barrages /\ \A d \in barrages : d <= a
        BY <1>3, <3>1, <4>1, MaxFacts
      <4>3. b \in newest /\ \A d \in newest : d <= b
        BY <1>4, <2>2, <3>1, <4>1, MaxFacts
      <4>4. a \in Nat /\ b \in Nat /\ a <= b /\ b <= a
        BY <1>3, <1>4, <3>1, <4>1, <4>2, <4>3
      <4>5. QED BY <4>1, <4>4
    <3>4. QED BY <2>3, <3>2, <3>3
  <2>11. QED BY <1>2, <1>6, <1>8, <2>5, <2>9, <2>10
<1>11. QED BY <1>9, <1>10

\* Of the pictures of a sight, those chosen are a newest part of the window or of its representatives.
LEMMA SightParts ==
  ASSUME NEW s \in Sights
  PROVE  /\ s.window \in SUBSET Nat /\ IsFiniteSet(s.window)
         /\ s.trigger \in SUBSET Nat /\ IsFiniteSet(s.trigger)
         /\ \E from \in SUBSET s.window :
              /\ SelectFrames(s) = Newest(from, BundleSize)
              /\ \A f \in s.window \ from : ~s.latest /\ \E g \in s.window : g > f /\ Anchor(s)[g] = Anchor(s)[f]
<1>1. s.window \in SUBSET (1..MaxPictures) /\ s.trigger \in SUBSET (1..MaxPictures)
  BY DEF Sights, Pictures
<1>2. /\ s.window \in SUBSET Nat /\ IsFiniteSet(s.window)
      /\ s.trigger \in SUBSET Nat /\ IsFiniteSet(s.trigger)
  BY <1>1, LimitsAreNumbers, NumbersFinite
<1>3. PICK from : from = IF s.latest THEN s.window ELSE Representatives(s)
  OBVIOUS
<1>4. from \in SUBSET s.window /\ SelectFrames(s) = Newest(from, BundleSize)
  BY <1>3 DEF SelectFrames, Representatives
<1>5. ASSUME NEW f \in s.window \ from
      PROVE ~s.latest /\ \E g \in s.window : g > f /\ Anchor(s)[g] = Anchor(s)[f]
  <2>1. ~s.latest /\ f \notin Representatives(s)
    BY <1>3, <1>5
  <2>2. PICK g \in s.window : Anchor(s)[g] = Anchor(s)[f] /\ ~(g <= f)
    BY <1>5, <2>1 DEF Representatives
  <2>3. g \in Nat /\ f \in Nat
    BY <1>2, <1>5
  <2>4. QED BY <2>1, <2>2, <2>3
<1>6. QED BY <1>2, <1>4, <1>5

\* _select_frames and _build_wave: a bundle holds the newest triggers, and what it leaves out is represented.
LEMMA BundlesAreSound == BundlesSound
<1>1. SUFFICES ASSUME NEW s \in Sights
      PROVE LET bundle == FrameBundle(s)
            IN /\ Cardinality(bundle) <= BundleSize \/ Cardinality(bundle \cap s.trigger) = BundleSize
               /\ s.trigger # {} => Max(s.trigger) \in bundle
               /\ \A f \in s.window \ bundle :
                     \/ ~s.latest /\ \E g \in s.window : g > f /\ Anchor(s)[g] = Anchor(s)[f]
                     \/ Cardinality({g \in bundle : g > f \/ g \in s.trigger}) >= BundleSize
  BY DEF BundlesSound
<1>2. PICK W, T, B : W = s.window /\ T = s.trigger /\ B = BundleSize
  OBVIOUS
<1>3. PICK from \in SUBSET W :
              /\ SelectFrames(s) = Newest(from, B)
              /\ \A f \in W \ from : ~s.latest /\ \E g \in s.window : g > f /\ Anchor(s)[g] = Anchor(s)[f]
  BY <1>2, SightParts
<1>4. PICK SF : SF = SelectFrames(s)
  OBVIOUS
<1>5. /\ W \in SUBSET Nat /\ IsFiniteSet(W) /\ T \in SUBSET Nat /\ IsFiniteSet(T) /\ B \in Nat /\ B > 0
      /\ from \in SUBSET Nat /\ IsFiniteSet(from)
  BY <1>2, SightParts, LimitsAreNumbers, FS_Subset
<1>6. /\ SF \subseteq from /\ SF \in SUBSET Nat /\ IsFiniteSet(SF) /\ \A e \in SF, d \in from \ SF : d < e
  <2>1. SF = Newest(from, B)
    BY <1>3, <1>4
  <2>2. SF \subseteq from /\ IsFiniteSet(SF) /\ \A e \in SF, d \in from \ SF : d < e
    BY <1>5, <2>1, NewestFacts
  <2>3. SF \in SUBSET Nat
    BY <1>5, <2>2
  <2>4. QED BY <2>2, <2>3
<1>7. /\ Cardinality(from) \in Nat /\ Cardinality(SF) \in Nat /\ Cardinality(SF) <= B
      /\ SF # from => Cardinality(SF) = B
  BY <1>3, <1>4, <1>5, NewestCounts
<1>8. PICK bundle : bundle = FrameBundle(s)
  OBVIOUS
<1>9. SUFFICES
         /\ Cardinality(bundle) <= B \/ Cardinality(bundle \cap T) = B
         /\ T # {} => Max(T) \in bundle
         /\ \A f \in from \ bundle : Cardinality({g \in bundle : g > f \/ g \in T}) >= B
  BY <1>2, <1>3, <1>8
<1>10. CASE T \subseteq SF
  <2>1. bundle = SF
    BY <1>2, <1>4, <1>8, <1>10 DEF FrameBundle
  <2>2. ASSUME T # {} PROVE Max(T) \in bundle
    BY <1>5, <1>10, <2>1, <2>2, MaxFacts
  <2>3. ASSUME NEW f \in from \ bundle PROVE Cardinality({g \in bundle : g > f \/ g \in T}) >= B
    <3>1. {g \in bundle : g > f \/ g \in T} = SF
      BY <1>6, <1>5, <2>1, <2>3
    <3>2. SF # from
      BY <2>1, <2>3
    <3>3. QED BY <1>5, <1>7, <3>1, <3>2
  <2>4. QED BY <1>7, <2>1, <2>2, <2>3
<1>11. CASE ~(T \subseteq SF)
  <2>1. PICK forced, ordinary, remaining, rest :
          /\ forced = Newest(T, B) /\ ordinary = (SF \cup T) \ T /\ remaining = B - Cardinality(forced)
          /\ rest = (IF remaining = 0 THEN ordinary ELSE Newest(ordinary, remaining))
    OBVIOUS
  <2>2. bundle = forced \cup rest
    BY <1>2, <1>4, <1>8, <1>11, <2>1 DEF FrameBundle
  <2>3. forced \subseteq T /\ IsFiniteSet(forced)
    BY <1>5, <2>1, NewestFacts
  <2>4. /\ Cardinality(T) \in Nat /\ Cardinality(forced) \in Nat /\ Cardinality(forced) <= B
        /\ forced # T => Cardinality(forced) = B
    BY <1>5, <2>1, NewestCounts
  <2>5. remaining \in Nat
    BY <1>5, <2>1, <2>4
  <2>6. /\ ordinary = SF \ T /\ ordinary \in SUBSET Nat /\ IsFiniteSet(ordinary) /\ Cardinality(ordinary) \in Nat
        /\ Cardinality(SF \cap T) \in Nat /\ Cardinality(SF \cap T) <= Cardinality(T)
        /\ Cardinality(ordinary) = Cardinality(SF) - Cardinality(SF \cap T)
    <3>1. ordinary = SF \ T
      BY <2>1
    <3>2. IsFiniteSet(SF \ T) /\ Cardinality(SF \ T) = Cardinality(SF) - Cardinality(SF \cap T)
      BY <1>6, FS_Difference
    <3>3. IsFiniteSet(SF \cap T) /\ Cardinality(SF \cap T) <= Cardinality(T)
      BY <1>5, FS_Subset
    <3>4. QED BY <1>6, <3>1, <3>2, <3>3, FS_CardinalityType
  <2>7. rest \subseteq ordinary /\ IsFiniteSet(rest) /\ Cardinality(rest) \in Nat
    <3>1. Newest(ordinary, remaining) \subseteq ordinary
      BY <2>5, <2>6, NewestFacts
    <3>2. rest \subseteq ordinary
      BY <2>1, <3>1
    <3>3. QED BY <2>6, <3>2, FS_Subset, FS_CardinalityType
  <2>8. ASSUME remaining # 0
        PROVE  /\ Cardinality(rest) = IF remaining <= Cardinality(ordinary) THEN remaining ELSE Cardinality(ordinary)
               /\ \A e \in rest, d \in ordinary \ rest : d < e
               /\ rest # ordinary => Cardinality(rest) = remaining
    <3>1. rest = Newest(ordinary, remaining)
      BY <2>1, <2>8
    <3>2. QED BY <2>5, <2>6, <3>1, NewestFacts, NewestCounts
  <2>9. forced \cap rest = {} /\ Cardinality(bundle) = Cardinality(forced) + Cardinality(rest) /\ IsFiniteSet(bundle)
    <3>1. forced \cap rest = {}
      BY <2>3, <2>6, <2>7
    <3>2. QED BY <2>2, <2>3, <2>7, <3>1, TwoParts
  <2>10. bundle \cap T = forced
    BY <2>2, <2>3, <2>6, <2>7
  <2>11. Cardinality(bundle) <= B \/ Cardinality(bundle \cap T) = B
    <3>1. CASE remaining = 0
      BY <1>5, <2>1, <2>4, <2>10, <3>1
    <3>2. CASE remaining # 0
      BY <1>5, <2>1, <2>4, <2>5, <2>6, <2>7, <2>8, <2>9, <3>2
    <3>3. QED BY <3>1, <3>2
  <2>12. ASSUME T # {} PROVE Max(T) \in bundle
    BY <1>5, <2>1, <2>2, <2>12, MaxIsNewest
  <2>13. ASSUME NEW f \in from \ bundle PROVE Cardinality({g \in bundle : g > f \/ g \in T}) >= B
    <3>1. PICK seen : seen = {g \in bundle : g > f \/ g \in T}
      OBVIOUS
    <3>2. IsFiniteSet(seen) /\ Cardinality(seen) \in Nat
      BY <2>9, <3>1, FS_Subset, FS_CardinalityType
    <3>3. forced \subseteq seen /\ Cardinality(forced) <= Cardinality(seen)
      <4>1. forced \subseteq seen
        BY <2>2, <2>3, <3>1
      <4>2. QED BY <3>2, <4>1, FS_Subset
    <3>4. CASE Cardinality(forced) = B
      BY <1>5, <2>4, <3>1, <3>2, <3>3, <3>4
    <3>5. CASE Cardinality(forced) # B
      <4>1. forced = T /\ remaining # 0 /\ f \notin T
        BY <1>5, <2>1, <2>2, <2>4, <2>13, <3>5
      <4>2. ASSUME NEW g \in rest PROVE g > f
        <5>1. g \in SF /\ g \in Nat /\ f \in Nat
          BY <1>5, <1>6, <2>6, <2>7, <2>13, <4>2
        <5>2. CASE f \in SF
          <6>1. f \in ordinary \ rest
            BY <2>2, <2>6, <2>13, <4>1, <5>2
          <6>2. QED BY <2>8, <4>1, <4>2, <5>1, <6>1
        <5>3. CASE f \notin SF
          <6>1. f < g
            BY <1>6, <2>13, <5>1, <5>3
          <6>2. QED BY <5>1, <6>1
        <5>4. QED BY <5>2, <5>3
      <4>3. seen = bundle
        BY <2>2, <3>1, <4>1, <4>2
      <4>4. CASE rest # ordinary
        <5>1. Cardinality(rest) = remaining
          BY <2>8, <4>1, <4>4
        <5>2. Cardinality(bundle) = B
          BY <1>5, <2>1, <2>4, <2>9, <5>1
        <5>3. Cardinality(seen) >= B
          BY <1>5, <4>3, <5>2
        <5>4. QED BY <3>1, <5>3
      <4>5. CASE rest = ordinary
        <5>1. f \notin SF
          BY <2>2, <2>6, <2>13, <4>1, <4>5
        <5>2. Cardinality(SF) = B
          BY <1>7, <2>13, <5>1
        <5>3. Cardinality(rest) >= B - Cardinality(T)
          BY <1>5, <2>4, <2>6, <4>5, <5>2
        <5>4. Cardinality(bundle) >= B
          BY <1>5, <2>4, <2>7, <2>9, <4>1, <5>3
        <5>5. Cardinality(seen) >= B
          BY <4>3, <5>4
        <5>6. QED BY <3>1, <5>5
      <4>6. QED BY <4>4, <4>5
    <3>6. QED BY <3>4, <3>5
  <2>14. QED BY <2>11, <2>12, <2>13
<1>12. QED BY <1>10, <1>11

---------------------------------------------------------------------------
(* Whose turn it is.                                                     *)

\* Who is asked before whom, as a set of pairs.
Turns(p) == {q \in Audience \X Audience : Before(p, q[1], q[2])}

\* A pool whose viewers may have spoken at any time; only E of them may be asked.
PoolOf(p, E) == p \in [eligible : {E}, persona : [Audience -> Personas], spoke : [Audience -> Nat]]

\* Viewers have turns: Before is a strict total order, and LeastRecent takes its first.
LEMMA TurnsOrder ==
  ASSUME NEW p, NEW E \in SUBSET Audience, PoolOf(p, E), NEW S \in SUBSET Audience, NEW n \in Nat
  PROVE  Orders(Turns(p), S) /\ LeastRecent(p, S, n) = Ahead(Turns(p), S, n)
<1>1. p.spoke \in [Audience -> Nat] /\ Audience \subseteq Nat
  BY LimitsAreNumbers DEF PoolOf, Audience
<1>2. PICK t \in [Audience -> Nat] : t = p.spoke
  BY <1>1
<1>3. \A u, v \in Audience : <<u, v>> \in Turns(p) <=> (t[u] < t[v] \/ (t[u] = t[v] /\ u < v))
  BY <1>2 DEF Turns, Before
<1>4. Orders(Turns(p), S)
  <2>1. ASSUME NEW a \in S PROVE <<a, a>> \notin Turns(p)
    <3>1. a \in Audience /\ a \in Nat /\ t[a] \in Nat
      BY <1>1
    <3>2. QED BY <1>3, <3>1
  <2>2. ASSUME NEW a \in S, NEW b \in S PROVE a = b \/ <<a, b>> \in Turns(p) \/ <<b, a>> \in Turns(p)
    <3>1. a \in Audience /\ b \in Audience /\ a \in Nat /\ b \in Nat /\ t[a] \in Nat /\ t[b] \in Nat
      BY <1>1
    <3>2. QED BY <1>3, <3>1
  <2>3. ASSUME NEW a \in S, NEW b \in S, NEW c \in S, <<a, b>> \in Turns(p), <<b, c>> \in Turns(p)
        PROVE <<a, c>> \in Turns(p)
    <3>1. /\ a \in Audience /\ b \in Audience /\ c \in Audience
          /\ a \in Nat /\ b \in Nat /\ c \in Nat /\ t[a] \in Nat /\ t[b] \in Nat /\ t[c] \in Nat
      BY <1>1
    <3>2. QED BY <1>3, <2>3, <3>1
  <2>4. QED BY <2>1, <2>2, <2>3 DEF Orders
<1>5. \A v \in S : {u \in S : Before(p, u, v)} = Preceding(Turns(p), S, v)
  BY DEF Turns, Preceding
<1>6. QED BY <1>4, <1>5 DEF LeastRecent, Ahead

\* As many take their turn as are asked for, or all, and nobody before somebody whose turn is earlier.
LEMMA TurnsTaken ==
  ASSUME NEW p, NEW E \in SUBSET Audience, PoolOf(p, E), NEW S \in SUBSET Audience, NEW n \in Nat
  PROVE  /\ LeastRecent(p, S, n) \subseteq S /\ IsFiniteSet(LeastRecent(p, S, n))
         /\ IF n <= Cardinality(S) THEN Cardinality(LeastRecent(p, S, n)) = n ELSE LeastRecent(p, S, n) = S
         /\ \A e \in LeastRecent(p, S, n), d \in S \ LeastRecent(p, S, n) : Before(p, e, d)
<1>1. Orders(Turns(p), S) /\ LeastRecent(p, S, n) = Ahead(Turns(p), S, n)
  BY TurnsOrder
<1>2. IsFiniteSet(S)
  BY LimitsAreNumbers, NumbersFinite DEF Audience
<1>3. /\ Ahead(Turns(p), S, n) \subseteq S /\ IsFiniteSet(Ahead(Turns(p), S, n))
      /\ IF n <= Cardinality(S) THEN Cardinality(Ahead(Turns(p), S, n)) = n ELSE Ahead(Turns(p), S, n) = S
  BY <1>1, <1>2, AheadCounts
<1>4. \A e \in Ahead(Turns(p), S, n), d \in S \ Ahead(Turns(p), S, n) : <<e, d>> \in Turns(p)
  BY <1>1, <1>2, AheadIsBefore
<1>5. QED BY <1>1, <1>3, <1>4 DEF Turns

\* Without a target a wave that is not of the screen asks those whose turn it is.
Asked(p, kind) == UNION Speakers(p, {}, kind)

LEMMA AskedInTurn ==
  ASSUME NEW p, NEW kind \in {"input", "ambient"}
  PROVE  Asked(p, kind) = LeastRecent(p, p.eligible, Budget[kind])
<1>1. Speakers(p, {}, kind) = {LeastRecent(p, p.eligible, Budget[kind])}
  BY DEF Speakers
<1>2. QED BY <1>1 DEF Asked

\* One wave of Rotates.
WaveStep(g, pool, kind, n) == IF n = 0 THEN pool ELSE Spoken(g[n - 1], UNION Speakers(g[n - 1], {}, kind), 2 + n)

\* The recursion of Rotates has a solution, found as that of Excluding was.
LEMMA WavesExist ==
  ASSUME NEW pool, NEW kind, NEW N \in Nat
  PROVE  \E g : g = [n \in 0..N |-> WaveStep(g, pool, kind, n)]
<1> DEFINE T == {m \in Nat : \E g : g = [n \in 0..m |-> WaveStep(g, pool, kind, n)]}
<1>1. 0 \in T
  <2> DEFINE g == [n \in 0..0 |-> pool]
  <2>1. g = [n \in 0..0 |-> WaveStep(g, pool, kind, n)]
    BY DEF WaveStep
  <2>2. QED BY <2>1
<1>2. ASSUME NEW m \in T PROVE m + 1 \in T
  <2>1. m \in Nat
    OBVIOUS
  <2>2. PICK g : g = [n \in 0..m |-> WaveStep(g, pool, kind, n)]
    OBVIOUS
  <2> DEFINE h == [n \in 0..m+1 |-> IF n <= m THEN g[n] ELSE WaveStep(g, pool, kind, n)]
  <2>3. ASSUME NEW n \in 0..m+1 PROVE h[n] = WaveStep(h, pool, kind, n)
    <3>1. n = 0 \/ (n - 1 \in 0..m /\ h[n-1] = g[n-1])
      BY <2>1
    <3>2. WaveStep(h, pool, kind, n) = WaveStep(g, pool, kind, n)
      <4>1. PICK x, y : x = h[n-1] /\ y = g[n-1]
        OBVIOUS
      <4>2. n = 0 \/ x = y
        BY <3>1, <4>1
      <4> HIDE DEF h
      <4>3. QED BY <4>1, <4>2 DEF WaveStep
    <3>3. h[n] = WaveStep(g, pool, kind, n)
      <4>1. CASE n <= m
        BY <2>1, <2>2, <4>1
      <4>2. CASE ~(n <= m)
        BY <4>2
      <4>3. QED BY <4>1, <4>2
    <3>4. QED BY <3>2, <3>3
  <2>4. h = [n \in 0..m+1 |-> WaveStep(h, pool, kind, n)]
    BY <2>3
  <2> HIDE DEF h
  <2>5. \E x : x = [n \in 0..m+1 |-> WaveStep(x, pool, kind, n)]
    BY <2>4
  <2>6. QED BY <2>1, <2>5
<1>3. T \in SUBSET Nat
  OBVIOUS
<1> HIDE DEF T
<1>4. T = Nat
  BY <1>1, <1>2, <1>3, Inductive
<1>5. N \in T
  BY <1>4
<1>6. QED BY <1>5 DEF T

\* Whoever was asked before the n-th wave.
Heard(g, kind, n) == UNION {UNION Speakers(g[k], {}, kind) : k \in 0..(n - 1)}

\* Those heard so far, and nobody else, spoke after all who were not; they are at least as many as there were waves.
Round(g, E, kind, n) ==
  /\ PoolOf(g[n], E)
  /\ Heard(g, kind, n) \subseteq E
  /\ \A v \in Audience : v \in Heard(g, kind, n) <=> g[n].spoke[v] > 2
  /\ Heard(g, kind, n) = E \/ n <= Cardinality(Heard(g, kind, n))

\* Having spoken changes the time of those who did, and nothing else.
LEMMA SpokenPool ==
  ASSUME NEW p, NEW E \in SUBSET Audience, PoolOf(p, E), NEW S \in SUBSET Audience, NEW now \in Nat
  PROVE  /\ PoolOf(Spoken(p, S, now), E)
         /\ \A v \in Audience : Spoken(p, S, now).spoke[v] = IF v \in S THEN now ELSE p.spoke[v]
<1>1. p.spoke \in [Audience -> Nat]
  BY DEF PoolOf
<1>2. [v \in Audience |-> IF v \in S THEN now ELSE p.spoke[v]] \in [Audience -> Nat]
  BY <1>1
<1>3. Spoken(p, S, now) = [p EXCEPT !.spoke = [v \in Audience |-> IF v \in S THEN now ELSE p.spoke[v]]]
  BY DEF Spoken
<1>4. QED BY <1>2, <1>3 DEF PoolOf

\* Each wave asks somebody who was not heard, as long as there is one.
LEMMA SomebodyNew ==
  ASSUME NEW p, NEW E \in SUBSET Audience, PoolOf(p, E), NEW kind \in {"input", "ambient"}, Budget[kind] \in Nat,
         Budget[kind] > 0, NEW H \in SUBSET E, H # E, \A v \in Audience : v \in H <=> p.spoke[v] > 2
  PROVE  \E v \in Asked(p, kind) : v \in E \ H
<1>1. PICK B, A : B = Budget[kind] /\ A = LeastRecent(p, E, B)
  OBVIOUS
<1>2. Asked(p, kind) = A
  <2>1. p.eligible = E
    BY DEF PoolOf
  <2>2. QED BY <1>1, <2>1, AskedInTurn
<1>3. /\ A \subseteq E
      /\ IF B <= Cardinality(E) THEN Cardinality(A) = B ELSE A = E
      /\ \A e \in A, d \in E \ A : Before(p, e, d)
  BY <1>1, TurnsTaken
<1>4. B \in Nat /\ B > 0
  BY <1>1
<1>5. A # {}
  <2>1. SUFFICES ASSUME A = {} PROVE FALSE
    OBVIOUS
  <2>2. Cardinality(A) = 0
    BY <2>1, FS_EmptySet
  <2>3. E # {}
    OBVIOUS
  <2>4. QED BY <1>3, <1>4, <2>1, <2>2, <2>3
<1>6. SUFFICES ASSUME A \subseteq H PROVE FALSE
  BY <1>2, <1>3
<1>7. PICK e \in A, d \in E \ H : d \notin A
  BY <1>5, <1>6
<1>8. Before(p, e, d)
  BY <1>3, <1>7
<1>9. e \in Audience /\ d \in Audience /\ p.spoke[e] > 2 /\ ~(p.spoke[d] > 2)
  BY <1>6, <1>7
<1>10. p.spoke[e] \in Nat /\ p.spoke[d] \in Nat
  BY <1>9 DEF PoolOf
<1>11. QED BY <1>8, <1>9, <1>10 DEF Before

\* One more wave keeps this.
LEMMA RoundStep ==
  ASSUME NEW g, NEW E \in SUBSET Audience, NEW kind \in {"input", "ambient"}, Budget[kind] \in Nat, Budget[kind] > 0,
         NEW n \in Nat, Round(g, E, kind, n),
         g[n + 1] = Spoken(g[n], UNION Speakers(g[n], {}, kind), 2 + (n + 1))
  PROVE  Round(g, E, kind, n + 1)
<1>1. PICK p, q, H, A : p = g[n] /\ q = g[n + 1] /\ H = Heard(g, kind, n) /\ A = Asked(p, kind)
  OBVIOUS
<1>2. /\ PoolOf(p, E) /\ H \subseteq E
      /\ \A v \in Audience : v \in H <=> p.spoke[v] > 2
      /\ H = E \/ n <= Cardinality(H)
  BY <1>1 DEF Round
<1>3. A \subseteq E
  <2>1. p.eligible = E
    BY <1>2 DEF PoolOf
  <2>2. A = LeastRecent(p, E, Budget[kind])
    BY <1>1, <2>1, AskedInTurn
  <2>3. QED BY <1>2, <2>2, TurnsTaken
<1>4. q = Spoken(p, A, n + 3)
  <2>1. 2 + (n + 1) = n + 3
    OBVIOUS
  <2>2. QED BY <1>1, <2>1 DEF Asked
<1>5. PoolOf(q, E) /\ \A v \in Audience : q.spoke[v] = IF v \in A THEN n + 3 ELSE p.spoke[v]
  <2>1. n + 3 \in Nat /\ A \in SUBSET Audience
    BY <1>3
  <2>2. QED BY <1>2, <1>4, <2>1, SpokenPool
<1>6. Heard(g, kind, n + 1) = H \cup A
  <2>1. 0..((n + 1) - 1) = 0..(n - 1) \cup {n}
    OBVIOUS
  <2>2. QED BY <1>1, <2>1 DEF Heard, Asked
<1>7. \A v \in Audience : v \in H \cup A <=> q.spoke[v] > 2
  <2>1. ASSUME NEW v \in Audience PROVE v \in H \cup A <=> q.spoke[v] > 2
    <3>1. CASE v \in A
      <4>1. q.spoke[v] = n + 3
        BY <1>5, <3>1
      <4>2. QED BY <3>1, <4>1
    <3>2. CASE v \notin A
      BY <1>2, <1>5, <3>2
    <3>3. QED BY <3>1, <3>2
  <2>2. QED BY <2>1
<1>8. H \cup A = E \/ n + 1 <= Cardinality(H \cup A)
  <2>1. IsFiniteSet(E) /\ IsFiniteSet(H) /\ IsFiniteSet(H \cup A)
    <3>1. IsFiniteSet(E)
      BY LimitsAreNumbers, NumbersFinite DEF Audience
    <3>2. QED BY <1>2, <1>3, <3>1, FS_Subset
  <2>2. SUFFICES ASSUME H \cup A # E PROVE n + 1 <= Cardinality(H \cup A)
    OBVIOUS
  <2>3. H # E /\ n <= Cardinality(H)
    BY <1>2, <1>3, <2>2
  <2>4. PICK v \in A : v \in E \ H
    BY <1>1, <1>2, <2>3, SomebodyNew
  <2>5. IsFiniteSet(H \cup {v}) /\ Cardinality(H \cup {v}) = Cardinality(H) + 1
    BY <2>1, <2>4, FS_AddElement
  <2>6. Cardinality(H \cup {v}) <= Cardinality(H \cup A)
    <3>1. H \cup {v} \subseteq H \cup A
      BY <2>4
    <3>2. QED BY <2>1, <3>1, FS_Subset
  <2>7. Cardinality(H) \in Nat /\ Cardinality(H \cup A) \in Nat
    BY <2>1, FS_CardinalityType
  <2>8. QED BY <2>3, <2>5, <2>6, <2>7
<1>9. H \cup A \subseteq E
  BY <1>2, <1>3
<1>10. QED BY <1>1, <1>5, <1>6, <1>7, <1>8, <1>9 DEF Round

\* _decide_speakers and record_published: after as many waves as viewers, all who may be have been asked.
LEMMA EverybodyInTurn ==
  ASSUME NEW pool \in Pools, NEW kind \in {"input", "ambient"}, Budget[kind] > 0
  PROVE  Rotates(pool, kind)
<1>1. PICK E, N : E = pool.eligible /\ N = MaxViewers
  OBVIOUS
<1>2. E \in SUBSET Audience /\ N \in Nat /\ IsFiniteSet(E) /\ Cardinality(E) \in Nat /\ Cardinality(E) <= N
  BY <1>1, LimitsAreNumbers, NumbersFinite DEF Pools, Audience
<1>3. Budget[kind] \in Nat
  BY LimitsAreNumbers DEF Budget
<1> DEFINE g == CHOOSE g : g = [n \in 0..N |-> WaveStep(g, pool, kind, n)]
<1>4. g = [n \in 0..N |-> WaveStep(g, pool, kind, n)]
  BY <1>2, WavesExist
<1>5. Rotates(pool, kind) <=> Heard(g, kind, N) = E
  BY <1>1 DEF Rotates, WaveStep, Heard
<1> HIDE DEF g
<1> DEFINE T == {m \in Nat : m <= N => Round(g, E, kind, m)}
<1>6. 0 \in T
  <2>1. g[0] = pool
    BY <1>2, <1>4 DEF WaveStep
  <2>2. PoolOf(pool, E)
    <3>1. [Audience -> 0..2] \subseteq [Audience -> Nat]
      OBVIOUS
    <3>2. QED BY <1>1, <3>1 DEF Pools, PoolOf
  <2>3. Heard(g, kind, 0) = {}
    <3>1. 0..(0 - 1) = {}
      OBVIOUS
    <3>2. QED BY <3>1 DEF Heard
  <2>4. \A v \in Audience : ~(pool.spoke[v] > 2)
    <3>1. pool.spoke \in [Audience -> 0..2]
      BY DEF Pools
    <3>2. \A v \in Audience : pool.spoke[v] \in 0..2
      BY <3>1
    <3>3. QED BY <3>2
  <2>5. Cardinality({}) = 0
    BY FS_EmptySet
  <2>6. Round(g, E, kind, 0)
    BY <2>1, <2>2, <2>3, <2>4, <2>5 DEF Round
  <2>7. QED BY <2>6
<1>7. ASSUME NEW m \in T PROVE m + 1 \in T
  <2>1. m \in Nat
    OBVIOUS
  <2>2. SUFFICES ASSUME m + 1 <= N PROVE Round(g, E, kind, m + 1)
    BY <2>1
  <2>3. Round(g, E, kind, m)
    BY <1>2, <2>1, <2>2
  <2>4. g[m + 1] = Spoken(g[m], UNION Speakers(g[m], {}, kind), 2 + (m + 1))
    <3>1. m + 1 \in 0..N /\ m + 1 # 0 /\ (m + 1) - 1 = m
      BY <1>2, <2>1, <2>2
    <3>2. g[m + 1] = WaveStep(g, pool, kind, m + 1)
      BY <1>4, <3>1
    <3>3. QED BY <3>1, <3>2 DEF WaveStep
  <2>5. QED BY <1>2, <1>3, <2>1, <2>3, <2>4, RoundStep
<1>8. T \in SUBSET Nat
  OBVIOUS
<1> HIDE DEF T
<1>9. T = Nat
  BY <1>6, <1>7, <1>8, Inductive
<1>10. Round(g, E, kind, N)
  BY <1>2, <1>9 DEF T
<1>11. Heard(g, kind, N) \subseteq E /\ (Heard(g, kind, N) = E \/ N <= Cardinality(Heard(g, kind, N)))
  BY <1>10 DEF Round
<1>12. Heard(g, kind, N) = E
  <2>1. PICK H : H = Heard(g, kind, N)
    OBVIOUS
  <2>2. SUFFICES ASSUME H # E PROVE FALSE
    BY <2>1
  <2>3. H \subseteq E /\ N <= Cardinality(H)
    BY <1>11, <2>1, <2>2
  <2>4. IsFiniteSet(H) /\ Cardinality(H) <= Cardinality(E) /\ Cardinality(E) # Cardinality(H)
    BY <1>2, <2>2, <2>3, FS_Subset
  <2>5. Cardinality(H) \in Nat
    BY <2>4, FS_CardinalityType
  <2>6. QED BY <1>2, <2>3, <2>4, <2>5
<1>13. QED BY <1>5, <1>12

\* _decide_speakers: nobody away or muted is asked, one at most who is addressed, and all take turns.
LEMMA SpeakersAreSound == SpeakersSound
<1>1. SUFFICES ASSUME NEW pool \in Pools
      PROVE  /\ \A kind \in {"input", "ambient"} : Budget[kind] > 0 => Rotates(pool, kind)
             /\ \A target \in {{}} \cup {{t} : t \in Targets}, kind \in WaveKinds :
                  \A asked \in Speakers(pool, target, kind) :
                      /\ asked \subseteq pool.eligible
                      /\ target # {} => Cardinality(asked) <= 1
  BY DEF SpeakersSound
<1>2. \A kind \in {"input", "ambient"} : Budget[kind] > 0 => Rotates(pool, kind)
  BY EverybodyInTurn
<1>3. ASSUME NEW target \in {{}} \cup {{t} : t \in Targets}, NEW kind \in WaveKinds,
             NEW asked \in Speakers(pool, target, kind)
      PROVE  asked \subseteq pool.eligible /\ (target # {} => Cardinality(asked) <= 1)
  <2>1. PICK E : E = pool.eligible
    OBVIOUS
  <2>2. E \in SUBSET Audience /\ PoolOf(pool, E)
    <3>1. [Audience -> 0..2] \subseteq [Audience -> Nat]
      OBVIOUS
    <3>2. QED BY <2>1, <3>1 DEF Pools, PoolOf
  <2>3. CASE \E v \in Audience : <<"viewer", v>> \in target
    <3>1. asked = {v \in E : <<"viewer", v>> \in target}
      BY <2>1, <2>3 DEF Speakers
    <3>2. PICK v \in Audience : target = {<<"viewer", v>>}
      BY <2>3
    <3>3. asked \subseteq {v}
      BY <3>1, <3>2
    <3>4. Cardinality({v}) = 1 /\ IsFiniteSet({v})
      BY FS_Singleton
    <3>5. Cardinality(asked) <= 1
      BY <3>3, <3>4, FS_Subset
    <3>6. QED BY <2>1, <3>1, <3>5
  <2>4. CASE target # {} /\ ~\E v \in Audience : <<"viewer", v>> \in target
    <3>1. PICK S : S = {v \in E : <<"persona", pool.persona[v]>> \in target}
      OBVIOUS
    <3>2. asked = LeastRecent(pool, S, 1)
      BY <2>1, <2>4, <3>1 DEF Speakers
    <3>3. S \in SUBSET Audience /\ S \subseteq E
      BY <2>2, <3>1
    <3>4. /\ asked \subseteq S
          /\ IF 1 <= Cardinality(S) THEN Cardinality(asked) = 1 ELSE asked = S
      <4>1. 1 \in Nat
        OBVIOUS
      <4>2. QED BY <2>2, <3>2, <3>3, <4>1, TurnsTaken
    <3>5. Cardinality(S) \in Nat
      BY <3>3, LimitsAreNumbers, NumbersFinite DEF Audience
    <3>6. QED BY <2>1, <3>3, <3>4, <3>5
  <2>5. CASE target = {} /\ kind = "screen"
    <3>1. ~\E v \in Audience : <<"viewer", v>> \in target
      BY <2>5
    <3>2. asked \in SUBSET pool.eligible
      BY <2>5, <3>1 DEF Speakers
    <3>3. QED BY <2>5, <3>2
  <2>6. CASE target = {} /\ kind # "screen"
    <3>1. kind \in {"input", "ambient"}
      BY <2>6 DEF WaveKinds, Budget
    <3>2. asked = LeastRecent(pool, E, Budget[kind]) /\ Budget[kind] \in Nat
      BY <2>1, <2>6, <3>1, LimitsAreNumbers DEF Speakers, Budget
    <3>3. asked \subseteq E
      BY <2>2, <3>2, TurnsTaken
    <3>4. QED BY <2>1, <2>6, <3>3
  <2>7. QED BY <2>3, <2>4, <2>5, <2>6
<1>4. QED BY <1>2, <1>3

---------------------------------------------------------------------------
(* Who is addressed.                                                     *)

\* What the lines numbered s have gathered, by the newest of them.
GatherStep(lines, g, s) == IF s = {} THEN {} ELSE Gathered(g[s \ {Max(s)}], lines[Max(s)])

\* The fold over the lines is a recursion over the numbers of the lines.
LEMMA FoldGathers ==
  ASSUME NEW lines
  PROVE  FoldLeft(Gathered, {}, lines)
           = (CHOOSE g : g = [s \in SUBSET DOMAIN lines |-> GatherStep(lines, g, s)])[DOMAIN lines]
BY DEF FoldLeft, MapThenFoldSet, GatherStep

\* What the first one, two and three of the lines in s have gathered.
Upto1(lines, s) == IF 1 \in s THEN Gathered({}, lines[1]) ELSE {}
Upto2(lines, s) == IF 2 \in s THEN Gathered(Upto1(lines, s), lines[2]) ELSE Upto1(lines, s)
Upto3(lines, s) == IF 3 \in s THEN Gathered(Upto2(lines, s), lines[3]) ELSE Upto2(lines, s)

\* The last of them is a solution of that recursion for up to three lines.
LEMMA UptoSteps ==
  ASSUME NEW lines, NEW s \in SUBSET (1..3)
  PROVE  Upto3(lines, s) = IF s = {} THEN {} ELSE Gathered(Upto3(lines, s \ {Max(s)}), lines[Max(s)])
<1>1. CASE s = {}
  BY <1>1 DEF Upto1, Upto2, Upto3
<1>2. CASE s # {}
  <2>1. PICK m : m = Max(s)
    OBVIOUS
  <2>2. m \in s /\ \A d \in s : d <= m
    <3>1. IsFiniteSet(s) /\ s \in SUBSET Nat
      <4>1. 3 \in Nat
        OBVIOUS
      <4>2. QED BY <4>1, NumbersFinite
    <3>2. QED BY <1>2, <2>1, <3>1, MaxFacts
  <2>3. m \in 1..3
    BY <2>2
  <2>4. CASE m = 1
    <3>1. 1 \in s /\ 2 \notin s /\ 3 \notin s
      BY <2>2, <2>4
    <3>2. 1 \notin s \ {1} /\ 2 \notin s \ {1} /\ 3 \notin s \ {1}
      BY <3>1
    <3>3. Upto3(lines, s) = Gathered({}, lines[1]) /\ Upto3(lines, s \ {1}) = {}
      BY <3>1, <3>2 DEF Upto1, Upto2, Upto3
    <3>4. QED BY <1>2, <2>1, <2>4, <3>3
  <2>5. CASE m = 2
    <3>1. 2 \in s /\ 3 \notin s
      BY <2>2, <2>5
    <3>2. 2 \notin s \ {2} /\ 3 \notin s \ {2} /\ (1 \in s <=> 1 \in s \ {2})
      BY <3>1
    <3>3. Upto3(lines, s) = Gathered(Upto1(lines, s), lines[2]) /\ Upto3(lines, s \ {2}) = Upto1(lines, s)
      BY <3>1, <3>2 DEF Upto1, Upto2, Upto3
    <3>4. QED BY <1>2, <2>1, <2>5, <3>3
  <2>6. CASE m = 3
    <3>1. 3 \in s
      BY <2>2, <2>6
    <3>2. 3 \notin s \ {3} /\ (1 \in s <=> 1 \in s \ {3}) /\ (2 \in s <=> 2 \in s \ {3})
      BY <3>1
    <3>3. Upto3(lines, s) = Gathered(Upto2(lines, s), lines[3]) /\ Upto3(lines, s \ {3}) = Upto2(lines, s)
      BY <3>1, <3>2 DEF Upto1, Upto2, Upto3
    <3>4. QED BY <1>2, <2>1, <2>6, <3>3
  <2>7. QED BY <2>3, <2>4, <2>5, <2>6
<1>3. QED BY <1>1, <1>2

\* Up to three lines gather one after the other.
LEMMA ThreeGather ==
  ASSUME NEW lines, NEW N \in 1..3, DOMAIN lines = 1..N
  PROVE  FoldLeft(Gathered, {}, lines) = Upto3(lines, 1..N)
<1> DEFINE h == [s \in SUBSET (1..N) |-> Upto3(lines, s)]
<1> DEFINE g == CHOOSE g : g = [s \in SUBSET (1..N) |-> GatherStep(lines, g, s)]
<1>1. 1..N \subseteq 1..3
  OBVIOUS
<1>2. h = [s \in SUBSET (1..N) |-> GatherStep(lines, h, s)]
  <2>1. ASSUME NEW s \in SUBSET (1..N) PROVE Upto3(lines, s) = GatherStep(lines, h, s)
    <3>1. PICK m : m = Max(s)
      OBVIOUS
    <3>2. h[s \ {m}] = Upto3(lines, s \ {m})
      OBVIOUS
    <3>3. s \in SUBSET (1..3)
      BY <1>1
    <3>4. Upto3(lines, s) = IF s = {} THEN {} ELSE Gathered(Upto3(lines, s \ {m}), lines[m])
      BY <3>1, <3>3, UptoSteps
    <3> HIDE DEF h
    <3>5. QED BY <3>1, <3>2, <3>4 DEF GatherStep
  <2>2. QED BY <2>1
<1>3. FoldLeft(Gathered, {}, lines) = g[1..N]
  BY FoldGathers
<1> HIDE DEF h
<1>4. g = [s \in SUBSET (1..N) |-> GatherStep(lines, g, s)]
  BY <1>2
<1> HIDE DEF g
<1>5. ASSUME NEW s \in SUBSET (1..N) PROVE g[s] = IF s = {} THEN {} ELSE Gathered(g[s \ {Max(s)}], lines[Max(s)])
  BY <1>4 DEF GatherStep
<1> DEFINE T == {n \in Nat : n <= N => g[1..n] = Upto3(lines, 1..n)}
<1>6. 0 \in T
  <2>1. 1..0 = {} /\ {} \in SUBSET (1..N)
    OBVIOUS
  <2>2. g[{}] = {}
    BY <1>5
  <2>3. Upto3(lines, {}) = {}
    BY DEF Upto1, Upto2, Upto3
  <2>4. QED BY <2>1, <2>2, <2>3
<1>7. ASSUME NEW n \in T PROVE n + 1 \in T
  <2>1. n \in Nat
    OBVIOUS
  <2>2. SUFFICES ASSUME n + 1 <= N PROVE g[1..(n + 1)] = Upto3(lines, 1..(n + 1))
    BY <2>1
  <2>3. g[1..n] = Upto3(lines, 1..n)
    BY <2>1, <2>2
  <2>4. PICK s : s = 1..(n + 1)
    OBVIOUS
  <2>5. s \in SUBSET (1..N) /\ s \in SUBSET (1..3) /\ s # {} /\ s \ {n + 1} = 1..n
    BY <1>1, <2>1, <2>2, <2>4
  <2>6. Max(s) = n + 1
    <3>1. IsFiniteSet(s) /\ s \in SUBSET Nat
      <4>1. 3 \in Nat
        OBVIOUS
      <4>2. QED BY <2>5, <4>1, NumbersFinite
    <3>2. PICK m : m = Max(s)
      OBVIOUS
    <3>3. m \in s /\ \A d \in s : d <= m
      BY <2>5, <3>1, <3>2, MaxFacts
    <3>4. m \in Nat /\ m <= n + 1 /\ n + 1 <= m
      BY <2>1, <2>4, <3>3
    <3>5. m = n + 1
      BY <2>1, <3>4
    <3>6. QED BY <3>2, <3>5
  <2>7. g[s] = Gathered(g[1..n], lines[n + 1]) /\ Upto3(lines, s) = Gathered(Upto3(lines, 1..n), lines[n + 1])
    <3>1. PICK m, r : m = n + 1 /\ r = 1..n
      OBVIOUS
    <3>2. Max(s) = m /\ s \ {m} = r /\ s # {} /\ s \in SUBSET (1..N) /\ s \in SUBSET (1..3)
      BY <2>5, <2>6, <3>1
    <3>3. g[s] = Gathered(g[s \ {Max(s)}], lines[Max(s)])
      BY <1>5, <3>2
    <3>4. Upto3(lines, s) = Gathered(Upto3(lines, s \ {Max(s)}), lines[Max(s)])
      BY <3>2, UptoSteps
    <3>5. QED BY <3>1, <3>2, <3>3, <3>4
  <2>8. QED BY <2>3, <2>4, <2>7
<1>8. T \in SUBSET Nat
  OBVIOUS
<1> HIDE DEF T
<1>9. T = Nat
  BY <1>6, <1>7, <1>8, Inductive
<1>10. g[1..N] = Upto3(lines, 1..N)
  BY <1>9 DEF T
<1>11. QED BY <1>3, <1>10

\* What one line names: nobody, or one viewer or persona alone.
NamesOne(a) == a \subseteq Targets /\ IsFiniteSet(a) /\ Cardinality(a) \in {0, 1}

\* The transcript resolver never names two.
LEMMA LinesNameOne ==
  ASSUME NEW a \in {Named(ids, {}, {}) : ids \in SUBSET Targets}
  PROVE  NamesOne(a)
<1>1. PICK ids \in SUBSET Targets : a = Named(ids, {}, {})
  OBVIOUS
<1>2. a = {} \/ (a = ids /\ Cardinality(ids) = 1)
  BY <1>1 DEF Named
<1>3. CASE a = {}
  BY <1>3, FS_EmptySet DEF NamesOne
<1>4. CASE a = ids /\ Cardinality(ids) = 1
  <2>1. IsFiniteSet(Targets)
    <3>1. IsFiniteSet(Audience) /\ IsFiniteSet(Personas) /\ IsFiniteSet({"viewer"}) /\ IsFiniteSet({"persona"})
      <4>1. IsFiniteSet(1..MaxViewers)
        BY LimitsAreNumbers, FS_Interval
      <4>2. IsFiniteSet({1} \cup {2})
        BY FS_Singleton, FS_Union
      <4>3. {1} \cup {2} = {1, 2}
        OBVIOUS
      <4>4. QED BY <4>1, <4>2, <4>3, FS_Singleton DEF Audience, Personas
    <3>2. IsFiniteSet({"viewer"} \X Audience) /\ IsFiniteSet({"persona"} \X Personas)
      BY <3>1, FS_Product
    <3>3. QED BY <3>2, FS_Union DEF Targets
  <2>2. IsFiniteSet(ids)
    BY <2>1, FS_Subset
  <2>3. QED BY <1>4, <2>2 DEF NamesOne
<1>5. QED BY <1>2, <1>3, <1>4

\* What several lines name, taken together, as a set that is large or not.
Few(V) == Cardinality(V) <= 1
Names(V) == V \subseteq Targets /\ IsFiniteSet(V)

\* A target is chosen exactly if there are few.
LEMMA FewFacts ==
  ASSUME NEW V, Names(V)
  PROVE  /\ Cardinality(V) \in Nat
         /\ \A W \in SUBSET V : Names(W) /\ (Few(V) => Few(W))
         /\ Only(V) \subseteq V /\ (Few(V) => Only(V) = V) /\ (~Few(V) => Only(V) = {})
<1>1. Cardinality(V) \in Nat
  BY FS_CardinalityType DEF Names
<1>2. ASSUME NEW W \in SUBSET V PROVE Names(W) /\ (Few(V) => Few(W))
  <2>1. IsFiniteSet(W) /\ Cardinality(W) <= Cardinality(V)
    BY FS_Subset DEF Names
  <2>2. Cardinality(W) \in Nat
    BY <2>1, FS_CardinalityType
  <2>3. QED BY <1>1, <2>1, <2>2 DEF Names, Few
<1>3. Cardinality(V) = 0 => V = {}
  BY FS_EmptySet DEF Names
<1>4. /\ Only(V) \subseteq V
      /\ Few(V) => Only(V) = V
      /\ ~Few(V) => Only(V) = {}
  BY <1>1, <1>3 DEF Only, Few
<1>5. QED BY <1>1, <1>2, <1>4

\* An observation that stands for what V names.
StandsFor(o, V) ==
  /\ o.called = V /\ o.target \subseteq V
  /\ Few(V) => o.target = V
  /\ o.ambiguous \in BOOLEAN /\ (o.ambiguous => ~Few(V))

\* Its wave is for the one named, or for nobody in particular.
LEMMA StandsTarget ==
  ASSUME NEW o, NEW V, Names(V), StandsFor(o, V) PROVE Target(o) = Only(V)
<1>1. Few(V) <=> ~(Cardinality(V) > 1)
  BY FewFacts DEF Few
<1>2. CASE ~Few(V)
  BY <1>1, <1>2, FewFacts DEF Target, StandsFor
<1>3. CASE Few(V)
  <2>1. o.called = V /\ o.target = V /\ ~o.ambiguous /\ ~(Cardinality(V) > 1)
    BY <1>1, <1>3 DEF StandsFor
  <2>2. Target(o) = UNION {{t \in V : t[1] = kind} : kind \in {"viewer", "persona"}}
    BY <2>1 DEF Target
  <2>3. ASSUME NEW t \in V PROVE t[1] \in {"viewer", "persona"}
    BY DEF Names, Targets
  <2>4. Target(o) = V
    BY <2>2, <2>3
  <2>5. QED BY <1>3, <2>4, FewFacts
<1>4. QED BY <1>2, <1>3

\* Merging observations merges what they stand for.
LEMMA StandsMerged ==
  ASSUME NEW x, NEW V, Names(V), StandsFor(x, V), NEW y, NEW W, Names(W), StandsFor(y, W)
  PROVE  Names(V \cup W) /\ StandsFor(Merged(x, y), V \cup W)
<1>1. Names(V \cup W)
  BY FS_Union DEF Names
<1>2. PICK U : U = V \cup W
  OBVIOUS
<1>3. x.target \cup y.target \cup x.called \cup y.called = U /\ x.called \cup y.called = U
  BY <1>2 DEF StandsFor
<1>4. PICK dubious : dubious = (x.ambiguous \/ y.ambiguous \/ Cardinality(U) > 1)
  OBVIOUS
<1>5. Merged(x, y) = [called |-> U, target |-> IF dubious THEN {} ELSE Only(U), ambiguous |-> dubious]
  BY <1>3, <1>4 DEF Merged
<1>6. Few(U) <=> ~(Cardinality(U) > 1)
  BY <1>1, <1>2, FewFacts DEF Few
<1>7. Few(U) => Few(V) /\ Few(W)
  BY <1>1, <1>2, FewFacts
<1>8. (dubious => ~Few(U)) /\ (~Few(U) => dubious)
  BY <1>4, <1>6, <1>7 DEF StandsFor
<1>9. dubious \in BOOLEAN
  BY <1>4
<1>10. Only(U) \subseteq U /\ (Few(U) => Only(U) = U)
  BY <1>1, <1>2, FewFacts
<1>11. StandsFor(Merged(x, y), U)
  BY <1>5, <1>8, <1>9, <1>10 DEF StandsFor
<1>12. QED BY <1>1, <1>2, <1>11

\* Gathering what is known with one more line: nothing is lost that would tell whether they differ.
Gathers(F, V) == Names(V) /\ F \subseteq V /\ (Few(V) => F = V) /\ (Few(F) => F = V)

\* And one more line keeps this.
LEMMA GathersStep ==
  ASSUME NEW F, NEW V, Gathers(F, V), NEW a, NamesOne(a) PROVE Gathers(Gathered(F, a), V \cup a)
<1>1. Names(V \cup a) /\ Names(V)
  BY FS_Union DEF Names, NamesOne, Gathers
<1>2. Few(V \cup a) => Few(V)
  BY <1>1, FewFacts
<1>3. Names(F) /\ Cardinality(F) \in Nat
  BY <1>1, FewFacts DEF Gathers
<1>4. Few(F) <=> Cardinality(F) < 2
  BY <1>3 DEF Few
<1>5. CASE Few(F)
  <2>1. Gathered(F, a) = V \cup a
    BY <1>4, <1>5 DEF Gathered, Gathers
  <2>2. QED BY <1>1, <2>1 DEF Gathers
<1>6. CASE ~Few(F)
  <2>1. Gathered(F, a) = F /\ ~Few(V)
    BY <1>4, <1>6 DEF Gathered, Gathers
  <2>2. QED BY <1>1, <1>2, <1>6, <2>1 DEF Gathers
<1>7. QED BY <1>5, <1>6

\* It holds before the first line.
LEMMA GathersNothing == Gathers({}, {})
BY FS_EmptySet DEF Gathers, Names

\* The observation of a delta stands for what its lines name together.
LEMMA GathersStands ==
  ASSUME NEW F, NEW V, Gathers(F, V), NEW lines, UNION ToSet(lines) = V, FoldLeft(Gathered, {}, lines) = F
  PROVE  StandsFor(Observed(lines), V)
<1>1. Observed(lines) = [called |-> V, target |-> Only(F), ambiguous |-> FALSE]
  BY DEF Observed
<1>2. Names(V) /\ F \in SUBSET V
  BY DEF Gathers
<1>3. Names(F)
  BY <1>2, FewFacts
<1>4. Only(F) \subseteq F /\ (Few(F) => Only(F) = F)
  BY <1>3, FewFacts
<1>5. Few(V) => Only(F) = V
  BY <1>4 DEF Gathers
<1>6. QED BY <1>1, <1>2, <1>4, <1>5 DEF StandsFor

\* The transcript delta and _merge_targets: lines address one viewer alone however they were batched.
LEMMA TargetsAreSound == TargetsSound
<1>1. SUFFICES ASSUME NEW a \in {Named(ids, {}, {}) : ids \in SUBSET Targets},
                      NEW b \in {Named(ids, {}, {}) : ids \in SUBSET Targets},
                      NEW c \in {Named(ids, {}, {}) : ids \in SUBSET Targets}
      PROVE  /\ Target(Observed(<<a, b, c>>)) = Only(a \cup b \cup c)
             /\ Target(Merged(Observed(<<a, b>>), Observed(<<c>>))) = Only(a \cup b \cup c)
             /\ Target(Merged(Observed(<<a>>), Observed(<<b, c>>))) = Only(a \cup b \cup c)
             /\ Target(Merged(Merged(Observed(<<a>>), Observed(<<b>>)), Observed(<<c>>))) = Only(a \cup b \cup c)
  BY DEF TargetsSound
<1>2. NamesOne(a) /\ NamesOne(b) /\ NamesOne(c)
  BY LinesNameOne
<1>3. ASSUME NEW x, NamesOne(x) PROVE Gathers(Gathered({}, x), x) /\ StandsFor(Observed(<<x>>), x) /\ Names(x)
  <2>1. FoldLeft(Gathered, {}, <<x>>) = Gathered({}, x)
    <3>1. DOMAIN <<x>> = 1..1 /\ 1 \in 1..3
      OBVIOUS
    <3>2. FoldLeft(Gathered, {}, <<x>>) = Upto3(<<x>>, 1..1)
      BY <3>1, ThreeGather
    <3>3. 1 \in 1..1 /\ 2 \notin 1..1 /\ 3 \notin 1..1 /\ <<x>>[1] = x
      OBVIOUS
    <3>4. QED BY <3>2, <3>3 DEF Upto1, Upto2, Upto3
  <2>2. Gathers(Gathered({}, x), x)
    <3>1. Gathers(Gathered({}, x), {} \cup x)
      BY <1>3, GathersNothing, GathersStep
    <3>2. {} \cup x = x
      OBVIOUS
    <3>3. QED BY <3>1, <3>2
  <2>3. UNION ToSet(<<x>>) = x
    BY DEF ToSet
  <2>4. StandsFor(Observed(<<x>>), x)
    BY <2>1, <2>2, <2>3, GathersStands
  <2>5. QED BY <2>2, <2>4 DEF Gathers
<1>4. ASSUME NEW x, NamesOne(x), NEW y, NamesOne(y)
      PROVE  /\ Gathers(Gathered(Gathered({}, x), y), x \cup y)
             /\ StandsFor(Observed(<<x, y>>), x \cup y) /\ Names(x \cup y)
  <2>1. FoldLeft(Gathered, {}, <<x, y>>) = Gathered(Gathered({}, x), y)
    <3>1. DOMAIN <<x, y>> = 1..2 /\ 2 \in 1..3
      OBVIOUS
    <3>2. FoldLeft(Gathered, {}, <<x, y>>) = Upto3(<<x, y>>, 1..2)
      BY <3>1, ThreeGather
    <3>3. 1 \in 1..2 /\ 2 \in 1..2 /\ 3 \notin 1..2 /\ <<x, y>>[1] = x /\ <<x, y>>[2] = y
      OBVIOUS
    <3>4. QED BY <3>2, <3>3 DEF Upto1, Upto2, Upto3
  <2>2. Gathers(Gathered(Gathered({}, x), y), x \cup y)
    BY <1>3, <1>4, GathersStep
  <2>3. UNION ToSet(<<x, y>>) = x \cup y
    <3>1. ToSet(<<x, y>>) = {x, y}
      BY DEF ToSet
    <3>2. QED BY <3>1
  <2>4. StandsFor(Observed(<<x, y>>), x \cup y)
    BY <2>1, <2>2, <2>3, GathersStands
  <2>5. QED BY <2>2, <2>4 DEF Gathers
<1>5. StandsFor(Observed(<<a, b, c>>), (a \cup b) \cup c)
  <2>1. FoldLeft(Gathered, {}, <<a, b, c>>) = Gathered(Gathered(Gathered({}, a), b), c)
    <3>1. DOMAIN <<a, b, c>> = 1..3 /\ 3 \in 1..3
      OBVIOUS
    <3>2. FoldLeft(Gathered, {}, <<a, b, c>>) = Upto3(<<a, b, c>>, 1..3)
      BY <3>1, ThreeGather
    <3>3. /\ 1 \in 1..3 /\ 2 \in 1..3 /\ 3 \in 1..3
          /\ <<a, b, c>>[1] = a /\ <<a, b, c>>[2] = b /\ <<a, b, c>>[3] = c
      OBVIOUS
    <3>4. QED BY <3>2, <3>3 DEF Upto1, Upto2, Upto3
  <2>2. Gathers(Gathered(Gathered(Gathered({}, a), b), c), (a \cup b) \cup c)
    BY <1>2, <1>4, GathersStep
  <2>3. UNION ToSet(<<a, b, c>>) = (a \cup b) \cup c
    <3>1. ToSet(<<a, b, c>>) = {a, b, c}
      BY DEF ToSet
    <3>2. QED BY <3>1
  <2>4. QED BY <2>1, <2>2, <2>3, GathersStands
<1>6. PICK V : V = a \cup b \cup c
  OBVIOUS
<1>7. Names(V) /\ StandsFor(Observed(<<a, b, c>>), V)
  <2>1. Names((a \cup b) \cup c)
    BY <1>2, <1>3, <1>4, FS_Union DEF Names
  <2>2. (a \cup b) \cup c = V
    BY <1>6
  <2>3. QED BY <1>5, <2>1, <2>2
<1>8. StandsFor(Merged(Observed(<<a, b>>), Observed(<<c>>)), V)
  <2>1. StandsFor(Merged(Observed(<<a, b>>), Observed(<<c>>)), (a \cup b) \cup c)
    BY <1>2, <1>3, <1>4, StandsMerged
  <2>2. QED BY <1>6, <2>1
<1>9. StandsFor(Merged(Observed(<<a>>), Observed(<<b, c>>)), V)
  <2>1. StandsFor(Merged(Observed(<<a>>), Observed(<<b, c>>)), a \cup (b \cup c))
    BY <1>2, <1>3, <1>4, StandsMerged
  <2>2. a \cup (b \cup c) = V
    BY <1>6
  <2>3. QED BY <2>1, <2>2
<1>10. StandsFor(Merged(Merged(Observed(<<a>>), Observed(<<b>>)), Observed(<<c>>)), V)
  <2>1. Names(a \cup b) /\ StandsFor(Merged(Observed(<<a>>), Observed(<<b>>)), a \cup b)
    BY <1>2, <1>3, StandsMerged
  <2>2. StandsFor(Merged(Merged(Observed(<<a>>), Observed(<<b>>)), Observed(<<c>>)), (a \cup b) \cup c)
    BY <1>2, <1>3, <2>1, StandsMerged
  <2>3. QED BY <1>6, <2>2
<1>11. QED BY <1>6, <1>7, <1>8, <1>9, <1>10, StandsTarget

\* All of it: what a wave works with is sound, for every size of audience, window, budget and bundle.
LEMMA InputsAreSound == InputsSound
BY ContextsAreSound, ThreadsAreSound, BundlesAreSound, SpeakersAreSound, TargetsAreSound DEF InputsSound

\* _build_wave: whatever was observed and whoever is in the pool, a wave under preparation
\* works with sound contexts, threads, bundles, speakers and targets.
THEOREM PreparedIsSound == WaveSpec => []PreparedSoundly
<1>1. PreparedSoundly
  BY InputsAreSound DEF PreparedSoundly
<1>2. QED BY <1>1, PTL
===============================================================================
