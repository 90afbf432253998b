------------------------ MODULE ReactionDispatch_proofs ------------------------
(***************************************************************************)
(* Proofs about ReactionScheduler and BatchDispatch.                       *)
(*                                                                         *)
(* The scheduler, for any observations and limit of what waits: an idle    *)
(* session keeps no entry, and a reaction that was superseded while it ran *)
(* never has a result.                                                     *)
(*                                                                         *)
(* The dispatch of batches, for any calls, viewers, leases, slots and      *)
(* delays: DispatchInv says that the books of the gate, of the calls, of   *)
(* the lane and of the batches agree.  Each operator on the gate, each     *)
(* step of a call and each step of a batch keeps its part of them.         *)
(*                                                                         *)
(* The log of the calls, for any limits of memory and file: LogInv says    *)
(* what memory and the file may hold of each call.  Its two recursions,    *)
(* over the statuses of a step and the lines of a file, are taken apart    *)
(* record by record.                                                       *)
(***************************************************************************)
EXTENDS ReactionScheduler, BatchDispatch, FiniteSetTheorems, SequenceTheorems, TLAPS

\* The observations of the reaction that waits or runs.
In(item) == IF item = None THEN {} ELSE Members(item)

\* Observations that did not come from the user.
Automatic == {o \in Obs : kind[o] \notin {None, "user"}}

\* Without a worker nothing waits, and a worker that sleeps sleeps for something.
WorkInv ==
    /\ worker = None => pending = None
    /\ worker # None /\ worker.at = "sleeping" => pending # None

\* Who waits or runs is still to be answered, and not both.
ItemInv ==
    /\ In(pending) \cup In(running) \subseteq {o \in Automatic : completion[o] = "open"}
    /\ In(pending) \cap In(running) = {}
    /\ \A item \in {pending, running} \ {None} : item.id \in Automatic

PreservedInv == \A o \in Obs : preserved[o] # None => kind[o] = "user"

\* What was beaten has no result, and is unanswered only while the mark that
\* keeps it from one is still there.
BeatenInv ==
    /\ beaten \subseteq Automatic
    /\ \A o \in beaten :
          /\ completion[o] # "result"
          /\ completion[o] = "open" => o \in In(running) /\ running.superseded

IInv == TypeOK /\ NoIdleEntry /\ WorkInv /\ ItemInv /\ PreservedInv /\ BeatenInv

---------------------------------------------------------------------------
(* Operators.                                                              *)

Outcomes == {None, "open", "result", "none"}

\* Setting the results of futures settles those that are open and no others.
LEMMA ResolvedFacts ==
  ASSUME completion \in [Obs -> Outcomes], NEW S, NEW value \in {"result", "none"}
  PROVE  /\ Resolved(S, value) \in [Obs -> Outcomes]
         /\ \A o \in Obs : o \notin S \/ completion[o] # "open" => Resolved(S, value)[o] = completion[o]
         /\ \A o \in Obs : o \in S /\ completion[o] = "open" => Resolved(S, value)[o] = value
BY DEF Resolved, Outcomes

\* One more observation in a list, and one less.
LEMMA ListFacts ==
  ASSUME NEW s \in Seq(Obs), NEW o \in Obs
  PROVE  /\ Append(s, o) \in Seq(Obs) /\ Len(Append(s, o)) = Len(s) + 1
         /\ {Append(s, o)[i] : i \in DOMAIN Append(s, o)} = {s[i] : i \in DOMAIN s} \cup {o}
         /\ s # <<>> => /\ Tail(s) \in Seq(Obs) /\ Len(Tail(s)) = Len(s) - 1
                        /\ {Tail(s)[i] : i \in DOMAIN Tail(s)} \subseteq {s[i] : i \in DOMAIN s}
<1>1. /\ Append(s, o) \in Seq(Obs) /\ Len(Append(s, o)) = Len(s) + 1 /\ Len(s) \in Nat
      /\ DOMAIN s = 1..Len(s) /\ DOMAIN Append(s, o) = 1..Len(s)+1
      /\ \A i \in 1..Len(s) : Append(s, o)[i] = s[i]
      /\ Append(s, o)[Len(s)+1] = o
  OBVIOUS
<1>2. {Append(s, o)[i] : i \in DOMAIN Append(s, o)} = {s[i] : i \in DOMAIN s} \cup {o}
  BY <1>1
<1>3. ASSUME s # <<>>
      PROVE  /\ Tail(s) \in Seq(Obs) /\ Len(Tail(s)) = Len(s) - 1
             /\ {Tail(s)[i] : i \in DOMAIN Tail(s)} \subseteq {s[i] : i \in DOMAIN s}
  <2>1. /\ Tail(s) \in Seq(Obs) /\ Len(Tail(s)) = Len(s) - 1 /\ DOMAIN Tail(s) = 1..Len(s)-1
        /\ \A i \in 1..Len(s)-1 : Tail(s)[i] = s[i+1]
    BY <1>3
  <2>2. \A i \in 1..Len(s)-1 : i + 1 \in 1..Len(s)
    BY <1>1
  <2>3. QED BY <1>1, <2>1, <2>2
<1>4. QED BY <1>1, <1>2, <1>3

\* A reaction has observations of the session's.
LEMMA MembersAreObs ==
  ASSUME NEW item \in ScheduledRec PROVE Members(item) \subseteq Obs
<1>1. item.members \in Seq(Obs)
  BY DEF ScheduledRec
<1>2. QED BY <1>1 DEF Members

\* Superseding marks what runs and keeps everything else about it.
LEMMA SupersedeFacts ==
  ASSUME TypeOK, NEW k, Supersede(k)
  PROVE  /\ running' \in ScheduledRec \cup {None} /\ (running' = None <=> running = None)
         /\ running # None => /\ running'.id = running.id /\ running'.members = running.members
                              /\ running.superseded => running'.superseded
         /\ In(running)' = In(running)
         /\ worker' \in WorkerRec \cup {None} /\ (worker' = None <=> worker = None)
         /\ worker # None => worker'.at = worker.at
         /\ \/ beaten' = beaten
            \/ beaten' = beaten \cup In(running) /\ running # None /\ running'.superseded
<1>1. /\ running \in ScheduledRec \cup {None} /\ worker \in WorkerRec \cup {None}
      /\ running # None => worker # None
  BY DEF TypeOK
<1>2. CASE Supersedes(k)
  <2>1. /\ running \in ScheduledRec /\ running # None /\ worker \in WorkerRec
        /\ running' = [running EXCEPT !.superseded = TRUE]
        /\ beaten' = beaten \cup In(running)
        /\ worker' = IF worker.at = "executing" THEN [worker EXCEPT !.exec = "cancelling"]
                     ELSE worker
    BY <1>1, <1>2 DEF Supersede, Supersedes, In
  <2>2. /\ running' \in ScheduledRec /\ running'.id = running.id
        /\ running'.members = running.members /\ running'.superseded
    BY <2>1 DEF ScheduledRec
  <2>3. worker' \in WorkerRec /\ worker'.at = worker.at
    BY <2>1 DEF WorkerRec
  <2>4. running' # None /\ worker' # None /\ worker # None
    BY <2>1, <2>2, <2>3, NoneAssumption
  <2>5. In(running)' = In(running)
    BY <2>1, <2>2, <2>4 DEF In, Members
  <2>6. QED BY <2>1, <2>2, <2>3, <2>4, <2>5
<1>3. CASE ~Supersedes(k)
  BY <1>1, <1>3 DEF Supersede, In
<1>4. QED BY <1>2, <1>3

---------------------------------------------------------------------------
(* submit                                                                  *)

\* What submitting one more observation leaves as it was.
LEMMA FreshFacts ==
  ASSUME IInv, NEW o \in Obs, NEW k \in Kinds, Fresh(o, k)
  PROVE  /\ kind' \in [Obs -> Kinds \cup {None}] /\ kind'[o] = k
         /\ \A q \in Obs : q # o => kind'[q] = kind[q]
         /\ Automatic' = IF k = "user" THEN Automatic ELSE Automatic \cup {o}
         /\ o \notin Automatic /\ o \notin beaten /\ o \notin In(pending) \cup In(running)
         /\ preserved[o] = None
<1>1. kind \in [Obs -> Kinds \cup {None}] /\ kind[o] = None /\ kind' = [kind EXCEPT ![o] = k]
  BY DEF IInv, TypeOK, Fresh
<1>2. k # None /\ "user" # None
  BY NoneAssumption DEF Kinds
<1>3. /\ kind' \in [Obs -> Kinds \cup {None}] /\ kind'[o] = k
      /\ \A q \in Obs : q # o => kind'[q] = kind[q]
  BY <1>1
<1>4. Automatic' = IF k = "user" THEN Automatic ELSE Automatic \cup {o}
  BY <1>1, <1>2, <1>3 DEF Automatic
<1>5. o \notin Automatic
  BY <1>1 DEF Automatic
<1>6. o \notin beaten /\ o \notin In(pending) \cup In(running)
  BY <1>5 DEF IInv, BeatenInv, ItemInv
<1>7. preserved[o] = None
  BY <1>1, <1>2 DEF IInv, PreservedInv
<1>8. QED BY <1>3, <1>4, <1>5, <1>6, <1>7

\* A user observation runs beside everything else.
LEMMA SubmitUserKeeps ==
  ASSUME IInv, NEW o \in Obs, SubmitUser(o) PROVE IInv'
<1>1. /\ TypeOK /\ NoIdleEntry /\ WorkInv /\ ItemInv /\ PreservedInv /\ BeatenInv
      /\ Fresh(o, "user") /\ UNCHANGED <<life, pending, running, worker, beaten>>
  BY DEF IInv, SubmitUser
<1>2. /\ kind' \in [Obs -> Kinds \cup {None}] /\ kind'[o] = "user"
      /\ \A q \in Obs : q # o => kind'[q] = kind[q]
      /\ Automatic' = Automatic /\ o \notin beaten /\ o \notin In(pending) \cup In(running)
  BY <1>1, FreshFacts DEF Kinds
<1>3. /\ completion \in [Obs -> Outcomes] /\ preserved \in [Obs -> PreservedRec \cup {None}]
      /\ tracked \in BOOLEAN
  BY <1>1 DEF TypeOK, Outcomes
<1>4. [exec |-> "running", doomed |-> FALSE] \in PreservedRec
  BY DEF PreservedRec
<1>5. /\ completion' \in [Obs -> Outcomes]
      /\ \A q \in Obs : q # o => completion'[q] = completion[q]
  BY <1>3 DEF SubmitUser, Outcomes
<1>6. /\ preserved' \in [Obs -> PreservedRec \cup {None}]
      /\ \A q \in Obs : q # o => preserved'[q] = preserved[q]
      /\ tracked' => (tracked /\ preserved' = preserved) \/ preserved'[o] # None
      /\ tracked' \in BOOLEAN
  BY <1>3, <1>4, NoneAssumption DEF SubmitUser
<1>7. In(pending)' = In(pending) /\ In(running)' = In(running)
  BY <1>1 DEF In, Members
<1>8. TypeOK'
  BY <1>1, <1>2, <1>5, <1>6 DEF TypeOK, Outcomes
<1>9. NoIdleEntry'
  BY <1>1, <1>6 DEF NoIdleEntry, NothingPreserved
<1>10. WorkInv' /\ PreservedInv'
  BY <1>1, <1>2, <1>6 DEF WorkInv, PreservedInv
<1>11. ItemInv'
  <2>1. \A q \in In(pending) \cup In(running) : q \in Obs /\ completion'[q] = completion[q]
    BY <1>1, <1>2, <1>5 DEF ItemInv, Automatic
  <2>2. QED BY <1>1, <1>2, <1>7, <2>1 DEF ItemInv
<1>12. BeatenInv'
  <2>1. \A q \in beaten : q \in Obs /\ completion'[q] = completion[q]
    BY <1>1, <1>2, <1>5 DEF BeatenInv, Automatic
  <2>2. QED BY <1>1, <1>2, <1>7, <2>1 DEF BeatenInv
<1>13. QED BY <1>8, <1>9, <1>10, <1>11, <1>12 DEF IInv

\* Superseding what runs keeps its observations unanswered and now marked.
LEMMA BeatenStay ==
  ASSUME IInv, NEW k, Supersede(k), Automatic \subseteq Automatic',
         \A q \in beaten \cup In(running) : completion'[q] = completion[q]
  PROVE  BeatenInv'
<1>1. /\ TypeOK /\ ItemInv /\ BeatenInv
  BY DEF IInv
<1>2. /\ In(running)' = In(running)
      /\ running # None /\ running.superseded => running'.superseded
      /\ \/ beaten' = beaten
         \/ beaten' = beaten \cup In(running) /\ running # None /\ running'.superseded
  BY <1>1, SupersedeFacts
<1>3. \A q \in In(running) : q \in Automatic /\ completion[q] = "open" /\ running # None
  BY <1>1 DEF ItemInv, In
<1>4. beaten' \subseteq Automatic'
  BY <1>1, <1>2, <1>3 DEF BeatenInv
<1>5. ASSUME NEW q \in beaten'
      PROVE  completion'[q] # "result" /\ (completion'[q] = "open" => q \in In(running)' /\ running'.superseded)
  <2>1. CASE q \in beaten
    BY <1>1, <1>2, <1>3, <2>1 DEF BeatenInv
  <2>2. CASE q \notin beaten
    BY <1>2, <1>3, <1>5, <2>2
  <2>3. QED BY <2>1, <2>2
<1>6. QED BY <1>4, <1>5 DEF BeatenInv

\* A refused observation is answered at once.
LEMMA RefusedKeeps ==
  ASSUME IInv, NEW o \in Obs, NEW k \in Kinds \ {"user"}, SubmitRefused(o, k)
  PROVE  IInv'
<1>1. /\ TypeOK /\ NoIdleEntry /\ WorkInv /\ ItemInv /\ PreservedInv /\ BeatenInv
      /\ Fresh(o, k) /\ UNCHANGED <<life, tracked, pending, preserved>>
      /\ UNCHANGED <<running, worker, beaten>> \/ Supersede(k)
      /\ completion' = [completion EXCEPT ![o] = "none"]
  BY DEF IInv, SubmitRefused
<1>2. /\ kind' \in [Obs -> Kinds \cup {None}] /\ kind'[o] = k
      /\ \A q \in Obs : q # o => kind'[q] = kind[q]
      /\ Automatic' = Automatic \cup {o}
      /\ o \notin beaten /\ o \notin In(pending) \cup In(running) /\ preserved[o] = None
  BY <1>1, FreshFacts
<1>3. /\ running' \in ScheduledRec \cup {None} /\ (running' = None <=> running = None)
      /\ running # None => running'.id = running.id /\ running'.members = running.members
      /\ In(running)' = In(running)
      /\ worker' \in WorkerRec \cup {None} /\ (worker' = None <=> worker = None)
      /\ worker # None => worker'.at = worker.at
  <2>1. CASE UNCHANGED <<running, worker, beaten>>
    BY <1>1, <2>1 DEF TypeOK, In, Members
  <2>2. CASE Supersede(k)
    BY <1>1, <2>2, SupersedeFacts
  <2>3. QED BY <1>1, <2>1, <2>2
<1>4. completion \in [Obs -> Outcomes]
  BY <1>1 DEF TypeOK, Outcomes
<1>5. completion' \in [Obs -> Outcomes] /\ \A q \in Obs : q # o => completion'[q] = completion[q]
  BY <1>1, <1>4 DEF Outcomes
<1>6. /\ In(pending) \cup In(running) \subseteq Automatic /\ beaten \subseteq Automatic
      /\ Automatic \subseteq Obs
  BY <1>1 DEF ItemInv, BeatenInv, Automatic
<1>7. \A q \in beaten \cup In(pending) \cup In(running) : completion'[q] = completion[q]
  BY <1>2, <1>5, <1>6
<1>8. In(pending)' = In(pending)
  BY <1>1 DEF In, Members
<1>9. TypeOK'
  <2>1. \A item \in {pending', running'} \ {None} : Len(item.members) \in 1..MaxPending
    BY <1>1, <1>3 DEF TypeOK
  <2>2. QED BY <1>1, <1>2, <1>3, <1>5, <2>1 DEF TypeOK, Outcomes
<1>10. NoIdleEntry' /\ WorkInv' /\ PreservedInv'
  BY <1>1, <1>2, <1>3 DEF NoIdleEntry, NothingPreserved, WorkInv, PreservedInv
<1>11. ItemInv'
  <2>1. \A item \in {pending', running'} \ {None} : item.id \in Automatic'
    BY <1>1, <1>2, <1>3 DEF ItemInv
  <2>2. QED BY <1>1, <1>2, <1>3, <1>6, <1>7, <1>8, <2>1 DEF ItemInv
<1>12. BeatenInv'
  <2>1. CASE UNCHANGED <<running, worker, beaten>>
    BY <1>1, <1>2, <1>3, <1>7, <2>1 DEF BeatenInv
  <2>2. CASE Supersede(k)
    BY <1>2, <1>7, <2>2, BeatenStay
  <2>3. QED BY <1>1, <2>1, <2>2
<1>13. QED BY <1>9, <1>10, <1>11, <1>12 DEF IInv

\* An observation that waits, alone or with those it joins: given what the new
\* pending reaction holds, and who is given up for it.
LEMMA WaitsKeeps ==
  ASSUME IInv, NEW o \in Obs, NEW k \in Kinds \ {"user"}, Fresh(o, k), Supersede(k),
         UNCHANGED <<life, preserved>>, tracked' \in BOOLEAN, worker # None,
         NEW item \in ScheduledRec, pending' = item, Len(item.members) \in 1..MaxPending,
         item.id \in Automatic \cup {o}, Members(item) \subseteq In(pending) \cup {o},
         completion' = [Resolved(In(pending) \ Members(item), "none") EXCEPT ![o] = "open"]
  PROVE  IInv'
<1>1. /\ TypeOK /\ NoIdleEntry /\ WorkInv /\ ItemInv /\ PreservedInv /\ BeatenInv
  BY DEF IInv
<1>2. /\ kind' \in [Obs -> Kinds \cup {None}] /\ kind'[o] = k
      /\ \A q \in Obs : q # o => kind'[q] = kind[q]
      /\ Automatic' = Automatic \cup {o}
      /\ o \notin beaten /\ o \notin In(pending) \cup In(running) /\ preserved[o] = None
  BY <1>1, FreshFacts
<1>3. /\ running' \in ScheduledRec \cup {None} /\ (running' = None <=> running = None)
      /\ running # None => running'.id = running.id /\ running'.members = running.members
      /\ In(running)' = In(running)
      /\ worker' \in WorkerRec \cup {None} /\ (worker' = None <=> worker = None)
      /\ worker # None => worker'.at = worker.at
  BY <1>1, SupersedeFacts
<1>4. /\ In(pending) \cup In(running) \subseteq {q \in Automatic : completion[q] = "open"}
      /\ In(pending) \cap In(running) = {} /\ beaten \subseteq Automatic /\ Automatic \subseteq Obs
  BY <1>1 DEF ItemInv, BeatenInv, Automatic
<1>5. /\ completion' \in [Obs -> Outcomes] /\ completion'[o] = "open"
      /\ \A q \in Obs : q # o /\ (q \notin In(pending) \/ q \in Members(item))
            => completion'[q] = completion[q]
      /\ \A q \in Obs : completion'[q] = "result" => completion[q] = "result"
  <2>1. completion \in [Obs -> Outcomes]
    BY <1>1 DEF TypeOK, Outcomes
  <2>2. /\ Resolved(In(pending) \ Members(item), "none") \in [Obs -> Outcomes]
        /\ \A q \in Obs : q \notin In(pending) \ Members(item) \/ completion[q] # "open"
             => Resolved(In(pending) \ Members(item), "none")[q] = completion[q]
        /\ \A q \in Obs : q \in In(pending) \ Members(item) /\ completion[q] = "open"
             => Resolved(In(pending) \ Members(item), "none")[q] = "none"
    BY <2>1, ResolvedFacts
  <2>3. "open" \in Outcomes
    BY DEF Outcomes
  <2>4. QED BY <2>1, <2>2, <2>3
<1>6. In(pending)' = Members(item) /\ pending' # None
  BY NoneAssumption DEF In, Members
<1>7. TypeOK'
  <2>1. \A i \in {pending', running'} \ {None} : Len(i.members) \in 1..MaxPending
    BY <1>1, <1>3 DEF TypeOK
  <2>2. running' # None <=> worker' # None /\ worker'.at \in {"executing", "woken"}
    BY <1>1, <1>3 DEF TypeOK
  <2>3. QED BY <1>1, <1>2, <1>3, <1>5, <2>1, <2>2 DEF TypeOK, Outcomes
<1>8. NoIdleEntry' /\ WorkInv' /\ PreservedInv'
  BY <1>1, <1>2, <1>3, <1>6 DEF NoIdleEntry, WorkInv, PreservedInv
<1>9. ItemInv'
  <2>1. \A i \in {pending', running'} \ {None} : i.id \in Automatic'
    BY <1>1, <1>2, <1>3 DEF ItemInv
  <2>2. \A q \in Members(item) \cup In(running) : q \in Automatic' /\ completion'[q] = "open"
    BY <1>2, <1>4, <1>5
  <2>3. Members(item) \cap In(running) = {}
    BY <1>2, <1>4
  <2>4. QED BY <1>3, <1>6, <2>1, <2>2, <2>3 DEF ItemInv
<1>10. BeatenInv'
  <2>1. ASSUME NEW q \in beaten PROVE (q \notin In(pending) /\ q # o /\ q \in Obs) \/ completion[q] # "open" \/ q \in In(running)
    BY <1>1, <1>2, <1>4 DEF BeatenInv
  <2>2. \A q \in In(running) : completion'[q] = completion[q]
    BY <1>2, <1>4, <1>5
  <2>3. ASSUME NEW q \in beaten PROVE completion'[q] = completion[q]
    <3>1. q \in Obs /\ q # o /\ completion[q] = "open" => q \in In(running)
      BY <1>1, <1>2, <1>4 DEF BeatenInv
    <3>2. q \in In(pending) => q \in In(running)
      BY <1>2, <1>4, <3>1
    <3>3. q \notin In(pending)
      BY <1>4, <3>2
    <3>4. q # o /\ q \in Obs
      BY <1>2, <1>4
    <3>5. QED BY <1>5, <3>3, <3>4
  <2>4. QED BY <1>2, <2>2, <2>3, BeatenStay
<1>11. QED BY <1>7, <1>8, <1>9, <1>10 DEF IInv

\* Joining what waits, at the limit in place of its oldest observation.
LEMMA MergedKeeps ==
  ASSUME IInv, NEW o \in Obs, NEW k \in Kinds \ {"user"}, SubmitMerged(o, k)
  PROVE  IInv'
<1> DEFINE kept == IF Len(pending.members) >= MaxPending
                   THEN Tail(pending.members) ELSE pending.members
           item == [pending EXCEPT !.members = Append(kept, o)]
<1>1. /\ TypeOK /\ WorkInv /\ ItemInv
      /\ Fresh(o, k) /\ Supersede(k) /\ pending # None
      /\ pending' = item
      /\ completion' = [Resolved(Members(pending) \ Members([members |-> kept]), "none")
                               EXCEPT ![o] = "open"]
      /\ UNCHANGED <<life, tracked, preserved>>
  BY DEF IInv, SubmitMerged
<1>2. /\ pending \in ScheduledRec /\ pending.members \in Seq(Obs) /\ tracked \in BOOLEAN
      /\ Len(pending.members) \in 1..MaxPending /\ MaxPending \in Nat /\ worker # None
      /\ pending.id \in Automatic
  BY <1>1, PendingLimit DEF TypeOK, ScheduledRec, WorkInv, ItemInv
<1>3. Members(pending) = In(pending) /\ o \notin In(pending)
  BY <1>1, FreshFacts DEF In
<1>4. /\ kept \in Seq(Obs) /\ Len(kept) + 1 \in 1..MaxPending
      /\ {kept[i] : i \in DOMAIN kept} \subseteq Members(pending)
  <2>1. CASE Len(pending.members) >= MaxPending
    <3>1. pending.members # <<>> /\ Len(pending.members) = MaxPending
      BY <1>2, <2>1
    <3>2. /\ Tail(pending.members) \in Seq(Obs)
          /\ Len(Tail(pending.members)) = Len(pending.members) - 1
          /\ {Tail(pending.members)[i] : i \in DOMAIN Tail(pending.members)}
                \subseteq {pending.members[i] : i \in DOMAIN pending.members}
      BY <1>2, <3>1, ListFacts
    <3>3. QED BY <1>2, <2>1, <3>1, <3>2 DEF Members
  <2>2. CASE ~(Len(pending.members) >= MaxPending)
    BY <1>2, <2>2 DEF Members
  <2>3. QED BY <2>1, <2>2
<1> HIDE DEF kept
<1>5. /\ Append(kept, o) \in Seq(Obs) /\ Len(Append(kept, o)) = Len(kept) + 1
      /\ {Append(kept, o)[i] : i \in DOMAIN Append(kept, o)} = {kept[i] : i \in DOMAIN kept} \cup {o}
  BY <1>4, ListFacts
<1>6. item \in ScheduledRec /\ item.id = pending.id /\ item.members = Append(kept, o)
  BY <1>2, <1>5 DEF ScheduledRec
<1> HIDE DEF item
<1>7. Members(item) = Members([members |-> kept]) \cup {o}
  BY <1>5, <1>6 DEF Members
<1>8. Members([members |-> kept]) = {kept[i] : i \in DOMAIN kept}
  BY DEF Members
<1>9. Members(pending) \ Members([members |-> kept]) = In(pending) \ Members(item)
  BY <1>3, <1>7
<1>10. Members(item) \subseteq In(pending) \cup {o}
  BY <1>3, <1>4, <1>7, <1>8
<1>11. Len(item.members) \in 1..MaxPending /\ item.id \in Automatic
  BY <1>2, <1>4, <1>5, <1>6
<1>12. completion' = [Resolved(In(pending) \ Members(item), "none") EXCEPT ![o] = "open"]
  BY <1>1, <1>9
<1>13. QED BY <1>1, <1>2, <1>6, <1>10, <1>11, <1>12, WaitsKeeps

\* Taking the place of what waits, with a new worker if there is none.
LEMMA PendingKeeps ==
  ASSUME IInv, NEW o \in Obs, NEW k \in Kinds \ {"user"}, SubmitPending(o, k)
  PROVE  IInv'
<1> DEFINE item == [id |-> o, members |-> <<o>>, superseded |-> FALSE]
           w == [at |-> "sleeping", item |-> o, exec |-> "running",
                 got |-> "none", doomed |-> FALSE, killed |-> FALSE]
<1>1. /\ TypeOK /\ NoIdleEntry /\ WorkInv /\ ItemInv /\ PreservedInv /\ BeatenInv
      /\ Fresh(o, k) /\ UNCHANGED <<life, preserved>>
  BY DEF IInv, SubmitPending
<1>2. /\ item \in ScheduledRec /\ item.id = o /\ Len(item.members) = 1 /\ 1 \in 1..MaxPending
      /\ Members(item) = {o} /\ item # None
  <2>1. item \in ScheduledRec /\ item.id = o /\ item.members = <<o>>
    BY DEF ScheduledRec
  <2>2. {<<o>>[i] : i \in DOMAIN <<o>>} = {o}
    OBVIOUS
  <2>3. Len(<<o>>) = 1 /\ 1 \in 1..MaxPending
    BY PendingLimit
  <2>4. Members(item) = {o}
    BY <2>1, <2>2 DEF Members
  <2> HIDE DEF item
  <2>5. item # None
    BY <2>1, NoneAssumption
  <2>6. QED BY <2>1, <2>3, <2>4, <2>5
<1>3. w \in WorkerRec /\ w # None /\ w.at = "sleeping"
  <2>1. w \in WorkerRec /\ w.at = "sleeping"
    BY DEF WorkerRec
  <2> HIDE DEF w
  <2>2. QED BY <2>1, NoneAssumption
<1>4. /\ kind' \in [Obs -> Kinds \cup {None}] /\ kind'[o] = k
      /\ \A q \in Obs : q # o => kind'[q] = kind[q]
      /\ Automatic' = Automatic \cup {o}
      /\ o \notin beaten /\ o \notin In(pending) \cup In(running) /\ preserved[o] = None
  BY <1>1, FreshFacts
<1>5. CASE worker = None
  <2>1. pending = None /\ running = None /\ In(pending) = {} /\ In(running) = {}
    BY <1>1, <1>5 DEF TypeOK, WorkInv, In
  <2>2. /\ running' = None /\ beaten' = beaten
        /\ completion' = [Resolved({}, "none") EXCEPT ![o] = IF life # "running" THEN "none" ELSE "open"]
        /\ \/ life # "running" /\ pending' = None /\ worker' = None /\ tracked' = tracked
           \/ life = "running" /\ pending' = item /\ worker' = w /\ tracked'
    BY <1>5, <2>1 DEF SubmitPending
  <2>3. completion \in [Obs -> Outcomes]
    BY <1>1 DEF TypeOK, Outcomes
  <2>4. Resolved({}, "none") = completion
    BY <2>3 DEF Resolved
  <2>5. /\ completion' \in [Obs -> Outcomes] /\ (life = "running" => completion'[o] = "open")
        /\ \A q \in Obs : q # o => completion'[q] = completion[q]
    BY <2>2, <2>3, <2>4 DEF Outcomes
  <2> HIDE DEF item, w
  <2>6. In(running)' = {} /\ In(pending)' \subseteq {o} /\ (In(pending)' # {} => life = "running")
    BY <1>2, <2>2 DEF In, Members
  <2>7. TypeOK'
    <3>1. \A i \in {pending', running'} \ {None} : Len(i.members) \in 1..MaxPending
      BY <1>2, <2>2
    <3>2. /\ pending' \in ScheduledRec \cup {None} /\ running' \in ScheduledRec \cup {None}
          /\ worker' \in WorkerRec \cup {None} /\ tracked' \in BOOLEAN
      BY <1>1, <1>2, <1>3, <2>2 DEF TypeOK
    <3>3. running' # None <=> worker' # None /\ worker'.at \in {"executing", "woken"}
      BY <1>3, <2>2
    <3>4. QED BY <1>1, <1>4, <2>5, <3>1, <3>2, <3>3 DEF TypeOK, Outcomes
  <2>8. NoIdleEntry' /\ WorkInv' /\ PreservedInv'
    <3>1. NoIdleEntry'
      BY <1>1, <1>3, <1>5, <2>2 DEF NoIdleEntry, NothingPreserved
    <3>2. WorkInv'
      BY <1>2, <1>3, <2>2 DEF WorkInv
    <3>3. PreservedInv'
      BY <1>1, <1>4 DEF PreservedInv
    <3>4. QED BY <3>1, <3>2, <3>3
  <2>9. ItemInv'
    <3>1. \A i \in {pending', running'} \ {None} : i.id \in Automatic'
      BY <1>2, <1>4, <2>2
    <3>2. QED BY <1>4, <2>5, <2>6, <3>1 DEF ItemInv
  <2>10. BeatenInv'
    <3>1. \A q \in beaten : q \in Obs /\ completion'[q] = completion[q] /\ completion[q] # "open"
      BY <1>1, <1>4, <2>1, <2>5 DEF BeatenInv, Automatic
    <3>2. QED BY <1>1, <1>4, <2>2, <3>1 DEF BeatenInv
  <2>11. QED BY <2>7, <2>8, <2>9, <2>10 DEF IInv
<1>6. CASE worker # None
  <2>1. /\ completion' = [Resolved(In(pending), "none") EXCEPT ![o] = "open"]
        /\ pending' = item /\ tracked' = TRUE /\ Supersede(k)
    BY <1>6 DEF SubmitPending, In
  <2>2. In(pending) \ Members(item) = In(pending)
    BY <1>2, <1>4
  <2> HIDE DEF item, w
  <2>3. QED BY <1>1, <1>2, <1>6, <2>1, <2>2, WaitsKeeps
<1>7. QED BY <1>5, <1>6

---------------------------------------------------------------------------
(* _run_session, _run_preserved and the session.                           *)

\* Steps that answer nobody and move nothing between what waits and what runs.
LEMMA Undisturbed ==
  ASSUME ItemInv, PreservedInv, BeatenInv,
         UNCHANGED <<kind, completion, pending, running, beaten>>,
         \A o \in Obs : preserved'[o] # None => preserved[o] # None
  PROVE  ItemInv' /\ PreservedInv' /\ BeatenInv'
<1>1. In(pending)' = In(pending) /\ In(running)' = In(running) /\ Automatic' = Automatic
  BY DEF In, Members, Automatic
<1>2. QED BY <1>1 DEF ItemInv, PreservedInv, BeatenInv

\* The worker wakes up for what it slept for, and its execution ends.
LEMMA WorkerKeeps ==
  ASSUME IInv, WorkerTakes \/ ExecutionEnds \/ CancelWorker
  PROVE  IInv'
<1>1. /\ TypeOK /\ NoIdleEntry /\ WorkInv /\ ItemInv /\ PreservedInv /\ BeatenInv
      /\ UNCHANGED <<life, kind, completion, tracked, preserved, beaten>>
      /\ worker # None /\ worker \in WorkerRec
  BY DEF IInv, TypeOK, WorkerTakes, ExecutionEnds, CancelWorker
<1>2. CASE WorkerTakes
  <2>1. pending # None /\ pending \in ScheduledRec /\ running = None /\ worker.at = "sleeping"
    BY <1>1, <1>2 DEF TypeOK, WorkInv, WorkerTakes
  <2>2. CASE pending.id = worker.item
    <3>1. /\ running' = pending /\ pending' = None
          /\ worker' = [worker EXCEPT !.at = "executing", !.exec = "running"]
      BY <1>2, <2>2 DEF WorkerTakes
    <3>2. worker' \in WorkerRec /\ worker'.at = "executing"
      BY <1>1, <3>1 DEF WorkerRec
    <3>3. worker' # None
      BY <3>2, NoneAssumption
    <3>4. In(running)' = In(pending) /\ In(pending)' = {} /\ In(running) = {} /\ Automatic' = Automatic
      BY <1>1, <2>1, <3>1 DEF In, Members, Automatic
    <3>5. TypeOK'
      <4>1. \A i \in {pending', running'} \ {None} : Len(i.members) \in 1..MaxPending
        BY <1>1, <2>1, <3>1 DEF TypeOK
      <4>2. QED BY <1>1, <2>1, <3>1, <3>2, <3>3, <4>1 DEF TypeOK
    <3>6. NoIdleEntry' /\ WorkInv' /\ PreservedInv'
      BY <1>1, <3>1, <3>2, <3>3 DEF NoIdleEntry, NothingPreserved, WorkInv, PreservedInv
    <3>7. ItemInv'
      <4>1. \A i \in {pending', running'} \ {None} : i.id \in Automatic'
        BY <1>1, <2>1, <3>1, <3>4 DEF ItemInv
      <4>2. QED BY <1>1, <3>4, <4>1 DEF ItemInv
    <3>8. BeatenInv'
      BY <1>1, <3>4 DEF BeatenInv
    <3>9. QED BY <3>5, <3>6, <3>7, <3>8 DEF IInv
  <2>3. CASE pending.id # worker.item
    <3>1. /\ UNCHANGED <<running, pending>> /\ worker' = [worker EXCEPT !.item = pending.id]
      BY <1>2, <2>3 DEF WorkerTakes
    <3>2. pending.id \in Obs
      BY <2>1 DEF ScheduledRec
    <3>3. worker' \in WorkerRec /\ worker'.at = "sleeping"
      BY <1>1, <2>1, <3>1, <3>2 DEF WorkerRec
    <3>4. worker' # None
      BY <3>3, NoneAssumption
    <3>5. TypeOK'
      BY <1>1, <2>1, <3>1, <3>3, <3>4 DEF TypeOK
    <3>6. NoIdleEntry' /\ WorkInv'
      BY <1>1, <2>1, <3>1, <3>4 DEF NoIdleEntry, NothingPreserved, WorkInv
    <3>7. QED BY <1>1, <3>1, <3>5, <3>6, Undisturbed DEF IInv
  <2>4. QED BY <2>2, <2>3
<1>3. CASE ExecutionEnds \/ CancelWorker
  <2>1. /\ UNCHANGED <<running, pending>> /\ worker' \in WorkerRec
        /\ worker'.at \in {"executing", "woken"} <=> worker.at \in {"executing", "woken"}
        /\ worker'.at = "sleeping" => worker.at = "sleeping"
    BY <1>1, <1>3 DEF ExecutionEnds, CancelWorker, WorkerRec
  <2>2. worker' # None
    BY <2>1, NoneAssumption
  <2>3. TypeOK'
    BY <1>1, <2>1, <2>2 DEF TypeOK
  <2>4. NoIdleEntry' /\ WorkInv'
    BY <1>1, <2>1, <2>2 DEF NoIdleEntry, NothingPreserved, WorkInv
  <2>5. QED BY <1>1, <2>1, <2>3, <2>4, Undisturbed DEF IInv
<1>4. QED BY <1>2, <1>3

\* The worker answers for what ran: nobody who was beaten has a result, because the
\* mark is still there.
LEMMA ResolvesKeeps ==
  ASSUME IInv, WorkerResolves PROVE IInv'
<1> DEFINE value == IF worker.got = "result" /\ ~worker.killed /\ ~running.superseded
                    THEN "result" ELSE "none"
<1>1. /\ TypeOK /\ NoIdleEntry /\ WorkInv /\ ItemInv /\ PreservedInv /\ BeatenInv
      /\ UNCHANGED <<life, kind, pending, preserved, beaten>>
      /\ worker # None /\ worker \in WorkerRec /\ worker.at = "woken"
      /\ running # None /\ running' = None /\ LoopTop /\ tracked \in BOOLEAN
      /\ completion' = Resolved(In(running), value)
  BY DEF IInv, TypeOK, WorkerResolves, In
<1>2. completion \in [Obs -> Outcomes] /\ pending \in ScheduledRec \cup {None}
  BY <1>1 DEF TypeOK, Outcomes
<1>3. value \in {"result", "none"} /\ (running.superseded => value = "none")
  OBVIOUS
<1> HIDE DEF value
<1>4. /\ completion' \in [Obs -> Outcomes]
      /\ \A q \in Obs : q \notin In(running) \/ completion[q] # "open" => completion'[q] = completion[q]
      /\ \A q \in Obs : q \in In(running) /\ completion[q] = "open" => completion'[q] = value
  BY <1>1, <1>2, <1>3, ResolvedFacts
<1>5. /\ worker' \in WorkerRec \cup {None}
      /\ worker' = None <=> pending = None
      /\ worker' # None => worker'.at = "sleeping"
      /\ worker' # None => tracked' = tracked
      /\ worker' = None => tracked' = (tracked /\ ~NothingPreserved(preserved))
  <2>1. CASE pending = None
    BY <1>1, <2>1 DEF LoopTop
  <2>2. CASE pending # None
    <3>1. pending \in ScheduledRec /\ pending.id \in Obs
      BY <1>2, <2>2 DEF ScheduledRec
    <3>2. /\ worker' = [worker EXCEPT !.at = "sleeping", !.item = pending.id, !.killed = FALSE]
          /\ tracked' = tracked
      BY <1>1, <2>2 DEF LoopTop
    <3>3. worker' \in WorkerRec /\ worker'.at = "sleeping"
      BY <1>1, <3>1, <3>2 DEF WorkerRec
    <3>4. worker' # None
      BY <3>3, NoneAssumption
    <3>5. QED BY <2>2, <3>2, <3>3, <3>4
  <2>3. QED BY <2>1, <2>2
<1>6. In(running)' = {} /\ In(pending)' = In(pending) /\ Automatic' = Automatic
  BY <1>1 DEF In, Members, Automatic
<1>7. TypeOK'
  <2>1. \A i \in {pending', running'} \ {None} : Len(i.members) \in 1..MaxPending
    BY <1>1 DEF TypeOK
  <2>2. tracked' \in BOOLEAN
    BY <1>1, <1>5
  <2>3. QED BY <1>1, <1>4, <1>5, <2>1, <2>2 DEF TypeOK, Outcomes
<1>8. NoIdleEntry' /\ WorkInv' /\ PreservedInv'
  BY <1>1, <1>5 DEF NoIdleEntry, NothingPreserved, WorkInv, PreservedInv
<1>9. ItemInv'
  <2>1. \A q \in In(pending) : q \in Automatic /\ q \in Obs /\ completion'[q] = completion[q]
    BY <1>1, <1>4 DEF ItemInv, Automatic
  <2>2. QED BY <1>1, <1>6, <2>1 DEF ItemInv
<1>10. BeatenInv'
  <2>1. ASSUME NEW q \in beaten PROVE completion'[q] # "result" /\ completion'[q] # "open"
    <3>1. q \in Obs /\ completion[q] # "result"
      BY <1>1 DEF BeatenInv, Automatic
    <3>2. CASE completion[q] = "open"
      BY <1>1, <1>3, <1>4, <3>1, <3>2 DEF BeatenInv
    <3>3. CASE completion[q] # "open"
      BY <1>4, <3>1, <3>3
    <3>4. QED BY <3>2, <3>3
  <2>2. QED BY <1>1, <1>6, <2>1 DEF BeatenInv
<1>11. QED BY <1>7, <1>8, <1>9, <1>10 DEF IInv

\* Whoever gives up everything that runs and waits, and with it only who is neither.
LEMMA EmptiedKeeps ==
  ASSUME IInv, UNCHANGED <<life, kind, beaten>>,
         pending' = None, running' = None, worker' = None,
         NEW S, In(running) \cup In(pending) \subseteq S, completion' = Resolved(S, "none"),
         tracked' \in BOOLEAN, preserved' \in [Obs -> PreservedRec \cup {None}],
         \A o \in Obs : preserved'[o] # None => preserved[o] # None,
         tracked' => ~NothingPreserved(preserved')
  PROVE  IInv'
<1>1. /\ TypeOK /\ NoIdleEntry /\ WorkInv /\ ItemInv /\ PreservedInv /\ BeatenInv
  BY DEF IInv
<1>2. completion \in [Obs -> Outcomes]
  BY <1>1 DEF TypeOK, Outcomes
<1>3. /\ completion' \in [Obs -> Outcomes]
      /\ \A q \in Obs : completion'[q] = "open" => q \notin S /\ completion[q] = "open"
      /\ \A q \in Obs : completion'[q] = "result" => completion[q] = "result"
  BY <1>2, ResolvedFacts
<1>4. In(running)' = {} /\ In(pending)' = {} /\ Automatic' = Automatic
  BY DEF In, Automatic
<1>5. TypeOK'
  <2>1. \A i \in {pending', running'} \ {None} : Len(i.members) \in 1..MaxPending
    OBVIOUS
  <2>2. QED BY <1>1, <1>3, <2>1 DEF TypeOK, Outcomes
<1>6. NoIdleEntry' /\ WorkInv' /\ PreservedInv'
  BY <1>1 DEF NoIdleEntry, WorkInv, PreservedInv
<1>7. ItemInv'
  BY <1>4 DEF ItemInv
<1>8. BeatenInv'
  <2>1. \A q \in beaten : q \in Obs /\ completion'[q] \notin {"open", "result"}
    BY <1>1, <1>3 DEF BeatenInv, Automatic
  <2>2. QED BY <1>1, <1>4, <2>1 DEF BeatenInv
<1>9. QED BY <1>5, <1>6, <1>7, <1>8 DEF IInv

\* The worker's finally clause and cancel_session.
LEMMA EndsKeep ==
  ASSUME IInv, WorkerDies \/ CancelSession PROVE IInv'
<1>1. tracked \in BOOLEAN /\ preserved \in [Obs -> PreservedRec \cup {None}]
  BY DEF IInv, TypeOK
<1>2. CASE WorkerDies
  BY <1>1, <1>2, EmptiedKeeps DEF WorkerDies, In
<1>3. CASE CancelSession
  <2>1. preserved' = [o \in Obs |-> None] /\ tracked' = FALSE
    BY <1>3 DEF CancelSession
  <2>2. preserved' \in [Obs -> PreservedRec \cup {None}] /\ \A o \in Obs : preserved'[o] = None
    BY <2>1
  <2>3. QED BY <1>3, <2>1, <2>2, EmptiedKeeps DEF CancelSession, In
<1>4. QED BY <1>2, <1>3

\* A preserved task answers its own observation only.
LEMMA PreservedEndsKeeps ==
  ASSUME IInv, NEW o \in Obs, PreservedEnds(o) PROVE IInv'
<1>1. /\ TypeOK /\ NoIdleEntry /\ WorkInv /\ ItemInv /\ PreservedInv /\ BeatenInv
      /\ UNCHANGED <<life, kind, pending, running, worker, beaten>>
      /\ preserved[o] # None /\ preserved' = [preserved EXCEPT ![o] = None]
      /\ tracked' = (tracked /\ (worker # None \/ \E q \in Obs \ {o} : preserved[q] # None))
      /\ completion' = completion \/ \E v \in {"result", "none"} : completion' = Resolved({o}, v)
  BY DEF IInv, PreservedEnds
<1>2. completion \in [Obs -> Outcomes] /\ preserved \in [Obs -> PreservedRec \cup {None}]
  BY <1>1 DEF TypeOK, Outcomes
<1>3. completion' \in [Obs -> Outcomes] /\ \A q \in Obs : q # o => completion'[q] = completion[q]
  BY <1>1, <1>2, ResolvedFacts
<1>4. /\ preserved' \in [Obs -> PreservedRec \cup {None}] /\ preserved'[o] = None
      /\ \A q \in Obs : q # o => preserved'[q] = preserved[q]
  BY <1>1, <1>2
<1>5. o \notin Automatic
  BY <1>1 DEF PreservedInv, Automatic
<1>6. In(running)' = In(running) /\ In(pending)' = In(pending) /\ Automatic' = Automatic
  BY <1>1 DEF In, Members, Automatic
<1>7. TypeOK'
  BY <1>1, <1>3, <1>4 DEF TypeOK, Outcomes
<1>8. NoIdleEntry' /\ WorkInv' /\ PreservedInv'
  BY <1>1, <1>4 DEF NoIdleEntry, NothingPreserved, WorkInv, PreservedInv
<1>9. \A q \in Automatic : completion'[q] = completion[q]
  BY <1>3, <1>5 DEF Automatic
<1>10. ItemInv'
  BY <1>1, <1>6, <1>9 DEF ItemInv
<1>11. BeatenInv'
  BY <1>1, <1>6, <1>9 DEF BeatenInv
<1>12. QED BY <1>7, <1>8, <1>10, <1>11 DEF IInv

\* Pause, resume and stop, and the cancellation of what they detached.
LEMMA SessionKeeps ==
  ASSUME IInv, Pause \/ Resume \/ Stop \/ \E o \in Obs : CancelPreserved(o)
  PROVE  IInv'
<1>1. /\ TypeOK /\ NoIdleEntry /\ WorkInv /\ ItemInv /\ PreservedInv /\ BeatenInv
      /\ UNCHANGED <<kind, completion, tracked, pending, running, beaten>>
      /\ worker \in WorkerRec \cup {None} /\ preserved \in [Obs -> PreservedRec \cup {None}]
      /\ life \in {"running", "paused", "stopped"}
  BY DEF IInv, TypeOK, Pause, Resume, Stop, Interrupt, CancelPreserved
<1>2. /\ worker' \in WorkerRec \cup {None} /\ (worker' = None <=> worker = None)
      /\ worker # None => worker'.at = worker.at
  <2>1. CASE UNCHANGED worker
    BY <1>1, <2>1
  <2>2. CASE Pause \/ Stop
    <3>1. worker' = IF worker = None THEN None ELSE [worker EXCEPT !.doomed = TRUE]
      BY <2>2 DEF Pause, Stop, Interrupt
    <3>2. CASE worker # None
      <4>1. worker' \in WorkerRec /\ worker'.at = worker.at
        BY <1>1, <3>1, <3>2 DEF WorkerRec
      <4>2. QED BY <3>2, <4>1, NoneAssumption
    <3>3. QED BY <1>1, <3>1, <3>2
  <2>3. QED BY <2>1, <2>2 DEF Resume, CancelPreserved
<1>3. /\ preserved' \in [Obs -> PreservedRec \cup {None}]
      /\ \A o \in Obs : preserved'[o] # None <=> preserved[o] # None
  <2>1. CASE UNCHANGED preserved
    BY <1>1, <2>1
  <2>2. CASE Pause \/ Stop
    <3>1. preserved' = [o \in Obs |-> IF preserved[o] = None THEN None
                                      ELSE [preserved[o] EXCEPT !.doomed = TRUE]]
      BY <2>2 DEF Pause, Stop, Interrupt
    <3>2. \A r \in PreservedRec : [r EXCEPT !.doomed = TRUE] \in PreservedRec
      BY DEF PreservedRec
    <3>3. QED BY <1>1, <3>1, <3>2, NoneAssumption
  <2>3. CASE \E o \in Obs : CancelPreserved(o)
    <3>1. [exec |-> "cancelling", doomed |-> FALSE] \in PreservedRec
      BY DEF PreservedRec
    <3>2. PICK o \in Obs : /\ preserved[o] # None
                           /\ preserved' = [preserved EXCEPT ![o] = [exec |-> "cancelling", doomed |-> FALSE]]
      BY <2>3 DEF CancelPreserved
    <3>3. QED BY <1>1, <3>1, <3>2, NoneAssumption
  <2>4. QED BY <2>1, <2>2, <2>3 DEF Resume
<1>4. life' \in {"running", "paused", "stopped"}
  BY <1>1 DEF Pause, Resume, Stop, Interrupt, CancelPreserved
<1>5. TypeOK'
  BY <1>1, <1>2, <1>3, <1>4 DEF TypeOK
<1>6. NoIdleEntry' /\ WorkInv'
  BY <1>1, <1>2, <1>3 DEF NoIdleEntry, NothingPreserved, WorkInv
<1>7. QED BY <1>1, <1>3, <1>5, <1>6, Undisturbed DEF IInv

---------------------------------------------------------------------------
(* The theorems.                                                           *)

\* A session that starts keeps nothing.
LEMMA InitEstablishes == Init => IInv
<1> SUFFICES ASSUME Init PROVE IInv
  OBVIOUS
<1>1. /\ life = "running" /\ kind = [o \in Obs |-> None] /\ completion = [o \in Obs |-> None]
      /\ tracked = FALSE /\ pending = None /\ running = None /\ worker = None
      /\ preserved = [o \in Obs |-> None] /\ beaten = {}
  BY DEF Init
<1>2. TypeOK
  BY <1>1 DEF TypeOK
<1>3. NoIdleEntry /\ WorkInv /\ PreservedInv /\ BeatenInv
  BY <1>1 DEF NoIdleEntry, WorkInv, PreservedInv, BeatenInv
<1>4. ItemInv
  BY <1>1 DEF ItemInv, In
<1>5. QED BY <1>2, <1>3, <1>4 DEF IInv

\* Every step of the scheduler keeps the invariant.
LEMMA NextKeeps == IInv /\ [Next]_vars => IInv'
<1> SUFFICES ASSUME IInv, [Next]_vars PROVE IInv'
  OBVIOUS
<1>1. CASE UNCHANGED vars
  <2>1. UNCHANGED <<life, kind, completion, tracked, pending, running, worker, preserved, beaten>>
    BY <1>1 DEF vars
  <2>2. TypeOK' /\ NoIdleEntry' /\ WorkInv'
    BY <2>1 DEF IInv, TypeOK, NoIdleEntry, NothingPreserved, WorkInv
  <2>3. QED BY <2>1, <2>2, Undisturbed DEF IInv
<1>2. ASSUME NEW o \in Obs, SubmitUser(o) PROVE IInv'
  BY <1>2, SubmitUserKeeps
<1>3. ASSUME NEW o \in Obs, NEW k \in Kinds \ {"user"}, Submit(o, k) PROVE IInv'
  BY <1>3, RefusedKeeps, MergedKeeps, PendingKeeps DEF Submit
<1>4. CASE WorkerTakes \/ ExecutionEnds \/ CancelWorker
  BY <1>4, WorkerKeeps
<1>5. CASE WorkerResolves
  BY <1>5, ResolvesKeeps
<1>6. CASE WorkerDies \/ CancelSession
  BY <1>6, EndsKeep
<1>7. ASSUME NEW o \in Obs, PreservedEnds(o) PROVE IInv'
  BY <1>7, PreservedEndsKeeps
<1>8. CASE Pause \/ Resume \/ Stop \/ \E o \in Obs : CancelPreserved(o)
  BY <1>8, SessionKeeps
<1>9. QED BY <1>1, <1>2, <1>3, <1>4, <1>5, <1>6, <1>7, <1>8 DEF Next

\* The inductive invariant holds in every reachable state.
THEOREM Invariance == Spec => []IInv
<1>1. QED BY InitEstablishes, NextKeeps, PTL DEF Spec

\* The entry of a session is well formed and never outlives its tasks, so that idle
\* sessions cannot use up max_tracked_sessions.
THEOREM EntriesAreSound == Spec => []EntrySound
<1>1. IInv => EntrySound
  BY DEF IInv, EntrySound
<1>2. QED BY <1>1, Invariance, PTL

\* A reaction that was superseded while it ran never counts, whatever its executor
\* returns and whoever else is cancelled meanwhile.
THEOREM SupersededNeverCounts == Spec => []SupersededHasNoResult
<1>1. IInv => SupersededHasNoResult
  BY DEF IInv, BeatenInv, SupersededHasNoResult
<1>2. QED BY <1>1, Invariance, PTL

---------------------------------------------------------------------------
(* Queues without repetition.                                              *)

\* Who is in a queue, and where.
LEMMA QueuePlaces ==
  ASSUME NEW S, NEW q \in Seq(S)
  PROVE  /\ Len(q) \in Nat /\ DOMAIN q = 1..Len(q)
         /\ \A i \in 1..Len(q) : q[i] \in S /\ q[i] \in ToSet(q)
         /\ \A x : x \in ToSet(q) <=> \E i \in 1..Len(q) : q[i] = x
         /\ ToSet(q) \subseteq S
         /\ IsInjective(q) <=> \A i, j \in 1..Len(q) : q[i] = q[j] => i = j
         /\ q = <<>> <=> Len(q) = 0
         /\ q # <<>> => 1 \in 1..Len(q) /\ Head(q) = q[1]
<1>1. /\ Len(q) \in Nat /\ DOMAIN q = 1..Len(q)
      /\ \A i \in 1..Len(q) : q[i] \in S
  BY LenProperties
<1>2. \A x : x \in ToSet(q) <=> \E i \in 1..Len(q) : q[i] = x
  BY <1>1 DEF ToSet
<1>3. IsInjective(q) <=> \A i, j \in 1..Len(q) : q[i] = q[j] => i = j
  BY <1>1 DEF IsInjective
<1>4. q = <<>> <=> Len(q) = 0
  BY EmptySeq, <1>1
<1>5. q # <<>> => 1 \in 1..Len(q) /\ Head(q) = q[1]
  BY <1>1, <1>4
<1>6. QED BY <1>1, <1>2, <1>3, <1>4, <1>5

\* One joins the end of a queue it is not in.
LEMMA QueueJoined ==
  ASSUME NEW S, NEW q \in Seq(S), IsInjective(q), NEW e \in S, e \notin ToSet(q)
  PROVE  /\ Append(q, e) \in Seq(S) /\ Len(Append(q, e)) = Len(q) + 1
         /\ IsInjective(Append(q, e)) /\ ToSet(Append(q, e)) = ToSet(q) \cup {e}
<1>0. PICK r : r = Append(q, e)
  OBVIOUS
<1>1. /\ r \in Seq(S) /\ Len(r) = Len(q) + 1 /\ Len(q) \in Nat
      /\ \A i \in 1..Len(q) : r[i] = q[i]
      /\ r[Len(q) + 1] = e
  <2>1. /\ Append(q, e) \in Seq(S) /\ Len(Append(q, e)) = Len(q) + 1 /\ Len(q) \in Nat
        /\ \A i \in 1..Len(q) : Append(q, e)[i] = q[i]
        /\ Append(q, e)[Len(q) + 1] = e
    BY AppendProperties, LenProperties
  <2>2. QED BY <1>0, <2>1
<1>2. /\ \A x : x \in ToSet(q) <=> \E i \in 1..Len(q) : q[i] = x
      /\ \A i, j \in 1..Len(q) : q[i] = q[j] => i = j
      /\ q = <<>> <=> Len(q) = 0
      /\ q # <<>> => 1 \in 1..Len(q) /\ Head(q) = q[1]
  BY QueuePlaces
<1>3. /\ \A x : x \in ToSet(r) <=> \E i \in 1..Len(r) : r[i] = x
      /\ IsInjective(r) <=> \A i, j \in 1..Len(r) : r[i] = r[j] => i = j
      /\ r = <<>> <=> Len(r) = 0
      /\ r # <<>> => 1 \in 1..Len(r) /\ Head(r) = r[1]
  <2>1. PICK p \in Seq(S) : p = r
    BY <1>1
  <2>2. /\ \A x : x \in ToSet(p) <=> \E i \in 1..Len(p) : p[i] = x
        /\ IsInjective(p) <=> \A i, j \in 1..Len(p) : p[i] = p[j] => i = j
        /\ p = <<>> <=> Len(p) = 0
        /\ p # <<>> => 1 \in 1..Len(p) /\ Head(p) = p[1]
    BY QueuePlaces
  <2>3. QED BY <2>1, <2>2
<1>5. \A x : x \in ToSet(r) <=> x \in ToSet(q) \/ x = e
  BY <1>1, <1>2, <1>3
<1>6. ToSet(r) = ToSet(q) \cup {e}
  BY <1>5, Zenon
<1>7. ASSUME NEW i \in 1..Len(r), NEW j \in 1..Len(r), r[i] = r[j] PROVE i = j
  <2>1. \A k \in 1..Len(q) : r[k] # e
    BY <1>1, <1>2
  <2>2. i \in 1..Len(q) \/ i = Len(q) + 1
    BY <1>1
  <2>3. j \in 1..Len(q) \/ j = Len(q) + 1
    BY <1>1
  <2>4. QED BY <1>1, <1>2, <1>7, <2>1, <2>2, <2>3
<1>8. QED BY <1>0, <1>1, <1>3, <1>6, <1>7

\* The first of a queue leaves it.
LEMMA QueueTail ==
  ASSUME NEW S, NEW q \in Seq(S), IsInjective(q), q # <<>>, NEW r, r = Tail(q)
  PROVE  /\ r \in Seq(S) /\ Len(r) = Len(q) - 1 /\ Len(q) \in Nat \ {0} /\ IsInjective(r)
         /\ ToSet(r) = ToSet(q) \ {Head(q)} /\ Head(q) \in ToSet(q)
<1>1. /\ r \in Seq(S) /\ Len(r) = Len(q) - 1 /\ Len(q) \in Nat \ {0}
      /\ \A i \in 1..Len(q)-1 : r[i] = q[i+1]
  <2>1. Len(q) \in Nat \ {0}
    BY EmptySeq
  <2>2. /\ Tail(q) \in Seq(S) /\ Len(Tail(q)) = Len(q) - 1
        /\ \A i \in 1..Len(Tail(q)) : Tail(q)[i] = q[i+1]
    BY HeadTailProperties
  <2>3. QED BY <2>1, <2>2
<1>2. /\ \A x : x \in ToSet(q) <=> \E i \in 1..Len(q) : q[i] = x
      /\ \A i, j \in 1..Len(q) : q[i] = q[j] => i = j
      /\ 1 \in 1..Len(q) /\ Head(q) = q[1]
  BY QueuePlaces
<1>3. /\ \A x : x \in ToSet(r) <=> \E i \in 1..Len(r) : r[i] = x
      /\ IsInjective(r) <=> \A i, j \in 1..Len(r) : r[i] = r[j] => i = j
  <2>1. PICK p \in Seq(S) : p = r
    BY <1>1
  <2>2. /\ \A x : x \in ToSet(p) <=> \E i \in 1..Len(p) : p[i] = x
        /\ IsInjective(p) <=> \A i, j \in 1..Len(p) : p[i] = p[j] => i = j
    BY QueuePlaces
  <2>3. QED BY <2>1, <2>2
<1>4. \A i \in 1..Len(r) : i + 1 \in 1..Len(q) /\ r[i] = q[i+1] /\ i + 1 # 1
  BY <1>1
<1>5. \A i \in 1..Len(q) : i # 1 => i - 1 \in 1..Len(r) /\ r[i-1] = q[i]
  BY <1>1
<1>6. \A x : x \in ToSet(r) <=> x \in ToSet(q) /\ x # Head(q)
  <2>1. ASSUME NEW x, x \in ToSet(r) PROVE x \in ToSet(q) /\ x # Head(q)
    <3>1. PICK i \in 1..Len(r) : r[i] = x
      BY <1>3, <2>1
    <3>2. i + 1 \in 1..Len(q) /\ q[i+1] = x /\ i + 1 # 1
      BY <1>4, <3>1
    <3>3. QED BY <1>2, <3>2
  <2>2. ASSUME NEW x, x \in ToSet(q), x # Head(q) PROVE x \in ToSet(r)
    <3>1. PICK i \in 1..Len(q) : q[i] = x
      BY <1>2, <2>2
    <3>2. i # 1
      BY <1>2, <2>2, <3>1
    <3>3. QED BY <1>3, <1>5, <3>1, <3>2
  <2>3. QED BY <2>1, <2>2
<1>7. ToSet(r) = ToSet(q) \ {Head(q)}
  BY <1>6, Zenon
<1>8. ASSUME NEW i \in 1..Len(r), NEW j \in 1..Len(r), r[i] = r[j] PROVE i = j
  <2>1. i + 1 = j + 1
    BY <1>2, <1>4, <1>8
  <2>2. QED BY <1>1, <2>1
<1>9. QED BY <1>1, <1>2, <1>3, <1>7, <1>8

\* One leaves a queue, wherever it stands.
LEMMA QueueLeft ==
  ASSUME NEW S, NEW q \in Seq(S), IsInjective(q), NEW e, NEW r, r = RemoveFirst(q, e)
  PROVE  /\ r \in Seq(S) /\ IsInjective(r) /\ ToSet(r) = ToSet(q) \ {e}
         /\ Len(r) = IF e \in ToSet(q) THEN Len(q) - 1 ELSE Len(q)
         /\ r # <<>> /\ Head(q) # e => q # <<>> /\ Head(r) = Head(q)
<1>1. /\ Len(q) \in Nat
      /\ \A x : x \in ToSet(q) <=> \E i \in 1..Len(q) : q[i] = x
      /\ \A i, j \in 1..Len(q) : q[i] = q[j] => i = j
      /\ q = <<>> <=> Len(q) = 0
      /\ q # <<>> => 1 \in 1..Len(q) /\ Head(q) = q[1]
  BY QueuePlaces
<1>2. CASE e \notin ToSet(q)
  <2>1. r = q
    BY <1>1, <1>2 DEF RemoveFirst
  <2>2. ToSet(q) = ToSet(q) \ {e}
    BY <1>2
  <2>3. QED BY <1>1, <1>2, <2>1, <2>2
<1>3. CASE e \in ToSet(q)
  <2>1. PICK k \in 1..Len(q) : q[k] = e
    BY <1>1, <1>3
  <2>2. {i \in 1..Len(q) : q[i] = e} = {k}
    BY <1>1, <2>1
  <2>3. Min({k}) = k
    BY <1>1 DEF Min
  <2>4. SelectInSeq(q, LAMBDA v : v = e) = k
    BY <2>2, <2>3 DEF SelectInSeq
  <2>5. r = SubSeq(q, 1, k-1) \o SubSeq(q, k+1, Len(q))
    BY <2>1, <2>4 DEF RemoveFirst, RemoveAt
  <2>6. PICK a : a = SubSeq(q, 1, k-1)
    OBVIOUS
  <2>7. PICK b : b = SubSeq(q, k+1, Len(q))
    OBVIOUS
  <2>8. /\ a \in Seq(S) /\ Len(a) = k - 1
        /\ \A i \in 1..k-1 : a[i] = q[i]
    <3>1. \A i \in 1..k-1 : i \in 1..Len(q)
      BY <1>1
    <3>2. QED BY <1>1, <2>6, <3>1, SubSeqProperties
  <2>9. /\ b \in Seq(S) /\ Len(b) = Len(q) - k
        /\ \A i \in 1..Len(q)-k : b[i] = q[k+i]
    <3>1. \A i \in k+1..Len(q) : i \in 1..Len(q)
      BY <1>1
    <3>2. b \in Seq(S) /\ Len(b) = (IF k+1 <= Len(q) THEN Len(q) - (k+1) + 1 ELSE 0)
          /\ \A i \in 1..Len(q)-(k+1)+1 : b[i] = q[(k+1)+i-1]
      BY <1>1, <2>7, <3>1, SubSeqProperties
    <3>3. Len(b) = Len(q) - k
      BY <1>1, <3>2
    <3>4. ASSUME NEW i \in 1..Len(q)-k PROVE b[i] = q[k+i]
      <4>1. i \in 1..Len(q)-(k+1)+1 /\ (k+1)+i-1 = k+i
        BY <1>1
      <4>2. QED BY <3>2, <4>1
    <3>5. QED BY <3>2, <3>3, <3>4
  <2>10. /\ r \in Seq(S) /\ Len(r) = Len(q) - 1
         /\ \A i \in 1..k-1 : r[i] = q[i]
         /\ \A i \in k..Len(q)-1 : r[i] = q[i+1]
    <3>1. r = a \o b
      BY <2>5, <2>6, <2>7
    <3>2. /\ r \in Seq(S) /\ Len(r) = Len(a) + Len(b)
          /\ \A i \in 1..Len(a) + Len(b) : r[i] = IF i <= Len(a) THEN a[i] ELSE b[i - Len(a)]
      <4>1. /\ a \o b \in Seq(S) /\ Len(a \o b) = Len(a) + Len(b)
            /\ \A i \in 1..Len(a) + Len(b) :
                 (a \o b)[i] = IF i <= Len(a) THEN a[i] ELSE b[i - Len(a)]
        BY <2>8, <2>9, ConcatProperties
      <4>2. QED BY <3>1, <4>1
    <3>3. ASSUME NEW i \in 1..k-1 PROVE r[i] = q[i]
      <4>1. i \in 1..Len(a) + Len(b) /\ i <= Len(a)
        BY <1>1, <2>8, <2>9
      <4>2. QED BY <2>8, <3>2, <4>1
    <3>4. ASSUME NEW i \in k..Len(q)-1 PROVE r[i] = q[i+1]
      <4>1. i \in 1..Len(a) + Len(b) /\ ~(i <= Len(a)) /\ i - Len(a) \in 1..Len(q)-k
            /\ k + (i - Len(a)) = i + 1
        BY <1>1, <2>8, <2>9
      <4>2. QED BY <2>9, <3>2, <4>1
    <3>5. QED BY <1>1, <2>8, <2>9, <3>2, <3>3, <3>4
  <2>11. /\ \A x : x \in ToSet(r) <=> \E i \in 1..Len(r) : r[i] = x
         /\ IsInjective(r) <=> \A i, j \in 1..Len(r) : r[i] = r[j] => i = j
         /\ r = <<>> <=> Len(r) = 0
         /\ r # <<>> => 1 \in 1..Len(r) /\ Head(r) = r[1]
    <3>1. PICK p \in Seq(S) : p = r
      BY <2>10
    <3>2. /\ \A x : x \in ToSet(p) <=> \E i \in 1..Len(p) : p[i] = x
          /\ IsInjective(p) <=> \A i, j \in 1..Len(p) : p[i] = p[j] => i = j
          /\ p = <<>> <=> Len(p) = 0
          /\ p # <<>> => 1 \in 1..Len(p) /\ Head(p) = p[1]
      BY QueuePlaces
    <3>3. QED BY <3>1, <3>2
  <2>12. DEFINE at(i) == IF i < k THEN i ELSE i + 1
  <2>13. \A i \in 1..Len(r) : at(i) \in 1..Len(q) /\ at(i) # k /\ r[i] = q[at(i)]
    BY <1>1, <2>10
  <2>14. \A i, j \in 1..Len(r) : at(i) = at(j) => i = j
    BY <1>1, <2>10
  <2>15. IsInjective(r)
    <3> HIDE DEF at
    <3>1. QED BY <1>1, <2>11, <2>13, <2>14
  <2>16. \A x : x \in ToSet(r) <=> x \in ToSet(q) /\ x # e
    <3>1. ASSUME NEW x, x \in ToSet(r) PROVE x \in ToSet(q) /\ x # e
      <4>1. PICK i \in 1..Len(r) : r[i] = x
        BY <2>11, <3>1
      <4>2. PICK j \in 1..Len(q) : j # k /\ q[j] = x
        BY <2>13, <4>1
      <4>3. QED BY <1>1, <2>1, <4>2
    <3>2. ASSUME NEW x, x \in ToSet(q), x # e PROVE x \in ToSet(r)
      <4>1. PICK j \in 1..Len(q) : q[j] = x
        BY <1>1, <3>2
      <4>2. j # k
        BY <2>1, <3>2, <4>1
      <4>3. CASE j < k
        <5>1. j \in 1..k-1 /\ j \in 1..Len(r)
          BY <1>1, <2>10, <4>3
        <5>2. QED BY <2>10, <2>11, <4>1, <5>1
      <4>4. CASE j > k
        <5>1. j - 1 \in k..Len(q)-1 /\ j - 1 \in 1..Len(r) /\ (j - 1) + 1 = j
          BY <1>1, <2>10, <4>4
        <5>2. r[j - 1] = x
          BY <2>10, <4>1, <5>1
        <5>3. QED BY <2>11, <5>1, <5>2
      <4>5. QED BY <1>1, <4>2, <4>3, <4>4
    <3>3. QED BY <3>1, <3>2
  <2>17. ToSet(r) = ToSet(q) \ {e}
    BY <2>16, Zenon
  <2>18. ASSUME r # <<>>, Head(q) # e PROVE q # <<>> /\ Head(r) = Head(q)
    <3>1. q # <<>> /\ Head(q) = q[1] /\ Head(r) = r[1]
      BY <1>1, <2>1, <2>11, <2>18
    <3>2. 1 \in 1..k-1
      BY <1>1, <2>1, <2>18, <3>1
    <3>3. QED BY <2>10, <3>1, <3>2
  <2>19. QED BY <1>3, <2>10, <2>15, <2>17, <2>18
<1>4. QED BY <1>2, <1>3

---------------------------------------------------------------------------
(* The gate: what each operator on it leaves of its books.                 *)

\* The gate has its fields and no others.
IsGate(g) ==
    g = [limit |-> g.limit, line |-> g.line, stance |-> g.stance, active |-> g.active,
         ready |-> g.ready, cool |-> g.cool, alarm |-> g.alarm, streak |-> g.streak,
         current |-> g.current]

\* The gate g counts exactly the calls in R and lines up exactly those in L; who is
\* first in the line waits to be told only while every lease is out.
Fits(g, L, R) ==
    /\ IsGate(g)
    /\ g.limit \in Nat /\ g.active \in Nat
    /\ g.line \in Seq(Calls) /\ g.stance \in [Calls -> Stances]
    /\ L \subseteq Calls /\ R \subseteq Calls
    /\ \A c \in Calls : g.stance[c] = "lease" <=> c \in R
    /\ g.active = Cardinality(R) /\ g.active <= g.limit
    /\ IsInjective(g.line) /\ ToSet(g.line) = L
    /\ g.line # <<>> /\ g.stance[Head(g.line)] = "wait" => g.active = g.limit

\* Holders are finite many.
LEMMA HoldersCounted ==
  ASSUME NEW R \in SUBSET Calls
  PROVE  /\ IsFiniteSet(R) /\ Cardinality(R) \in Nat
         /\ \A c : c \notin R => Cardinality(R \cup {c}) = Cardinality(R) + 1
         /\ \A c : c \in R => Cardinality(R \ {c}) = Cardinality(R) - 1
BY CallsFinite, FS_Subset, FS_CardinalityType, FS_AddElement, FS_RemoveElement

\* After everybody was told, nobody waits to be told.
LEMMA NotifyFacts ==
  ASSUME NEW g, NEW L, NEW R, IsGate(g),
         g.limit \in Nat, g.active \in Nat, g.line \in Seq(Calls), g.stance \in [Calls -> Stances],
         L \subseteq Calls, R \subseteq Calls,
         \A c \in Calls : g.stance[c] = "lease" <=> c \in R,
         g.active = Cardinality(R), g.active <= g.limit,
         IsInjective(g.line), ToSet(g.line) = L,
         NEW h, h = Notify(g)
  PROVE  /\ Fits(h, L, R)
         /\ \A c \in Calls : h.stance[c] = IF g.stance[c] = "wait" THEN "look" ELSE g.stance[c]
<1>1. /\ IsGate(h)
      /\ h.limit = g.limit /\ h.line = g.line /\ h.active = g.active
      /\ h.stance = [c \in Calls |-> IF g.stance[c] = "wait" THEN "look" ELSE g.stance[c]]
  BY DEF IsGate, Notify
<1>2. h.stance \in [Calls -> Stances]
  BY <1>1 DEF Stances
<1>3. h.line # <<>> => Head(h.line) \in Calls
  BY <1>1, QueuePlaces
<1>4. \A c \in Calls : h.stance[c] # "wait"
  BY <1>1
<1>5. \A c \in Calls : h.stance[c] = "lease" <=> c \in R
  BY <1>1
<1>6. QED BY <1>1, <1>2, <1>3, <1>4, <1>5 DEF Fits

\* A new gate.
LEMMA OpenFacts ==
  ASSUME NEW n \in Nat
  PROVE  Fits(OpenGate(n), {}, {})
<1> DEFINE g == OpenGate(n)
<1>1. /\ IsGate(g) /\ g.limit = n /\ g.line = <<>> /\ g.active = 0
      /\ g.stance = [c \in Calls |-> "out"]
  BY DEF OpenGate, IsGate
<1>2. <<>> \in Seq(Calls) /\ ToSet(<<>>) = {} /\ IsInjective(<<>>) /\ Cardinality({}) = 0
  <2>1. <<>> \in Seq(Calls) /\ Len(<<>>) = 0
    BY EmptySeq
  <2>2. PICK e \in Seq(Calls) : e = <<>>
    BY <2>1
  <2>3. /\ \A x : x \in ToSet(e) <=> \E i \in 1..Len(e) : e[i] = x
        /\ IsInjective(e) <=> \A i, j \in 1..Len(e) : e[i] = e[j] => i = j
    BY QueuePlaces
  <2>4. Len(e) = 0
    BY <2>1, <2>2
  <2>5. IsInjective(e) /\ \A x : x \notin ToSet(e)
    BY <2>3, <2>4
  <2>6. QED BY <2>1, <2>2, <2>5, FS_EmptySet
<1> HIDE DEF g
<1>3. g.stance \in [Calls -> Stances]
  BY <1>1 DEF Stances
<1>4. Fits(g, {}, {})
  BY <1>1, <1>2, <1>3 DEF Fits
<1>5. QED BY <1>4 DEF g

\* A call that asks for a lease joins the line.
LEMMA JoinFacts ==
  ASSUME NEW g, NEW L, NEW R, Fits(g, L, R), NEW c \in Calls, c \notin L, c \notin R,
         NEW h, h = Join(g, c)
  PROVE  Fits(h, L \cup {c}, R)
<1>1. PICK f : f = [g EXCEPT !.line = Append(@, c), !.stance[c] = "look"]
  OBVIOUS
<1>2. /\ IsGate(f)
      /\ f.limit = g.limit /\ f.line = Append(g.line, c) /\ f.active = g.active
      /\ f.stance = [g.stance EXCEPT ![c] = "look"]
  BY <1>1 DEF IsGate, Fits
<1>3. /\ g.line \in Seq(Calls) /\ IsInjective(g.line) /\ c \notin ToSet(g.line)
      /\ g.limit \in Nat /\ g.active \in Nat /\ g.stance \in [Calls -> Stances]
      /\ \A d \in Calls : g.stance[d] = "lease" <=> d \in R
      /\ L \subseteq Calls /\ R \subseteq Calls
      /\ g.active = Cardinality(R) /\ g.active <= g.limit /\ ToSet(g.line) = L
  BY DEF Fits
<1>4. PICK q : q = g.line
  OBVIOUS
<1>5. q \in Seq(Calls) /\ IsInjective(q) /\ c \notin ToSet(q)
  BY <1>3, <1>4
<1>6. PICK r : r = Append(q, c)
  OBVIOUS
<1>7. r \in Seq(Calls) /\ IsInjective(r) /\ ToSet(r) = ToSet(q) \cup {c}
  <2>1. /\ Append(q, c) \in Seq(Calls) /\ IsInjective(Append(q, c))
        /\ ToSet(Append(q, c)) = ToSet(q) \cup {c}
    BY <1>5, QueueJoined
  <2>2. QED BY <1>6, <2>1
<1>8. f.line \in Seq(Calls) /\ IsInjective(f.line) /\ ToSet(f.line) = L \cup {c}
  BY <1>2, <1>3, <1>4, <1>6, <1>7
<1>9. f.stance \in [Calls -> Stances] /\ \A d \in Calls : f.stance[d] = "lease" <=> d \in R
  BY <1>2, <1>3 DEF Stances
<1>10. h = Notify(f)
  BY <1>1 DEF Join
<1>11. L \cup {c} \subseteq Calls
  BY <1>3
<1>12. f.limit \in Nat /\ f.active \in Nat /\ f.active = Cardinality(R) /\ f.active <= f.limit
  BY <1>2, <1>3
<1>13. QED BY <1>2, <1>3, <1>8, <1>9, <1>10, <1>11, <1>12, NotifyFacts

\* A call that is cancelled leaves the line.
LEMMA LeaveFacts ==
  ASSUME NEW g, NEW L, NEW R, Fits(g, L, R), NEW c \in Calls, c \notin R,
         NEW h, h = Leave(g, c)
  PROVE  Fits(h, L \ {c}, R)
<1>1. PICK f : f = [g EXCEPT !.line = RemoveFirst(@, c), !.stance[c] = "out"]
  OBVIOUS
<1>2. /\ IsGate(f)
      /\ f.limit = g.limit /\ f.line = RemoveFirst(g.line, c) /\ f.active = g.active
      /\ f.stance = [g.stance EXCEPT ![c] = "out"]
  BY <1>1 DEF IsGate, Fits
<1>3. /\ g.line \in Seq(Calls) /\ IsInjective(g.line)
      /\ g.limit \in Nat /\ g.active \in Nat /\ g.stance \in [Calls -> Stances]
      /\ \A d \in Calls : g.stance[d] = "lease" <=> d \in R
      /\ L \subseteq Calls /\ R \subseteq Calls
      /\ g.active = Cardinality(R) /\ g.active <= g.limit /\ ToSet(g.line) = L
  BY DEF Fits
<1>4. PICK q : q = g.line
  OBVIOUS
<1>5. q \in Seq(Calls) /\ IsInjective(q)
  BY <1>3, <1>4
<1>6. PICK r : r = RemoveFirst(q, c)
  OBVIOUS
<1>7. r \in Seq(Calls) /\ IsInjective(r) /\ ToSet(r) = ToSet(q) \ {c}
  BY <1>5, <1>6, QueueLeft
<1>8. f.line \in Seq(Calls) /\ IsInjective(f.line) /\ ToSet(f.line) = L \ {c}
  BY <1>2, <1>3, <1>4, <1>6, <1>7
<1>9. f.stance \in [Calls -> Stances] /\ \A d \in Calls : f.stance[d] = "lease" <=> d \in R
  BY <1>2, <1>3 DEF Stances
<1>10. h = Notify(f)
  BY <1>1 DEF Leave
<1>11. L \ {c} \subseteq Calls
  BY <1>3
<1>12. f.limit \in Nat /\ f.active \in Nat /\ f.active = Cardinality(R) /\ f.active <= f.limit
  BY <1>2, <1>3
<1>13. QED BY <1>2, <1>3, <1>8, <1>9, <1>10, <1>11, <1>12, NotifyFacts

\* A lease comes back.
LEMMA ReleaseFacts ==
  ASSUME NEW g, NEW L, NEW R, Fits(g, L, R), NEW c \in R,
         NEW h, h = Release(g, c)
  PROVE  Fits(h, L, R \ {c}) /\ h.stance[c] # "lease"
<1>1. PICK f : f = [g EXCEPT !.active = @ - 1, !.stance[c] = "out", !.current = @ \ {c}]
  OBVIOUS
<1>2. /\ IsGate(f)
      /\ f.limit = g.limit /\ f.line = g.line /\ f.active = g.active - 1
      /\ f.stance = [g.stance EXCEPT ![c] = "out"]
  BY <1>1 DEF IsGate, Fits
<1>3. /\ g.line \in Seq(Calls) /\ IsInjective(g.line)
      /\ g.limit \in Nat /\ g.active \in Nat /\ g.stance \in [Calls -> Stances]
      /\ \A d \in Calls : g.stance[d] = "lease" <=> d \in R
      /\ L \subseteq Calls /\ R \subseteq Calls
      /\ g.active = Cardinality(R) /\ g.active <= g.limit /\ ToSet(g.line) = L
  BY DEF Fits
<1>4. Cardinality(R \ {c}) = Cardinality(R) - 1 /\ Cardinality(R \ {c}) \in Nat
  <2>1. Cardinality(R \ {c}) = Cardinality(R) - 1
    BY <1>3, HoldersCounted
  <2>2. R \ {c} \in SUBSET Calls
    BY <1>3
  <2>3. PICK T \in SUBSET Calls : T = R \ {c}
    BY <2>2
  <2>4. Cardinality(T) \in Nat
    BY HoldersCounted
  <2>5. QED BY <2>1, <2>3, <2>4
<1>5. f.active \in Nat /\ f.active = Cardinality(R \ {c}) /\ f.active <= f.limit /\ f.limit \in Nat
  BY <1>2, <1>3, <1>4
<1>6. f.stance \in [Calls -> Stances] /\ \A d \in Calls : f.stance[d] = "lease" <=> d \in R \ {c}
  BY <1>2, <1>3 DEF Stances
<1>7. h = Notify(f)
  BY <1>1 DEF Release
<1>8. R \ {c} \subseteq Calls /\ c \in Calls
  BY <1>3
<1>9. f.line \in Seq(Calls) /\ IsInjective(f.line) /\ ToSet(f.line) = L
  BY <1>2, <1>3
<1>10. Fits(h, L, R \ {c})
  BY <1>2, <1>3, <1>5, <1>6, <1>7, <1>8, <1>9, NotifyFacts
<1>11. QED BY <1>8, <1>10 DEF Fits

\* An answer may end a streak, which is nothing to the leases.
LEMMA PraiseFacts ==
  ASSUME NEW g, NEW L, NEW R, Fits(g, L, R), NEW c, NEW h, h = Praise(g, c)
  PROVE  Fits(h, L, R)
<1>1. /\ IsGate(h)
      /\ h.limit = g.limit /\ h.line = g.line /\ h.active = g.active /\ h.stance = g.stance
  BY DEF IsGate, Fits, Praise
<1>2. QED BY <1>1 DEF Fits

\* Time passes.
LEMMA LaterFacts ==
  ASSUME NEW g, NEW L, NEW R, Fits(g, L, R), NEW h, h = Later(g)
  PROVE  Fits(h, L, R)
<1>1. /\ IsGate(h)
      /\ h.limit = g.limit /\ h.line = g.line /\ h.active = g.active /\ h.stance = g.stance
  BY DEF IsGate, Fits, Later
<1>2. QED BY <1>1 DEF Fits

\* A 429 starts a cooldown and tells everybody.
LEMMA DeferFacts ==
  ASSUME NEW g, NEW L, NEW R, Fits(g, L, R), NEW a, NEW h, h = Defer(g, a)
  PROVE  Fits(h, L, R)
<1> DEFINE streak == Least(g.streak + 1, MaxStreak)
           delay == IF a = {} THEN Least(Fallback * 2 ^ (streak - 1), MaxBackoff)
                    ELSE CHOOSE n \in a : TRUE
           cool == Most(g.cool, delay)
           e == [g EXCEPT !.streak = streak, !.cool = cool, !.ready = Most(@, cool),
                          !.current = {}]
<1>1. h = Notify(e)
  BY DEF Defer
<1> HIDE DEF streak, delay, cool
<1>2. PICK f : f = e
  OBVIOUS
<1>3. /\ IsGate(f)
      /\ f.limit = g.limit /\ f.line = g.line /\ f.active = g.active /\ f.stance = g.stance
  BY <1>2 DEF IsGate, Fits
<1>4. /\ f.line \in Seq(Calls) /\ IsInjective(f.line)
      /\ f.limit \in Nat /\ f.active \in Nat /\ f.stance \in [Calls -> Stances]
      /\ \A d \in Calls : f.stance[d] = "lease" <=> d \in R
      /\ L \subseteq Calls /\ R \subseteq Calls
      /\ f.active = Cardinality(R) /\ f.active <= f.limit /\ ToSet(f.line) = L
  BY <1>3 DEF Fits
<1>5. h = Notify(f)
  BY <1>1, <1>2
<1> HIDE DEF e
<1>6. QED BY <1>3, <1>4, <1>5, NotifyFacts

\* A call in the line looks: it gets a lease, or stays in the line.
LEMMA LookFacts ==
  ASSUME NEW g, NEW L, NEW R, Fits(g, L, R), NEW c \in Calls, c \in L, c \notin R,
         NEW h, h = Look(g, c)
  PROVE  \/ h.stance[c] = "lease" /\ Fits(h, L \ {c}, R \cup {c})
         \/ h.stance[c] # "lease" /\ Fits(h, L, R)
<1>1. /\ IsGate(g) /\ g.line \in Seq(Calls) /\ IsInjective(g.line)
      /\ g.limit \in Nat /\ g.active \in Nat /\ g.stance \in [Calls -> Stances]
      /\ \A d \in Calls : g.stance[d] = "lease" <=> d \in R
      /\ L \subseteq Calls /\ R \subseteq Calls
      /\ g.active = Cardinality(R) /\ g.active <= g.limit /\ ToSet(g.line) = L
      /\ g.line # <<>> /\ g.stance[Head(g.line)] = "wait" => g.active = g.limit
  BY DEF Fits
<1>2. PICK q : q = g.line
  OBVIOUS
<1>3. q \in Seq(Calls) /\ IsInjective(q) /\ c \in ToSet(q)
  BY <1>1, <1>2
<1>4. q # <<>> /\ Head(q) = q[1] /\ Head(q) \in Calls
  <2>1. /\ \A x : x \in ToSet(q) <=> \E i \in 1..Len(q) : q[i] = x
        /\ q = <<>> <=> Len(q) = 0
        /\ q # <<>> => 1 \in 1..Len(q) /\ Head(q) = q[1]
        /\ \A i \in 1..Len(q) : q[i] \in Calls
    BY <1>3, QueuePlaces
  <2>2. q # <<>>
    BY <1>3, <2>1
  <2>3. QED BY <2>1, <2>2
<1>5. CASE g.line[1] # c \/ g.active >= g.limit
  <2>1. h = [g EXCEPT !.stance[c] = "wait"]
    BY <1>5 DEF Look
  <2>2. /\ IsGate(h) /\ h.limit = g.limit /\ h.line = g.line /\ h.active = g.active
        /\ h.stance = [g.stance EXCEPT ![c] = "wait"]
    BY <1>1, <2>1 DEF IsGate
  <2>3. /\ h.stance \in [Calls -> Stances] /\ h.stance[c] # "lease"
        /\ \A d \in Calls : h.stance[d] = "lease" <=> d \in R
        /\ \A d \in Calls : d # c => h.stance[d] = g.stance[d]
    BY <1>1, <2>2 DEF Stances
  <2>4. ASSUME h.stance[Head(h.line)] = "wait" PROVE h.active = h.limit
    <3>1. CASE Head(q) = c
      BY <1>1, <1>2, <1>4, <1>5, <2>2, <3>1
    <3>2. CASE Head(q) # c
      <4>1. g.stance[Head(q)] = "wait"
        BY <1>2, <1>4, <2>2, <2>3, <2>4, <3>2
      <4>2. QED BY <1>1, <1>2, <1>4, <2>2, <4>1
    <3>3. QED BY <3>1, <3>2
  <2>5. Fits(h, L, R)
    BY <1>1, <2>2, <2>3, <2>4 DEF Fits
  <2>6. QED BY <2>3, <2>5
<1>6. CASE g.line[1] = c /\ ~(g.active >= g.limit) /\ g.ready > 0
  <2>1. h = [g EXCEPT !.stance[c] = "sleep", !.alarm = g.ready]
    BY <1>6 DEF Look
  <2>2. /\ IsGate(h) /\ h.limit = g.limit /\ h.line = g.line /\ h.active = g.active
        /\ h.stance = [g.stance EXCEPT ![c] = "sleep"]
    BY <1>1, <2>1 DEF IsGate
  <2>3. /\ h.stance \in [Calls -> Stances] /\ h.stance[c] = "sleep"
        /\ \A d \in Calls : h.stance[d] = "lease" <=> d \in R
    BY <1>1, <2>2 DEF Stances
  <2>4. h.stance[Head(h.line)] # "wait"
    BY <1>2, <1>4, <1>6, <2>2, <2>3
  <2>5. Fits(h, L, R)
    BY <1>1, <2>2, <2>3, <2>4 DEF Fits
  <2>6. QED BY <2>3, <2>5
<1>7. CASE g.line[1] = c /\ ~(g.active >= g.limit) /\ ~(g.ready > 0)
  <2>1. PICK f : f = [g EXCEPT !.line = Tail(@), !.stance[c] = "lease", !.active = @ + 1,
                               !.ready = Interval, !.current = @ \cup {c}]
    OBVIOUS
  <2>2. h = Notify(f)
    BY <1>7, <2>1 DEF Look
  <2>3. /\ IsGate(f) /\ f.limit = g.limit /\ f.line = Tail(g.line) /\ f.active = g.active + 1
        /\ f.stance = [g.stance EXCEPT ![c] = "lease"]
    BY <1>1, <2>1 DEF IsGate
  <2>4. PICK r : r = Tail(q)
    OBVIOUS
  <2>5. r \in Seq(Calls) /\ IsInjective(r) /\ ToSet(r) = ToSet(q) \ {Head(q)}
    BY <1>3, <1>4, <2>4, QueueTail
  <2>6. f.line \in Seq(Calls) /\ IsInjective(f.line) /\ ToSet(f.line) = L \ {c}
    BY <1>1, <1>2, <1>4, <1>7, <2>3, <2>4, <2>5
  <2>7. Cardinality(R \cup {c}) = Cardinality(R) + 1
    BY <1>1, HoldersCounted
  <2>8. f.limit \in Nat /\ f.active \in Nat /\ f.active = Cardinality(R \cup {c}) /\ f.active <= f.limit
    BY <1>1, <1>7, <2>3, <2>7
  <2>9. /\ f.stance \in [Calls -> Stances] /\ f.stance[c] = "lease"
        /\ \A d \in Calls : f.stance[d] = "lease" <=> d \in R \cup {c}
    BY <1>1, <2>3 DEF Stances
  <2>10. L \ {c} \subseteq Calls /\ R \cup {c} \subseteq Calls
    BY <1>1
  <2>11. Fits(h, L \ {c}, R \cup {c})
    BY <2>2, <2>3, <2>6, <2>8, <2>9, <2>10, NotifyFacts
  <2>12. h.stance[c] = "lease"
    BY <2>11 DEF Fits
  <2>13. QED BY <2>11, <2>12
<1>8. QED BY <1>5, <1>6, <1>7

---------------------------------------------------------------------------
(* One call at the gate.                                                   *)

\* A call has its fields and no others.
IsCall(x) ==
    x = [at |-> x.at, round |-> x.round, repair |-> x.repair, plain |-> x.plain,
         doomed |-> x.doomed, retryable |-> x.retryable, outcome |-> x.outcome]

\* The shape of what is kept of the calls.
CallsShaped ==
    /\ call = [c \in Calls |-> call[c]]
    /\ \A c \in Calls :
         /\ IsCall(call[c])
         /\ call[c].at \in Waiting \cup {"idle", "ended", "past", "lost"}
         /\ call[c].round \in Nat /\ call[c].retryable \in BOOLEAN
    /\ budget \in [Calls -> [rounds : Nat, calls : 0..2]]
    /\ http \in [Calls -> Nat]
    /\ late \subseteq Calls /\ up \in BOOLEAN /\ scenario \in Scenarios

AtLine == {c \in Calls : call[c].at = "line"}
AtServer == {c \in Calls : call[c].at = "server"}

\* One call moves on within its invocation.
Moves(c) ==
    /\ call' = [d \in Calls |-> call'[d]]
    /\ IsCall(call'[c]) /\ call'[c].round = call[c].round /\ call'[c].retryable \in BOOLEAN
    /\ \A d \in Calls \ {c} : call'[d] = call[d]

\* The call ends: it leaves its budget behind or keeps it for the second invocation.
LEMMA EndFacts ==
  ASSUME CallsShaped, NEW c \in Calls, NEW g, NEW statuses, NEW retryable \in BOOLEAN,
         End(c, g, statuses, retryable)
  PROVE  /\ Moves(c) /\ call'[c].at = "ended" /\ call'[c].retryable = retryable
         /\ gate' = g /\ http' = http
         /\ budget' \in [Calls -> [rounds : Nat, calls : 0..2]]
         /\ \A d \in Calls \ {c} : budget'[d] = budget[d]
         /\ retryable /\ budget[c].rounds = 1 => budget'[c] = budget[c]
<1>1. PICK o : o = Last(statuses)
  OBVIOUS
<1>2. call' = [call EXCEPT ![c].at = "ended", ![c].doomed = FALSE,
                           ![c].retryable = retryable, ![c].outcome = o]
  BY <1>1 DEF End
<1>3. /\ call = [d \in Calls |-> call[d]] /\ IsCall(call[c])
      /\ budget \in [Calls -> [rounds : Nat, calls : 0..2]]
  BY DEF CallsShaped
<1>4. /\ call' = [d \in Calls |-> call'[d]]
      /\ \A d \in Calls \ {c} : call'[d] = call[d]
  BY <1>2, <1>3
<1>5. call'[c] = [call[c] EXCEPT !.at = "ended", !.doomed = FALSE, !.retryable = retryable, !.outcome = o]
  BY <1>2, <1>3
<1>6. /\ IsCall(call'[c]) /\ call'[c].at = "ended" /\ call'[c].retryable = retryable
      /\ call'[c].round = call[c].round
  BY <1>3, <1>5 DEF IsCall
<1>7. AfterInvocation(c, retryable) \in [rounds : Nat, calls : 0..2]
  BY <1>3 DEF AfterInvocation, NoBudget
<1>8. budget' = [budget EXCEPT ![c] = AfterInvocation(c, retryable)]
  BY DEF End
<1>9. /\ budget' \in [Calls -> [rounds : Nat, calls : 0..2]]
      /\ \A d \in Calls \ {c} : budget'[d] = budget[d]
      /\ budget'[c] = AfterInvocation(c, retryable)
  BY <1>3, <1>7, <1>8
<1>10. retryable /\ budget[c].rounds = 1 => budget'[c] = budget[c]
  BY <1>9 DEF AfterInvocation
<1>11. gate' = g /\ http' = http
  BY DEF End
<1>12. QED BY <1>4, <1>6, <1>9, <1>10, <1>11 DEF Moves

\* What a call does that has looked at the gate: it gives up its lease because its
\* deadline passed, sends, or stays in the line.
LEMMA StartFacts ==
  ASSUME CallsShaped, NEW c \in Calls, NEW g, NEW b, NEW said, Start(c, g, b, said)
  PROVE  /\ Moves(c)
         /\ \/ /\ g.stance[c] = "lease" /\ call'[c].at = "ended" /\ call'[c].retryable = FALSE
               /\ gate' = Release(g, c) /\ http' = http
               /\ budget' \in [Calls -> [rounds : Nat, calls : 0..2]]
               /\ \A d \in Calls \ {c} : budget'[d] = budget[d]
            \/ /\ g.stance[c] = "lease" /\ call'[c].at = "server"
               /\ gate' = g /\ budget' = b /\ http' = [http EXCEPT ![c] = @ + 1]
            \/ /\ g.stance[c] # "lease" /\ call'[c].at = "line"
               /\ gate' = g /\ budget' = b /\ http' = http
<1>0. /\ call = [d \in Calls |-> call[d]] /\ IsCall(call[c]) /\ call[c].retryable \in BOOLEAN
  BY DEF CallsShaped
<1>1. CASE g.stance[c] = "lease" /\ c \in late /\ Kind(c) \in {"viewer", "batch"}
  <2>1. PICK statuses : statuses = said \o <<"failed">>
    OBVIOUS
  <2>2. PICK h : h = Release(g, c)
    OBVIOUS
  <2>3. End(c, h, statuses, FALSE)
    BY <1>1, <2>1, <2>2 DEF Start
  <2>4. /\ Moves(c) /\ call'[c].at = "ended" /\ call'[c].retryable = FALSE
        /\ gate' = h /\ http' = http
        /\ budget' \in [Calls -> [rounds : Nat, calls : 0..2]]
        /\ \A d \in Calls \ {c} : budget'[d] = budget[d]
    BY <2>3, EndFacts
  <2>5. QED BY <1>1, <2>2, <2>4
<1>2. CASE ~(g.stance[c] = "lease" /\ c \in late /\ Kind(c) \in {"viewer", "batch"})
           /\ g.stance[c] = "lease"
  <2>1. PICK r : r = (call[c].repair \/ said # <<>>)
    OBVIOUS
  <2>2. /\ call' = [call EXCEPT ![c].at = "server", ![c].repair = r]
        /\ gate' = g /\ budget' = b /\ http' = [http EXCEPT ![c] = @ + 1]
    BY <1>0, <1>2, <2>1 DEF Start
  <2>3. /\ call' = [d \in Calls |-> call'[d]]
        /\ \A d \in Calls \ {c} : call'[d] = call[d]
        /\ call'[c] = [call[c] EXCEPT !.at = "server", !.repair = r]
    BY <1>0, <2>2
  <2>4. /\ IsCall(call'[c]) /\ call'[c].at = "server" /\ call'[c].round = call[c].round
        /\ call'[c].retryable = call[c].retryable
    BY <1>0, <2>3 DEF IsCall
  <2>5. Moves(c)
    BY <1>0, <2>3, <2>4 DEF Moves
  <2>6. QED BY <1>2, <2>2, <2>4, <2>5
<1>3. CASE g.stance[c] # "lease"
  <2>1. PICK r : r = (call[c].repair \/ said # <<>>)
    OBVIOUS
  <2>2. /\ call' = [call EXCEPT ![c].at = "line", ![c].repair = r]
        /\ gate' = g /\ budget' = b /\ http' = http
    BY <1>0, <1>3, <2>1 DEF Start
  <2>3. /\ call' = [d \in Calls |-> call'[d]]
        /\ \A d \in Calls \ {c} : call'[d] = call[d]
        /\ call'[c] = [call[c] EXCEPT !.at = "line", !.repair = r]
    BY <1>0, <2>2
  <2>4. /\ IsCall(call'[c]) /\ call'[c].at = "line" /\ call'[c].round = call[c].round
        /\ call'[c].retryable = call[c].retryable
    BY <1>0, <2>3 DEF IsCall
  <2>5. Moves(c)
    BY <1>0, <2>3, <2>4 DEF Moves
  <2>6. QED BY <1>3, <2>2, <2>4, <2>5
<1>4. QED BY <1>1, <1>2, <1>3

\* A call that asks at the gate g has its lease or stands in the line; nobody else moved.
Asking(g, c) ==
    \/ g.stance[c] = "lease" /\ Fits(g, AtLine \ {c}, AtServer \cup {c})
    \/ g.stance[c] # "lease" /\ Fits(g, AtLine \cup {c}, AtServer \ {c})

\* A call that enters the line looks at once, and has its lease or waits.
LEMMA AskFacts ==
  ASSUME NEW c \in Calls, NEW g, Fits(g, AtLine \ {c}, AtServer \ {c}),
         NEW h, h = Look(Join(g, c), c)
  PROVE  Asking(h, c)
<1>1. PICK f : f = Join(g, c)
  OBVIOUS
<1>2. c \notin AtLine \ {c} /\ c \notin AtServer \ {c}
  OBVIOUS
<1>3. PICK L, R : L = AtLine \ {c} /\ R = AtServer \ {c}
  OBVIOUS
<1>4. Fits(f, L \cup {c}, R)
  BY <1>1, <1>2, <1>3, JoinFacts
<1>5. PICK K : K = L \cup {c}
  OBVIOUS
<1>6. Fits(f, K, R) /\ c \in K /\ c \notin R /\ h = Look(f, c)
  BY <1>1, <1>2, <1>3, <1>4, <1>5
<1>7. \/ h.stance[c] = "lease" /\ Fits(h, K \ {c}, R \cup {c})
      \/ h.stance[c] # "lease" /\ Fits(h, K, R)
  BY <1>6, LookFacts
<1>8. K \ {c} = AtLine \ {c} /\ R \cup {c} = AtServer \cup {c} /\ K = AtLine \cup {c} /\ R = AtServer \ {c}
  BY <1>3, <1>5
<1>9. QED BY <1>7, <1>8 DEF Asking

\* A call that waits in the line asks again.
LEMMA AskAgainFacts ==
  ASSUME NEW c \in AtLine, NEW g, Fits(g, AtLine, AtServer), NEW h, h = Look(g, c)
  PROVE  Asking(h, c)
<1>1. c \in Calls /\ c \notin AtServer
  BY DEF AtLine, AtServer
<1>2. PICK L, R : L = AtLine /\ R = AtServer
  OBVIOUS
<1>3. \/ h.stance[c] = "lease" /\ Fits(h, L \ {c}, R \cup {c})
      \/ h.stance[c] # "lease" /\ Fits(h, L, R)
  BY <1>1, <1>2, LookFacts
<1>4. L = AtLine \cup {c} /\ R = AtServer \ {c}
  BY <1>1, <1>2
<1>5. QED BY <1>2, <1>3, <1>4 DEF Asking

\* Where the calls stand when one of them has moved.
LEMMA Stand ==
  ASSUME NEW c \in Calls, Moves(c)
  PROVE  /\ AtLine' = IF call'[c].at = "line" THEN AtLine \cup {c} ELSE AtLine \ {c}
         /\ AtServer' = IF call'[c].at = "server" THEN AtServer \cup {c} ELSE AtServer \ {c}
BY DEF AtLine, AtServer, Moves

\* What a call does after it has looked keeps the gate's books.
LEMMA StartFits ==
  ASSUME CallsShaped, NEW c \in Calls, NEW g, Asking(g, c), NEW b, NEW said, Start(c, g, b, said)
  PROVE  Fits(gate', AtLine', AtServer')
<1>1. Moves(c)
  BY StartFacts
<1>2. /\ AtLine' = IF call'[c].at = "line" THEN AtLine \cup {c} ELSE AtLine \ {c}
      /\ AtServer' = IF call'[c].at = "server" THEN AtServer \cup {c} ELSE AtServer \ {c}
  BY <1>1, Stand
<1>3. CASE g.stance[c] = "lease" /\ call'[c].at = "ended" /\ gate' = Release(g, c)
  <2>1. PICK L, R : L = AtLine \ {c} /\ R = AtServer \cup {c}
    OBVIOUS
  <2>2. Fits(g, L, R) /\ c \in R
    BY <1>3, <2>1 DEF Asking
  <2>3. PICK h : h = Release(g, c)
    OBVIOUS
  <2>4. Fits(h, L, R \ {c})
    BY <2>2, <2>3, ReleaseFacts
  <2>5. AtLine' = L /\ AtServer' = R \ {c}
    BY <1>2, <1>3, <2>1
  <2>6. QED BY <1>3, <2>3, <2>4, <2>5
<1>4. CASE g.stance[c] = "lease" /\ call'[c].at = "server" /\ gate' = g
  BY <1>2, <1>4 DEF Asking
<1>5. CASE g.stance[c] # "lease" /\ call'[c].at = "line" /\ gate' = g
  BY <1>2, <1>5 DEF Asking
<1>6. QED BY <1>3, <1>4, <1>5, StartFacts

\* So does the end of a call whose place or lease was given back.
LEMMA EndFits ==
  ASSUME CallsShaped, NEW c \in Calls, NEW g, Fits(g, AtLine \ {c}, AtServer \ {c}),
         NEW statuses, NEW retryable \in BOOLEAN, End(c, g, statuses, retryable)
  PROVE  Fits(gate', AtLine', AtServer')
<1>1. Moves(c) /\ call'[c].at = "ended" /\ gate' = g
  BY EndFacts
<1>2. AtLine' = AtLine \ {c} /\ AtServer' = AtServer \ {c}
  BY <1>1, Stand
<1>3. QED BY <1>1, <1>2

---------------------------------------------------------------------------
(* The books of the calls.                                                 *)

Budgets == [Calls -> [rounds : Nat, calls : 0..2]]

\* Nobody else calls, and a call that is no batch is invoked twice at most.
RoundsBounded ==
    /\ \A c \in Calls : c \notin Known => call[c].at = "idle"
    /\ \A c \in Calls : c \notin Known \/ Kind(c) # "batch" =>
         call[c].round <= 2 /\ (call[c].at = "idle" => call[c].round = 0)

\* A viewer's call that is at work has paid for what it sent and for what it is about to
\* send; what failed for the moment keeps its budget for the second invocation.
Affords(c) ==
    /\ http[c] <= 2
    /\ call[c].at = "idle" => http[c] = 0 /\ budget[c] = NoBudget
    /\ call[c].at # "slot"
    /\ call[c].at \in {"prepare", "server"} => http[c] <= budget[c].calls
    /\ call[c].at = "line" => http[c] + 1 <= budget[c].calls
    /\ Live(c) => budget[c].rounds = call[c].round
    /\ call[c].at = "ended" /\ call[c].retryable /\ call[c].round = 1 /\ c \notin late =>
         http[c] <= budget[c].calls /\ budget[c].rounds = 1

ViewersAfford == \A c \in Known : Kind(c) = "viewer" => Affords(c)

CallsInv ==
    CallsShaped /\ Fits(gate, AtLine, AtServer) /\ RoundsBounded /\ ViewersAfford

\* Who is known may call.
LEMMA KnownAreCalls ==
  ASSUME CallsShaped
  PROVE  Known \subseteq Calls /\ Batches \subseteq Calls
BY ScenarioAssumption DEF CallsShaped, Known, Batches

\* What one call does keeps the shape of the books.
LEMMA ShapeKept ==
  ASSUME CallsShaped, NEW c \in Calls, Moves(c),
         call'[c].at \in Waiting \cup {"idle", "ended", "past", "lost"},
         budget' \in Budgets, http' \in [Calls -> Nat], late' \subseteq Calls,
         UNCHANGED <<scenario, up>>
  PROVE  CallsShaped'
<1>1. /\ call' = [d \in Calls |-> call'[d]] /\ IsCall(call'[c])
      /\ call'[c].round \in Nat /\ call'[c].retryable \in BOOLEAN
      /\ \A d \in Calls \ {c} : call'[d] = call[d]
  BY DEF Moves, CallsShaped
<1>2. \A d \in Calls : /\ IsCall(call[d])
                       /\ call[d].at \in Waiting \cup {"idle", "ended", "past", "lost"}
                       /\ call[d].round \in Nat /\ call[d].retryable \in BOOLEAN
  BY DEF CallsShaped
<1>3. \A d \in Calls : /\ IsCall(call'[d])
                       /\ call'[d].at \in Waiting \cup {"idle", "ended", "past", "lost"}
                       /\ call'[d].round \in Nat /\ call'[d].retryable \in BOOLEAN
  <2>1. TAKE d \in Calls
  <2>2. CASE d = c
    BY <1>1, <2>2
  <2>3. CASE d # c
    <3>1. call'[d] = call[d]
      BY <1>1, <2>3
    <3>2. PICK x : x = call[d]
      OBVIOUS
    <3>3. QED BY <1>2, <3>1
  <2>4. QED BY <2>2, <2>3
<1>4. up' \in BOOLEAN /\ scenario' \in Scenarios
  BY DEF CallsShaped
<1>5. QED BY <1>1, <1>3, <1>4 DEF CallsShaped, Budgets

\* What one call does is nothing to the budgets of the others, save that requests that
\* nobody works on are forgotten.
LEMMA AffordsFrame ==
  ASSUME NEW d \in Calls, Affords(d), call'[d] = call[d], http'[d] = http[d],
         late \subseteq late', budget'[d] \in {budget[d], Unexpired[d]}
  PROVE  Affords(d)'
<1>1. Live(d)' <=> Live(d)
  BY DEF Live
<1>2. Unexpired[d] = IF ~Live(d) /\ d \in late THEN NoBudget ELSE budget[d]
  BY DEF Unexpired
<1>3. CASE budget'[d] = budget[d]
  BY <1>1, <1>3 DEF Affords
<1>4. CASE budget'[d] = NoBudget /\ ~Live(d) /\ d \in late
  BY <1>1, <1>4 DEF Affords, Live, Waiting
<1>5. QED BY <1>2, <1>3, <1>4

\* A call of a viewer that has a budget for it may ask.
LEMMA ViewerStarts ==
  ASSUME CallsShaped, NEW c \in Calls, Affords(c), NEW g, NEW b \in Budgets, NEW said,
         Start(c, g, b, said), UNCHANGED late,
         http[c] + 1 <= b[c].calls, b[c].rounds = call[c].round
  PROVE  Affords(c)'
<1>1. http[c] \in Nat /\ b[c].calls \in 0..2 /\ http[c] <= 2 /\ http \in [Calls -> Nat]
  BY DEF CallsShaped, Budgets, Affords
<1>2. call'[c].round = call[c].round
  BY StartFacts DEF Moves
<1>3. CASE call'[c].at = "ended" /\ call'[c].retryable = FALSE /\ http' = http
  BY <1>1, <1>3 DEF Affords, Live, Waiting
<1>4. CASE call'[c].at = "server" /\ budget' = b /\ http' = [http EXCEPT ![c] = @ + 1]
  <2>1. http'[c] = http[c] + 1
    BY <1>1, <1>4
  <2>2. QED BY <1>1, <1>2, <1>4, <2>1 DEF Affords, Live, Waiting
<1>5. CASE call'[c].at = "line" /\ budget' = b /\ http' = http
  BY <1>1, <1>2, <1>5 DEF Affords, Live, Waiting
<1>6. QED BY <1>3, <1>4, <1>5, StartFacts

\* The end of an invocation.
LEMMA ViewerEnds ==
  ASSUME CallsShaped, NEW c \in Calls, Affords(c), NEW g, NEW statuses, NEW retryable \in BOOLEAN,
         End(c, g, statuses, retryable), UNCHANGED late, Live(c),
         retryable => call[c].at = "server"
  PROVE  Affords(c)'
<1>1. /\ Moves(c) /\ call'[c].at = "ended" /\ call'[c].retryable = retryable /\ http' = http
      /\ retryable /\ budget[c].rounds = 1 => budget'[c] = budget[c]
  BY EndFacts
<1>2. call'[c].round = call[c].round
  BY <1>1 DEF Moves
<1>3. budget[c].rounds = call[c].round
  BY DEF Affords
<1>4. http[c] <= 2 /\ (retryable => http[c] <= budget[c].calls)
  BY DEF Affords
<1>5. ~Live(c)'
  BY <1>1 DEF Live, Waiting
<1>6. QED BY <1>1, <1>2, <1>3, <1>4, <1>5 DEF Affords

---------------------------------------------------------------------------
(* A call asks.                                                            *)

\* A call that moves within its invocation keeps the bounds, and the others keep their means.
LEMMA MoveKeeps ==
  ASSUME CallsInv, NEW c \in Known, Moves(c), call'[c].at # "idle",
         call[c].at = "idle" => call[c].round = 0,
         UNCHANGED scenario, late \subseteq late',
         \A d \in Calls \ {c} : http'[d] = http[d] /\ budget'[d] = budget[d],
         Kind(c) = "viewer" => Affords(c)'
  PROVE  RoundsBounded' /\ ViewersAfford'
<1>1. CallsShaped /\ RoundsBounded /\ ViewersAfford
  BY DEF CallsInv
<1>2. Known \subseteq Calls /\ Known' = Known /\ \A d : Kind(d)' = Kind(d)
  BY <1>1, KnownAreCalls DEF Known, Kind
<1>3. /\ call'[c].round = call[c].round
      /\ \A d \in Calls \ {c} : call'[d] = call[d]
  BY DEF Moves
<1>4. RoundsBounded'
  <2>1. ASSUME NEW d \in Calls, d \notin Known PROVE call'[d].at = "idle"
    BY <1>1, <1>3, <2>1 DEF RoundsBounded
  <2>2. ASSUME NEW d \in Calls, d \notin Known \/ Kind(d) # "batch"
        PROVE  call'[d].round <= 2 /\ (call'[d].at = "idle" => call'[d].round = 0)
    <3>1. CASE d = c
      BY <1>1, <1>3, <2>2, <3>1 DEF RoundsBounded
    <3>2. CASE d # c
      BY <1>1, <1>3, <2>2, <3>2 DEF RoundsBounded
    <3>3. QED BY <3>1, <3>2
  <2>3. QED BY <1>2, <2>1, <2>2 DEF RoundsBounded
<1>5. ASSUME NEW d \in Known, Kind(d) = "viewer" PROVE Affords(d)'
  <2>1. CASE d = c
    BY <1>5, <2>1
  <2>2. CASE d # c
    <3>1. d \in Calls /\ Affords(d)
      BY <1>1, <1>2, <1>5 DEF ViewersAfford
    <3>2. call'[d] = call[d] /\ http'[d] = http[d] /\ budget'[d] = budget[d]
      BY <1>2, <1>3, <2>2, <3>1
    <3>3. budget'[d] \in {budget[d], Unexpired[d]}
      BY <3>2
    <3>4. QED BY <3>1, <3>2, <3>3, AffordsFrame
  <2>3. QED BY <2>1, <2>2
<1>6. QED BY <1>2, <1>4, <1>5 DEF ViewersAfford

\* A call that has looked at the gate with the means to send keeps the books.
LEMMA StartKeeps ==
  ASSUME CallsInv, NEW c \in Known, Live(c), NEW g, Asking(g, c), NEW b \in Budgets,
         \A d \in Calls \ {c} : b[d] = budget[d], NEW said,
         Start(c, g, b, said), UNCHANGED <<scenario, late, up>>,
         Kind(c) = "viewer" => http[c] + 1 <= b[c].calls /\ b[c].rounds = call[c].round
  PROVE  CallsInv'
<1>1. /\ CallsShaped /\ RoundsBounded /\ ViewersAfford /\ c \in Calls
      /\ http \in [Calls -> Nat] /\ late \subseteq Calls
  BY KnownAreCalls DEF CallsInv, CallsShaped
<1>2. Fits(gate', AtLine', AtServer')
  BY <1>1, StartFits
<1>3. Moves(c) /\ call'[c].at \in {"ended", "server", "line"}
  BY <1>1, StartFacts
<1>4. /\ budget' \in Budgets /\ http' \in [Calls -> Nat]
      /\ \A d \in Calls \ {c} : http'[d] = http[d] /\ budget'[d] = budget[d]
  <2>1. CASE /\ http' = http /\ budget' \in [Calls -> [rounds : Nat, calls : 0..2]]
             /\ \A d \in Calls \ {c} : budget'[d] = budget[d]
    BY <1>1, <2>1 DEF Budgets
  <2>2. CASE budget' = b /\ http' = [http EXCEPT ![c] = @ + 1]
    BY <1>1, <2>2
  <2>3. CASE budget' = b /\ http' = http
    BY <1>1, <2>3
  <2>4. \/ /\ http' = http /\ budget' \in [Calls -> [rounds : Nat, calls : 0..2]]
           /\ \A d \in Calls \ {c} : budget'[d] = budget[d]
        \/ budget' = b /\ http' = [http EXCEPT ![c] = @ + 1]
        \/ budget' = b /\ http' = http
    BY <1>1, StartFacts
  <2>5. QED BY <2>1, <2>2, <2>3, <2>4
<1>5. call'[c].at \in Waiting \cup {"idle", "ended", "past", "lost"} /\ call'[c].at # "idle"
  BY <1>3 DEF Waiting
<1>6. CallsShaped'
  BY <1>1, <1>3, <1>4, <1>5, ShapeKept
<1>7. call[c].at # "idle"
  BY DEF Live, Waiting
<1>8. ASSUME Kind(c) = "viewer" PROVE Affords(c)'
  <2>1. Affords(c)
    BY <1>1, <1>8 DEF ViewersAfford
  <2>2. QED BY <1>1, <1>8, <2>1, ViewerStarts
<1>9. RoundsBounded' /\ ViewersAfford'
  BY <1>3, <1>4, <1>5, <1>7, <1>8, MoveKeeps
<1>10. QED BY <1>2, <1>6, <1>9 DEF CallsInv

\* A call that ends and gave back what it held keeps the books.
LEMMA EndKeeps ==
  ASSUME CallsInv, NEW c \in Known, Live(c), NEW g, Fits(g, AtLine \ {c}, AtServer \ {c}),
         NEW statuses, NEW retryable \in BOOLEAN, End(c, g, statuses, retryable),
         UNCHANGED <<scenario, late, up>>, retryable => call[c].at = "server"
  PROVE  CallsInv'
<1>1. /\ CallsShaped /\ RoundsBounded /\ ViewersAfford /\ c \in Calls
      /\ http \in [Calls -> Nat] /\ late \subseteq Calls
  BY KnownAreCalls DEF CallsInv, CallsShaped
<1>2. Fits(gate', AtLine', AtServer')
  BY <1>1, EndFits
<1>3. /\ Moves(c) /\ call'[c].at = "ended" /\ http' = http
      /\ budget' \in [Calls -> [rounds : Nat, calls : 0..2]]
      /\ \A d \in Calls \ {c} : budget'[d] = budget[d]
  BY <1>1, EndFacts
<1>4. budget' \in Budgets /\ http' \in [Calls -> Nat] /\ late' \subseteq Calls
  BY <1>1, <1>3 DEF Budgets
<1>5. call'[c].at \in Waiting \cup {"idle", "ended", "past", "lost"} /\ call'[c].at # "idle"
  BY <1>3
<1>6. CallsShaped'
  BY <1>1, <1>3, <1>4, <1>5, ShapeKept
<1>7. call[c].at # "idle"
  BY DEF Live, Waiting
<1>8. ASSUME Kind(c) = "viewer" PROVE Affords(c)'
  <2>1. Affords(c)
    BY <1>1, <1>8 DEF ViewersAfford
  <2>2. QED BY <1>1, <2>1, ViewerEnds
<1>9. RoundsBounded' /\ ViewersAfford'
  BY <1>3, <1>5, <1>7, <1>8, MoveKeeps
<1>10. QED BY <1>2, <1>6, <1>9 DEF CallsInv

\* What a call may spend.
LEMMA SpentFacts ==
  ASSUME CallsShaped, NEW c \in Calls, MaySend(c), NEW b, b = Spent(c)
  PROVE  /\ b \in Budgets /\ \A d \in Calls \ {c} : b[d] = budget[d]
         /\ Kind(c) = "viewer" => b[c].calls = budget[c].calls + 1 /\ b[c].rounds = budget[c].rounds
<1>1. budget \in Budgets
  BY DEF CallsShaped, Budgets
<1>2. CASE Kind(c) = "viewer"
  <2>1. budget[c].calls \in 0..1 /\ budget[c] \in [rounds : Nat, calls : 0..2]
    BY <1>1, <1>2 DEF MaySend, Budgets
  <2>2. b = [budget EXCEPT ![c].calls = @ + 1]
    BY <1>2 DEF Spent
  <2>3. PICK x : x = [budget[c] EXCEPT !.calls = @ + 1]
    OBVIOUS
  <2>4. x \in [rounds : Nat, calls : 0..2] /\ x.calls = budget[c].calls + 1 /\ x.rounds = budget[c].rounds
    BY <2>1, <2>3
  <2>5. b = [budget EXCEPT ![c] = x]
    BY <1>1, <2>2, <2>3 DEF Budgets
  <2>6. QED BY <1>1, <2>4, <2>5 DEF Budgets
<1>3. CASE Kind(c) # "viewer"
  BY <1>1, <1>3 DEF Spent
<1>4. QED BY <1>2, <1>3

\* A call that is not at the gate has nothing to give back.
LEMMA NothingHeld ==
  ASSUME Fits(gate, AtLine, AtServer), NEW c, c \notin AtLine, c \notin AtServer
  PROVE  Fits(gate, AtLine \ {c}, AtServer \ {c})
<1>1. AtLine \ {c} = AtLine /\ AtServer \ {c} = AtServer
  OBVIOUS
<1>2. QED BY <1>1

\* The lease of a call that ends.
LEMMA LeaseReturned ==
  ASSUME NEW g, Fits(g, AtLine, AtServer), NEW c \in AtServer, NEW h, h = Release(g, c)
  PROVE  Fits(h, AtLine \ {c}, AtServer \ {c})
<1>1. PICK L, R : L = AtLine /\ R = AtServer
  OBVIOUS
<1>2. Fits(h, L, R \ {c})
  BY <1>1, ReleaseFacts
<1>3. L = AtLine \ {c}
  BY <1>1 DEF AtLine, AtServer
<1>4. QED BY <1>1, <1>2, <1>3

\* Steps of a call before it reaches the server.
LEMMA PrepareFailsKeeps ==
  ASSUME CallsInv, NEW c \in Known, PrepareFails(c)
  PROVE  CallsInv'
<1>1. c \in Calls /\ call[c].at = "prepare" /\ c \notin AtLine /\ c \notin AtServer
  BY KnownAreCalls DEF PrepareFails, AtLine, AtServer, CallsInv
<1>2. PICK s \in {"failed", "blocked"} : End(c, gate, <<s>>, FALSE)
  BY DEF PrepareFails
<1>3. Fits(gate, AtLine \ {c}, AtServer \ {c})
  BY <1>1, NothingHeld DEF CallsInv
<1>4. Live(c) /\ UNCHANGED <<scenario, late, up>>
  BY <1>1 DEF Live, Waiting, PrepareFails
<1>5. PICK statuses, g : statuses = <<s>> /\ g = gate
  OBVIOUS
<1>6. End(c, g, statuses, FALSE) /\ Fits(g, AtLine \ {c}, AtServer \ {c})
  BY <1>2, <1>3, <1>5
<1>7. QED BY <1>4, <1>6, EndKeeps

\* Its request is ready: a call without a budget for it ends, the others ask (_send_rate_limited).
LEMMA PreparedKeeps ==
  ASSUME CallsInv, NEW c \in Known, Prepared(c)
  PROVE  CallsInv'
<1>1. /\ c \in Calls /\ call[c].at = "prepare" /\ c \notin AtLine /\ c \notin AtServer
      /\ CallsShaped /\ RoundsBounded /\ ViewersAfford /\ Fits(gate, AtLine, AtServer)
      /\ Live(c) /\ UNCHANGED <<scenario, late, up>>
  BY KnownAreCalls DEF Prepared, AtLine, AtServer, CallsInv, Live, Waiting
<1>2. Fits(gate, AtLine \ {c}, AtServer \ {c})
  BY <1>1, NothingHeld
<1>3. CASE Kind(c) = "memory"
  <2>1. call' = [call EXCEPT ![c].at = "slot"] /\ UNCHANGED <<gate, log, budget, http>>
    BY <1>3 DEF Prepared
  <2>2. /\ call = [d \in Calls |-> call[d]] /\ IsCall(call[c]) /\ call[c].retryable \in BOOLEAN
        /\ http \in [Calls -> Nat] /\ budget \in Budgets /\ late \subseteq Calls
    BY <1>1 DEF CallsShaped, Budgets
  <2>3. /\ call' = [d \in Calls |-> call'[d]]
        /\ \A d \in Calls \ {c} : call'[d] = call[d]
        /\ call'[c] = [call[c] EXCEPT !.at = "slot"]
    BY <1>1, <2>1, <2>2
  <2>4. /\ IsCall(call'[c]) /\ call'[c].at = "slot" /\ call'[c].round = call[c].round
        /\ call'[c].retryable = call[c].retryable
    BY <2>2, <2>3 DEF IsCall
  <2>5. Moves(c)
    BY <2>2, <2>3, <2>4 DEF Moves
  <2>6. AtLine' = AtLine /\ AtServer' = AtServer
    BY <1>1, <2>4, <2>5, Stand
  <2>7. CallsShaped'
    <3>1. call'[c].at \in Waiting \cup {"idle", "ended", "past", "lost"}
      BY <2>4 DEF Waiting
    <3>2. budget' \in Budgets /\ http' \in [Calls -> Nat] /\ late' \subseteq Calls
      BY <1>1, <2>1, <2>2
    <3>3. QED BY <1>1, <2>5, <3>1, <3>2, ShapeKept
  <2>8. RoundsBounded' /\ ViewersAfford'
    <3>1. call'[c].at # "idle" /\ call[c].at # "idle" /\ Kind(c) # "viewer"
      BY <1>1, <1>3, <2>4
    <3>2. \A d \in Calls \ {c} : http'[d] = http[d] /\ budget'[d] = budget[d]
      BY <2>1
    <3>3. QED BY <1>1, <2>5, <3>1, <3>2, MoveKeeps
  <2>9. QED BY <1>1, <2>1, <2>6, <2>7, <2>8 DEF CallsInv
<1>4. CASE Kind(c) # "memory" /\ MaySend(c)
  <2>1. PICK g, b, said : g = Look(Join(gate, c), c) /\ b = Spent(c) /\ said = <<>>
    OBVIOUS
  <2>2. Start(c, g, b, said)
    BY <1>4, <2>1 DEF Prepared
  <2>3. Asking(g, c)
    BY <1>1, <1>2, <2>1, AskFacts
  <2>4. /\ b \in Budgets /\ \A d \in Calls \ {c} : b[d] = budget[d]
        /\ Kind(c) = "viewer" => b[c].calls = budget[c].calls + 1 /\ b[c].rounds = budget[c].rounds
    BY <1>1, <1>4, <2>1, SpentFacts
  <2>5. ASSUME Kind(c) = "viewer" PROVE http[c] + 1 <= b[c].calls /\ b[c].rounds = call[c].round
    <3>1. http[c] <= budget[c].calls /\ budget[c].rounds = call[c].round
      BY <1>1, <2>5 DEF ViewersAfford, Affords
    <3>2. http[c] \in Nat /\ budget[c].calls \in Nat
      BY <1>1 DEF CallsShaped
    <3>3. QED BY <2>4, <2>5, <3>1, <3>2
  <2>6. QED BY <1>1, <2>2, <2>3, <2>4, <2>5, StartKeeps
<1>5. CASE Kind(c) # "memory" /\ ~MaySend(c)
  <2>1. PICK statuses, g : statuses = <<"failed">> /\ g = gate
    OBVIOUS
  <2>2. End(c, g, statuses, FALSE) /\ Fits(g, AtLine \ {c}, AtServer \ {c})
    BY <1>2, <1>5, <2>1 DEF Prepared
  <2>3. QED BY <1>1, <2>2, EndKeeps
<1>6. QED BY <1>3, <1>4, <1>5

\* The extractor has its slot and asks.
LEMMA TakeSlotKeeps ==
  ASSUME CallsInv, NEW c \in Known, TakeSlot(c)
  PROVE  CallsInv'
<1>1. /\ c \in Calls /\ call[c].at = "slot" /\ c \notin AtLine /\ c \notin AtServer
      /\ CallsShaped /\ ViewersAfford /\ Fits(gate, AtLine, AtServer)
      /\ Live(c) /\ UNCHANGED <<scenario, late, up>>
  BY KnownAreCalls DEF TakeSlot, AtLine, AtServer, CallsInv, Live, Waiting
<1>2. Fits(gate, AtLine \ {c}, AtServer \ {c})
  BY <1>1, NothingHeld
<1>3. PICK g, b, said : g = Look(Join(gate, c), c) /\ b = budget /\ said = <<>>
  OBVIOUS
<1>4. Start(c, g, b, said)
  BY <1>3 DEF TakeSlot
<1>5. Asking(g, c)
  BY <1>1, <1>2, <1>3, AskFacts
<1>6. Kind(c) # "viewer"
  BY <1>1 DEF ViewersAfford, Affords
<1>7. b \in Budgets /\ \A d \in Calls \ {c} : b[d] = budget[d]
  BY <1>1, <1>3 DEF CallsShaped, Budgets
<1>8. QED BY <1>1, <1>4, <1>5, <1>6, <1>7, StartKeeps

\* A waiter that was notified looks again.
LEMMA LookAgainKeeps ==
  ASSUME CallsInv, NEW c \in Known, LookAgain(c)
  PROVE  CallsInv'
<1>1. /\ c \in Calls /\ call[c].at = "line" /\ c \in AtLine
      /\ CallsShaped /\ ViewersAfford /\ Fits(gate, AtLine, AtServer)
      /\ Live(c) /\ UNCHANGED <<scenario, late, up>>
  BY KnownAreCalls DEF LookAgain, AtLine, CallsInv, Live, Waiting
<1>2. PICK g, b, said : g = Look(gate, c) /\ b = budget /\ said = <<>>
  OBVIOUS
<1>3. Start(c, g, b, said)
  BY <1>2 DEF LookAgain
<1>4. Asking(g, c)
  BY <1>1, <1>2, AskAgainFacts
<1>5. b \in Budgets /\ \A d \in Calls \ {c} : b[d] = budget[d]
  BY <1>1, <1>2 DEF CallsShaped, Budgets
<1>6. Kind(c) = "viewer" => http[c] + 1 <= b[c].calls /\ b[c].rounds = call[c].round
  BY <1>1, <1>2 DEF ViewersAfford, Affords
<1>7. QED BY <1>1, <1>3, <1>4, <1>5, <1>6, StartKeeps

---------------------------------------------------------------------------
(* The server answers, the call ends.                                      *)

\* What every answer finds.
LEMMA AtTheServer ==
  ASSUME CallsInv, NEW c \in Known, NEW what, Answering(c, what)
  PROVE  /\ c \in Calls /\ c \in AtServer /\ Live(c) /\ call[c].at = "server"
         /\ CallsShaped /\ ViewersAfford /\ Fits(gate, AtLine, AtServer)
BY KnownAreCalls DEF Answering, AtServer, CallsInv, Live, Waiting

\* The answers of the server: good,
LEMMA AnswerGoodKeeps ==
  ASSUME CallsInv, NEW c \in Known, AnswerGood(c)
  PROVE  CallsInv'
<1>1. /\ c \in Calls /\ c \in AtServer /\ Live(c) /\ Fits(gate, AtLine, AtServer)
      /\ UNCHANGED <<scenario, late, up>>
  BY AtTheServer DEF AnswerGood
<1>2. PICK f, g, statuses : f = Praise(gate, c) /\ g = Release(f, c)
                            /\ statuses = <<"received", "succeeded">>
  OBVIOUS
<1>3. End(c, g, statuses, FALSE)
  BY <1>2 DEF AnswerGood
<1>4. Fits(f, AtLine, AtServer)
  BY <1>1, <1>2, PraiseFacts
<1>5. Fits(g, AtLine \ {c}, AtServer \ {c})
  BY <1>1, <1>2, <1>4, LeaseReturned
<1>6. QED BY <1>1, <1>3, <1>5, EndKeeps

\* none at all,
LEMMA AnswerMissingKeeps ==
  ASSUME CallsInv, NEW c \in Known, AnswerMissing(c)
  PROVE  CallsInv'
<1>1. /\ c \in Calls /\ c \in AtServer /\ Live(c) /\ call[c].at = "server"
      /\ Fits(gate, AtLine, AtServer) /\ UNCHANGED <<scenario, late, up>>
  BY AtTheServer DEF AnswerMissing
<1>2. PICK said : End(c, Release(gate, c), said \o <<"failed">>, TRUE)
  BY DEF AnswerMissing
<1>3. PICK g, statuses : g = Release(gate, c) /\ statuses = said \o <<"failed">>
  OBVIOUS
<1>4. End(c, g, statuses, TRUE)
  BY <1>2, <1>3
<1>5. Fits(g, AtLine \ {c}, AtServer \ {c})
  BY <1>1, <1>3, LeaseReturned
<1>6. QED BY <1>1, <1>4, <1>5, EndKeeps

\* a 429, which closes the gate for a while,
LEMMA AnswerLimitedKeeps ==
  ASSUME CallsInv, NEW c \in Known, AnswerLimited(c)
  PROVE  CallsInv'
<1>1. /\ c \in Calls /\ c \in AtServer /\ Live(c) /\ call[c].at = "server"
      /\ Fits(gate, AtLine, AtServer) /\ UNCHANGED <<scenario, late, up>>
  BY AtTheServer DEF AnswerLimited
<1>2. PICK r : End(c, Release(Defer(gate, r), c), <<"received", "failed">>, TRUE)
  BY DEF AnswerLimited
<1>3. PICK f, g, statuses : f = Defer(gate, r) /\ g = Release(f, c)
                            /\ statuses = <<"received", "failed">>
  OBVIOUS
<1>4. End(c, g, statuses, TRUE)
  BY <1>2, <1>3
<1>5. Fits(f, AtLine, AtServer)
  BY <1>1, <1>3, DeferFacts
<1>6. Fits(g, AtLine \ {c}, AtServer \ {c})
  BY <1>1, <1>3, <1>5, LeaseReturned
<1>7. QED BY <1>1, <1>4, <1>6, EndKeeps

\* one that cannot be used,
LEMMA AnswerUselessKeeps ==
  ASSUME CallsInv, NEW c \in Known, AnswerUseless(c)
  PROVE  CallsInv'
<1>1. /\ c \in Calls /\ c \in AtServer /\ Live(c) /\ call[c].at = "server"
      /\ Fits(gate, AtLine, AtServer) /\ UNCHANGED <<scenario, late, up>>
  BY AtTheServer DEF AnswerUseless
<1>2. PICK f \in {gate, Praise(gate, c)} : End(c, Release(f, c), <<"received", "failed">>, FALSE)
  BY DEF AnswerUseless
<1>3. PICK g, statuses : g = Release(f, c) /\ statuses = <<"received", "failed">>
  OBVIOUS
<1>4. End(c, g, statuses, FALSE)
  BY <1>2, <1>3
<1>5. Fits(f, AtLine, AtServer)
  <2>1. CASE f = gate
    BY <1>1, <2>1
  <2>2. CASE f = Praise(gate, c)
    BY <1>1, <2>2, PraiseFacts
  <2>3. QED BY <1>2, <2>1, <2>2
<1>6. Fits(g, AtLine \ {c}, AtServer \ {c})
  BY <1>1, <1>3, <1>5, LeaseReturned
<1>7. QED BY <1>1, <1>4, <1>6, EndKeeps

\* A step that leaves a call where it is.
LEMMA InPlaceKeeps ==
  ASSUME CallsInv, NEW c \in Known, Moves(c), call[c].at # "idle", call'[c].at = call[c].at,
         call'[c].retryable = call[c].retryable,
         UNCHANGED <<scenario, gate, budget, up, late>>,
         http' \in [Calls -> Nat], \A d \in Calls \ {c} : http'[d] = http[d],
         Kind(c) = "viewer" => http'[c] = http[c]
  PROVE  CallsInv'
<1>1. /\ CallsShaped /\ RoundsBounded /\ ViewersAfford /\ c \in Calls
      /\ Fits(gate, AtLine, AtServer)
      /\ call[c].at \in Waiting \cup {"idle", "ended", "past", "lost"}
      /\ budget \in Budgets /\ late \subseteq Calls
  BY KnownAreCalls DEF CallsInv, CallsShaped, Budgets
<1>2. AtLine' = AtLine /\ AtServer' = AtServer
  BY <1>1, Stand DEF AtLine, AtServer
<1>3. CallsShaped'
  BY <1>1, ShapeKept
<1>4. ASSUME Kind(c) = "viewer" PROVE Affords(c)'
  <2>1. Affords(c) /\ http'[c] = http[c] /\ budget'[c] = budget[c] /\ call'[c].round = call[c].round
    BY <1>1, <1>4 DEF ViewersAfford, Moves
  <2>2. Live(c)' <=> Live(c)
    BY DEF Live
  <2>3. QED BY <2>1, <2>2 DEF Affords
<1>5. RoundsBounded' /\ ViewersAfford'
  BY <1>1, <1>4, MoveKeeps
<1>6. QED BY <1>1, <1>2, <1>3, <1>5 DEF CallsInv

\* one that asks for plain text, and keeps its lease,
LEMMA AnswerNoJsonModeKeeps ==
  ASSUME CallsInv, NEW c \in Known, AnswerNoJsonMode(c)
  PROVE  CallsInv'
<1>1. /\ c \in Calls /\ call[c].at = "server" /\ CallsShaped
  BY AtTheServer DEF AnswerNoJsonMode
<1>2. /\ call' = [call EXCEPT ![c].plain = TRUE] /\ http' = [http EXCEPT ![c] = @ + 1]
      /\ UNCHANGED <<scenario, gate, budget, up, late>> /\ Kind(c) # "viewer"
  BY DEF AnswerNoJsonMode
<1>3. /\ call = [d \in Calls |-> call[d]] /\ IsCall(call[c]) /\ http \in [Calls -> Nat]
      /\ call[c].retryable \in BOOLEAN
  BY <1>1 DEF CallsShaped
<1>4. /\ call' = [d \in Calls |-> call'[d]]
      /\ \A d \in Calls \ {c} : call'[d] = call[d]
      /\ call'[c] = [call[c] EXCEPT !.plain = TRUE]
  BY <1>1, <1>2, <1>3
<1>5. /\ IsCall(call'[c]) /\ call'[c].at = call[c].at /\ call'[c].round = call[c].round
      /\ call'[c].retryable = call[c].retryable
  BY <1>3, <1>4 DEF IsCall
<1>6. Moves(c)
  BY <1>3, <1>4, <1>5 DEF Moves
<1>7. http' \in [Calls -> Nat] /\ \A d \in Calls \ {c} : http'[d] = http[d]
  <2>1. http' = [http EXCEPT ![c] = http[c] + 1] /\ http[c] + 1 \in Nat
    BY <1>1, <1>2, <1>3
  <2>2. QED BY <1>1, <1>3, <2>1
<1>8. QED BY <1>1, <1>2, <1>5, <1>6, <1>7, InPlaceKeeps

\* and one that is repaired, which gives its lease back and asks for another.
LEMMA AnswerBrokenKeeps ==
  ASSUME CallsInv, NEW c \in Known, AnswerBroken(c)
  PROVE  CallsInv'
<1>1. /\ c \in Calls /\ c \in AtServer /\ Live(c) /\ call[c].at = "server"
      /\ CallsShaped /\ ViewersAfford
      /\ Fits(gate, AtLine, AtServer) /\ UNCHANGED <<scenario, late, up>> /\ Kind(c) = "viewer"
  BY AtTheServer DEF AnswerBroken
<1>2. PICK f, h : f = Praise(gate, c) /\ h = Release(f, c)
  OBVIOUS
<1>3. Fits(f, AtLine, AtServer)
  BY <1>1, <1>2, PraiseFacts
<1>4. Fits(h, AtLine \ {c}, AtServer \ {c})
  BY <1>1, <1>2, <1>3, LeaseReturned
<1>5. CASE MaySend(c)
  <2>1. PICK g, b, said : g = Look(Join(h, c), c) /\ b = Spent(c) /\ said = <<"received">>
    OBVIOUS
  <2>2. Start(c, g, b, said)
    BY <1>2, <1>5, <2>1 DEF AnswerBroken, Repair
  <2>3. Asking(g, c)
    BY <1>1, <1>4, <2>1, AskFacts
  <2>4. /\ b \in Budgets /\ \A d \in Calls \ {c} : b[d] = budget[d]
        /\ Kind(c) = "viewer" => b[c].calls = budget[c].calls + 1 /\ b[c].rounds = budget[c].rounds
    BY <1>1, <1>5, <2>1, SpentFacts
  <2>5. http[c] + 1 <= b[c].calls /\ b[c].rounds = call[c].round
    <3>1. http[c] <= budget[c].calls /\ budget[c].rounds = call[c].round
      BY <1>1 DEF ViewersAfford, Affords
    <3>2. http[c] \in Nat /\ budget[c].calls \in Nat
      BY <1>1 DEF CallsShaped
    <3>3. QED BY <1>1, <2>4, <3>1, <3>2
  <2>6. QED BY <1>1, <2>2, <2>3, <2>4, <2>5, StartKeeps
<1>6. CASE ~MaySend(c)
  <2>1. PICK statuses : statuses = <<"received", "failed">>
    OBVIOUS
  <2>2. End(c, h, statuses, FALSE)
    BY <1>2, <1>6, <2>1 DEF AnswerBroken
  <2>3. QED BY <1>1, <1>4, <2>2, EndKeeps
<1>7. QED BY <1>5, <1>6

\* A cancelled call gives back its lease or its place, whichever it has.
LEMMA UnwindKeeps ==
  ASSUME CallsInv, NEW c \in Known, Unwind(c)
  PROVE  CallsInv'
<1>1. /\ c \in Calls /\ Live(c) /\ Fits(gate, AtLine, AtServer) /\ UNCHANGED <<scenario, late, up>>
  BY KnownAreCalls DEF Unwind, CallsInv
<1>2. PICK g, statuses : /\ g = IF call[c].at = "line" THEN Leave(gate, c)
                                ELSE IF call[c].at = "server" THEN Release(gate, c) ELSE gate
                         /\ statuses = <<"cancelled">>
  OBVIOUS
<1>3. End(c, g, statuses, FALSE)
  BY <1>2 DEF Unwind
<1>4. Fits(g, AtLine \ {c}, AtServer \ {c})
  <2>1. CASE call[c].at = "line"
    <3>1. PICK L, R : L = AtLine /\ R = AtServer
      OBVIOUS
    <3>2. Fits(gate, L, R) /\ c \notin R /\ g = Leave(gate, c)
      BY <1>1, <1>2, <2>1, <3>1 DEF AtServer
    <3>3. Fits(g, L \ {c}, R)
      BY <1>1, <3>2, LeaveFacts
    <3>4. R = AtServer \ {c}
      BY <3>1, <3>2
    <3>5. QED BY <3>1, <3>3, <3>4
  <2>2. CASE call[c].at = "server"
    <3>1. c \in AtServer /\ g = Release(gate, c)
      BY <1>1, <1>2, <2>2 DEF AtServer
    <3>2. QED BY <1>1, <3>1, LeaseReturned
  <2>3. CASE call[c].at \notin {"line", "server"}
    <3>1. c \notin AtLine /\ c \notin AtServer /\ g = gate
      BY <1>2, <2>3 DEF AtLine, AtServer
    <3>2. QED BY <1>1, <3>1, NothingHeld
  <2>4. QED BY <2>1, <2>2, <2>3
<1>5. QED BY <1>1, <1>3, <1>4, EndKeeps

---------------------------------------------------------------------------
(* What moves no call.                                                     *)

\* What leaves every call where it is: a flag is set, a deadline passes, the gate's clock
\* runs, the process comes back.
LEMMA FlagsKeep ==
  ASSUME CallsInv, call' = [d \in Calls |-> call'[d]],
         \A d \in Calls : IsCall(call'[d]) /\ call'[d].at = call[d].at
                          /\ call'[d].round = call[d].round /\ call'[d].retryable = call[d].retryable,
         Fits(gate', AtLine, AtServer), UNCHANGED <<scenario, budget, http>>,
         late \subseteq late', late' \subseteq Calls, up' \in BOOLEAN
  PROVE  CallsInv'
<1>1. CallsShaped /\ RoundsBounded /\ ViewersAfford
  BY DEF CallsInv
<1>2. Known \subseteq Calls /\ Known' = Known /\ \A d : Kind(d)' = Kind(d)
  BY <1>1, KnownAreCalls DEF Known, Kind
<1>3. AtLine' = AtLine /\ AtServer' = AtServer
  BY DEF AtLine, AtServer
<1>4. CallsShaped'
  BY <1>1 DEF CallsShaped
<1>5. RoundsBounded'
  BY <1>1, <1>2 DEF RoundsBounded
<1>6. ASSUME NEW d \in Known, Kind(d) = "viewer" PROVE Affords(d)'
  <2>1. d \in Calls /\ Affords(d)
    BY <1>1, <1>2, <1>6 DEF ViewersAfford
  <2>2. call'[d].at = call[d].at /\ call'[d].round = call[d].round /\ call'[d].retryable = call[d].retryable
    BY <2>1
  <2>3. http'[d] = http[d] /\ budget'[d] = budget[d] /\ (d \notin late' => d \notin late)
    OBVIOUS
  <2>4. Live(d)' <=> Live(d)
    BY <2>2 DEF Live
  <2>5. QED BY <2>1, <2>2, <2>3, <2>4 DEF Affords
<1>7. QED BY <1>2, <1>3, <1>4, <1>5, <1>6 DEF CallsInv, ViewersAfford

\* The calls are not touched.
LEMMA CalmKeeps ==
  ASSUME CallsInv, Fits(gate', AtLine, AtServer), UNCHANGED <<scenario, call, budget, http, late>>,
         up' \in BOOLEAN
  PROVE  CallsInv'
<1>1. CallsShaped
  BY DEF CallsInv
<1>2. /\ call = [d \in Calls |-> call[d]] /\ late \subseteq Calls
      /\ \A d \in Calls : IsCall(call[d])
  BY <1>1 DEF CallsShaped
<1>3. /\ call' = [d \in Calls |-> call'[d]]
      /\ \A d \in Calls : /\ IsCall(call'[d]) /\ call'[d].at = call[d].at
                          /\ call'[d].round = call[d].round /\ call'[d].retryable = call[d].retryable
  BY <1>2
<1>4. late \subseteq late' /\ late' \subseteq Calls
  BY <1>2
<1>5. QED BY <1>3, <1>4, FlagsKeep

\* Some calls are told to stop.
LEMMA DoomKeeps ==
  ASSUME CallsInv, NEW D, call' = [d \in Calls |-> [call[d] EXCEPT !.doomed = D[d]]],
         UNCHANGED <<scenario, gate, budget, http, late, up>>
  PROVE  CallsInv'
<1>1. CallsShaped /\ Fits(gate, AtLine, AtServer)
  BY DEF CallsInv
<1>2. late \subseteq Calls /\ up \in BOOLEAN /\ \A d \in Calls : IsCall(call[d])
  BY <1>1 DEF CallsShaped
<1>3. call' = [d \in Calls |-> call'[d]]
  OBVIOUS
<1>4. ASSUME NEW d \in Calls
      PROVE  /\ IsCall(call'[d]) /\ call'[d].at = call[d].at
             /\ call'[d].round = call[d].round /\ call'[d].retryable = call[d].retryable
  <2>1. PICK x, y : x = call[d] /\ y = D[d]
    OBVIOUS
  <2>2. call'[d] = [x EXCEPT !.doomed = y] /\ IsCall(x)
    BY <1>2, <2>1
  <2>3. QED BY <2>1, <2>2 DEF IsCall
<1>5. late \subseteq late' /\ late' \subseteq Calls /\ up' \in BOOLEAN /\ Fits(gate', AtLine, AtServer)
  BY <1>1, <1>2
<1>6. QED BY <1>3, <1>4, <1>5, FlagsKeep

\* The same for the way one batch tells its call.
LEMMA DoomedKeeps ==
  ASSUME CallsInv, NEW c \in Calls, NEW b, call' = [call EXCEPT ![c].doomed = b],
         UNCHANGED <<scenario, gate, budget, http, late, up>>
  PROVE  CallsInv'
<1>1. /\ call = [d \in Calls |-> call[d]] /\ \A d \in Calls : IsCall(call[d])
      /\ late \subseteq Calls /\ up \in BOOLEAN /\ Fits(gate, AtLine, AtServer)
  BY DEF CallsInv, CallsShaped
<1>2. /\ call' = [d \in Calls |-> call'[d]]
      /\ \A d \in Calls \ {c} : call'[d] = call[d]
      /\ call'[c] = [call[c] EXCEPT !.doomed = b]
  BY <1>1
<1>3. PICK x : x = call[c]
  OBVIOUS
<1>4. call'[c] = [x EXCEPT !.doomed = b] /\ IsCall(x)
  BY <1>1, <1>2, <1>3
<1>5. /\ IsCall(call'[c]) /\ call'[c].at = call[c].at
      /\ call'[c].round = call[c].round /\ call'[c].retryable = call[c].retryable
  BY <1>3, <1>4 DEF IsCall
<1>6. \A d \in Calls : /\ IsCall(call'[d]) /\ call'[d].at = call[d].at
                       /\ call'[d].round = call[d].round /\ call'[d].retryable = call[d].retryable
  <2>1. ASSUME NEW d \in Calls
        PROVE  /\ IsCall(call'[d]) /\ call'[d].at = call[d].at
               /\ call'[d].round = call[d].round /\ call'[d].retryable = call[d].retryable
    <3>1. CASE d = c
      BY <1>5, <3>1
    <3>2. CASE d # c
      <4>1. call'[d] = call[d]
        BY <1>2, <3>2
      <4>2. QED BY <1>1, <4>1
    <3>3. QED BY <3>1, <3>2
  <2>2. QED BY <2>1
<1>7. late \subseteq late' /\ late' \subseteq Calls /\ up' \in BOOLEAN /\ Fits(gate', AtLine, AtServer)
  BY <1>1
<1>8. QED BY <1>2, <1>6, <1>7, FlagsKeep

---------------------------------------------------------------------------
(* Invocations, cancellation, the process.                                 *)

\* An invocation begins: a first one, or the one retry of a viewer request; or the attempt
\* of a batch.
LEMMA InvokedKeeps ==
  ASSUME CallsInv, NEW c \in Known, ~Live(c), Invoked(c), UNCHANGED <<scenario, late, up>>,
         Kind(c) # "batch" => call[c].round <= 1,
         Kind(c) = "viewer" => \/ call[c].at = "idle"
                               \/ /\ call[c].at = "ended" /\ call[c].retryable
                                  /\ call[c].round = 1 /\ c \notin late
  PROVE  CallsInv'
<1>1. /\ CallsShaped /\ RoundsBounded /\ ViewersAfford /\ c \in Calls /\ Fits(gate, AtLine, AtServer)
  BY KnownAreCalls DEF CallsInv
<1>2. /\ call = [d \in Calls |-> call[d]] /\ call[c].round \in Nat /\ budget \in Budgets
      /\ http \in [Calls -> Nat] /\ late \subseteq Calls /\ up \in BOOLEAN /\ scenario \in Scenarios
      /\ \A d \in Calls : /\ IsCall(call[d])
                          /\ call[d].at \in Waiting \cup {"idle", "ended", "past", "lost"}
                          /\ call[d].round \in Nat /\ call[d].retryable \in BOOLEAN
  BY <1>1 DEF CallsShaped, Budgets
<1>3. PICK n, x : n = call[c].round + 1 /\ x = [NoCall EXCEPT !.at = "prepare", !.round = n]
  OBVIOUS
<1>4. call' = [call EXCEPT ![c] = x] /\ UNCHANGED <<gate, http>>
      /\ budget' = IF Kind(c) = "viewer" THEN [Unexpired EXCEPT ![c].rounds = @ + 1] ELSE budget
  BY <1>3 DEF Invoked
<1>5. /\ IsCall(x) /\ x.at = "prepare" /\ x.round = n /\ x.retryable = FALSE /\ n \in Nat
  <2>1. x = [at |-> "prepare", round |-> n, repair |-> FALSE, plain |-> FALSE,
             doomed |-> FALSE, retryable |-> FALSE, outcome |-> "none"]
    BY <1>3 DEF NoCall
  <2>2. n \in Nat
    BY <1>2, <1>3
  <2>3. IsCall(x)
    BY <2>1 DEF IsCall
  <2>4. QED BY <2>1, <2>2, <2>3
<1>6. /\ call' = [d \in Calls |-> call'[d]] /\ call'[c] = x
      /\ \A d \in Calls \ {c} : call'[d] = call[d]
  <2>1. call = [d \in Calls |-> call[d]] /\ call' = [call EXCEPT ![c] = x] /\ c \in Calls
    BY <1>1, <1>2, <1>4
  <2>2. QED BY <2>1
<1>7. Known' = Known /\ Known \subseteq Calls /\ \A d : Kind(d)' = Kind(d)
  BY <1>1, KnownAreCalls DEF Known, Kind
<1>8. AtLine' = AtLine /\ AtServer' = AtServer
  <2>1. call[c].at \notin {"line", "server"} /\ call'[c].at \notin {"line", "server"}
    BY <1>5, <1>6 DEF Live, Waiting
  <2>2. \A d \in Calls : /\ call'[d].at = "line" <=> call[d].at = "line"
                         /\ call'[d].at = "server" <=> call[d].at = "server"
    BY <1>6, <2>1
  <2>3. QED BY <2>2, Zenon DEF AtLine, AtServer
<1>9. Unexpired \in Budgets
  BY <1>2 DEF Unexpired, Budgets, NoBudget
<1>10. /\ budget' \in Budgets
       /\ \A d \in Calls \ {c} : budget'[d] \in {budget[d], Unexpired[d]}
       /\ Kind(c) = "viewer" => /\ budget'[c].rounds = Unexpired[c].rounds + 1
                                /\ budget'[c].calls = Unexpired[c].calls
  <2>1. CASE Kind(c) # "viewer"
    BY <1>2, <1>4, <2>1
  <2>2. CASE Kind(c) = "viewer"
    <3>1. PICK u : u = Unexpired
      OBVIOUS
    <3>2. u \in [Calls -> [rounds : Nat, calls : 0..2]] /\ budget' = [u EXCEPT ![c].rounds = @ + 1]
      BY <1>4, <1>9, <2>2, <3>1 DEF Budgets
    <3>3. /\ budget' \in [Calls -> [rounds : Nat, calls : 0..2]]
          /\ \A d \in Calls \ {c} : budget'[d] = u[d]
          /\ budget'[c].rounds = u[c].rounds + 1 /\ budget'[c].calls = u[c].calls
      BY <1>1, <3>2
    <3>4. QED BY <3>1, <3>3 DEF Budgets
  <2>3. QED BY <2>1, <2>2
<1>11. CallsShaped'
  <2>1. ASSUME NEW d \in Calls
        PROVE  /\ IsCall(call'[d]) /\ call'[d].at \in Waiting \cup {"idle", "ended", "past", "lost"}
               /\ call'[d].round \in Nat /\ call'[d].retryable \in BOOLEAN
    <3>1. CASE d = c
      BY <1>5, <1>6, <3>1 DEF Waiting
    <3>2. CASE d # c
      <4>1. call'[d] = call[d]
        BY <1>6, <3>2
      <4>2. QED BY <1>2, <4>1
    <3>3. QED BY <3>1, <3>2
  <2>2. http' \in [Calls -> Nat] /\ late' \subseteq Calls /\ up' \in BOOLEAN /\ scenario' \in Scenarios
    BY <1>2, <1>4
  <2>3. QED BY <1>6, <1>10, <2>1, <2>2 DEF CallsShaped, Budgets
<1>12. RoundsBounded'
  <2>1. ASSUME NEW d \in Calls, d \notin Known PROVE call'[d].at = "idle"
    BY <1>1, <1>6, <2>1 DEF RoundsBounded
  <2>2. ASSUME NEW d \in Calls, d \notin Known \/ Kind(d) # "batch"
        PROVE  call'[d].round <= 2 /\ (call'[d].at = "idle" => call'[d].round = 0)
    <3>1. CASE d = c
      <4>1. n <= 2
        BY <1>2, <1>3, <2>2, <3>1
      <4>2. QED BY <1>5, <1>6, <3>1, <4>1
    <3>2. CASE d # c
      BY <1>1, <1>6, <2>2, <3>2 DEF RoundsBounded
    <3>3. QED BY <3>1, <3>2
  <2>3. QED BY <1>7, <2>1, <2>2 DEF RoundsBounded
<1>13. ASSUME NEW d \in Known, Kind(d) = "viewer" PROVE Affords(d)'
  <2>0. d \in Calls /\ Affords(d)
    BY <1>1, <1>7, <1>13 DEF ViewersAfford
  <2>1. CASE d = c
    <3>1. Unexpired[c] = IF ~Live(c) /\ c \in late THEN NoBudget ELSE budget[c]
      BY <1>1 DEF Unexpired
    <3>2. http'[c] = http[c] /\ http[c] \in Nat /\ http[c] <= 2
      BY <1>1, <1>2, <1>4, <2>0, <2>1 DEF Affords
    <3>3. http[c] <= Unexpired[c].calls /\ Unexpired[c].rounds + 1 = n
      <4>1. CASE call[c].at = "idle"
        <5>1. call[c].round = 0 /\ n = 1
          BY <1>1, <1>3, <1>13, <2>1, <4>1 DEF RoundsBounded
        <5>2. http[c] = 0 /\ Unexpired[c] = NoBudget
          BY <2>0, <2>1, <3>1, <4>1 DEF Affords
        <5>3. QED BY <5>1, <5>2 DEF NoBudget
      <4>2. CASE /\ call[c].at = "ended" /\ call[c].retryable
                 /\ call[c].round = 1 /\ c \notin late
        <5>1. Unexpired[c] = budget[c] /\ n = 2
          BY <1>3, <3>1, <4>2
        <5>2. http[c] <= budget[c].calls /\ budget[c].rounds = 1
          BY <2>0, <2>1, <4>2 DEF Affords
        <5>3. QED BY <5>1, <5>2
      <4>3. QED BY <1>13, <2>1, <4>1, <4>2
    <3>4. http'[c] <= budget'[c].calls /\ budget'[c].rounds = call'[c].round
      BY <1>5, <1>6, <1>10, <1>13, <2>1, <3>2, <3>3
    <3>5. call'[c].at = "prepare"
      BY <1>5, <1>6
    <3>6. QED BY <2>1, <3>2, <3>4, <3>5 DEF Affords
  <2>2. CASE d # c
    <3>1. call'[d] = call[d] /\ http'[d] = http[d] /\ late \subseteq late'
      BY <1>4, <1>6, <2>0, <2>2
    <3>2. budget'[d] \in {budget[d], Unexpired[d]}
      BY <1>10, <2>0, <2>2
    <3>3. QED BY <2>0, <3>1, <3>2, AffordsFrame
  <2>3. QED BY <2>1, <2>2
<1>14. Fits(gate', AtLine', AtServer')
  BY <1>1, <1>4, <1>8
<1>15. QED BY <1>7, <1>11, <1>12, <1>13, <1>14 DEF CallsInv, ViewersAfford

\* An invocation that is no batch's.
LEMMA InvokeKeeps ==
  ASSUME CallsInv, NEW c \in Known, Invoke(c)
  PROVE  CallsInv'
<1>1. /\ CallsShaped /\ RoundsBounded /\ c \in Calls
  BY KnownAreCalls DEF CallsInv
<1>2. /\ Kind(c) # "batch" /\ Invoked(c) /\ UNCHANGED <<scenario, late, up>>
      /\ \/ call[c].at = "idle"
         \/ /\ Kind(c) = "viewer" /\ call[c].round = 1 /\ c \notin late
            /\ call[c].at = "ended" /\ call[c].retryable
  BY DEF Invoke
<1>3. ~Live(c)
  BY <1>2 DEF Live, Waiting
<1>4. call[c].round <= 1
  BY <1>1, <1>2 DEF RoundsBounded
<1>5. QED BY <1>2, <1>3, <1>4, InvokedKeeps

\* The caller gives up.
LEMMA AbandonKeeps ==
  ASSUME CallsInv, NEW c \in Known, Abandon(c)
  PROVE  CallsInv'
<1>1. /\ c \in Calls /\ call' = [call EXCEPT ![c].doomed = TRUE]
      /\ UNCHANGED <<scenario, gate, budget, http, late, up>>
  BY KnownAreCalls DEF Abandon, CallsInv
<1>2. PICK b : b = TRUE
  OBVIOUS
<1>3. QED BY <1>1, <1>2, DoomedKeeps

\* A deadline passes.
LEMMA ExpireKeeps ==
  ASSUME CallsInv, NEW c \in Known, Expire(c)
  PROVE  CallsInv'
<1>1. /\ c \in Calls /\ late' = late \cup {c} /\ UNCHANGED <<scenario, gate, call, budget, http, up>>
  BY KnownAreCalls DEF Expire, CallsInv, callVars
<1>2. /\ call = [d \in Calls |-> call[d]] /\ \A d \in Calls : IsCall(call[d])
      /\ late \subseteq Calls /\ up \in BOOLEAN /\ Fits(gate, AtLine, AtServer)
  BY DEF CallsInv, CallsShaped
<1>3. /\ call' = [d \in Calls |-> call'[d]]
      /\ \A d \in Calls : /\ IsCall(call'[d]) /\ call'[d].at = call[d].at
                          /\ call'[d].round = call[d].round /\ call'[d].retryable = call[d].retryable
  BY <1>1, <1>2
<1>4. late \subseteq late' /\ late' \subseteq Calls /\ up' \in BOOLEAN /\ Fits(gate', AtLine, AtServer)
  BY <1>1, <1>2
<1>5. QED BY <1>1, <1>3, <1>4, FlagsKeep

\* The log is told what became of the lines.
LEMMA NoteOutputKeeps ==
  ASSUME CallsInv, NEW c \in Known, NoteOutput(c)
  PROVE  CallsInv'
<1>1. UNCHANGED <<scenario, gate, call, budget, late, http, up>>
  BY DEF NoteOutput
<1>2. Fits(gate', AtLine, AtServer) /\ up' \in BOOLEAN
  BY <1>1 DEF CallsInv, CallsShaped
<1>3. QED BY <1>1, <1>2, CalmKeeps

\* The process is back.
LEMMA RestartKeeps ==
  ASSUME CallsInv, Restart
  PROVE  CallsInv'
<1>1. UNCHANGED <<scenario, gate, call, budget, late, http>> /\ up' = TRUE
  BY DEF Restart
<1>2. Fits(gate', AtLine, AtServer) /\ up' \in BOOLEAN
  BY <1>1 DEF CallsInv
<1>3. QED BY <1>1, <1>2, CalmKeeps

\* The process dies: nobody holds anything any more.
LEMMA CrashKeeps ==
  ASSUME CallsInv, Crash
  PROVE  CallsInv'
<1>1. /\ CallsShaped /\ RoundsBounded /\ ViewersAfford
  BY DEF CallsInv
<1>2. /\ gate' = OpenGate(scenario.inFlight) /\ budget' = [c \in Calls |-> NoBudget]
      /\ up' = FALSE /\ UNCHANGED <<scenario, late, http>>
      /\ call' = [c \in Calls |->
                    [call[c] EXCEPT !.at = IF Live(c) THEN "lost" ELSE IF @ = "ended" THEN "past" ELSE @,
                                    !.retryable = FALSE, !.doomed = FALSE]]
  BY DEF Crash
<1>3. call' = [d \in Calls |-> call'[d]]
  BY <1>2
<1>4. ASSUME NEW d \in Calls
      PROVE  /\ IsCall(call'[d]) /\ call'[d].round = call[d].round /\ call'[d].retryable = FALSE
             /\ call'[d].at \in {"idle", "past", "lost"}
             /\ call'[d].at = "idle" <=> call[d].at = "idle"
  <2>1. PICK x, a : x = call[d] /\ a = IF Live(d) THEN "lost" ELSE IF x.at = "ended" THEN "past" ELSE x.at
    OBVIOUS
  <2>2. call'[d] = [x EXCEPT !.at = a, !.retryable = FALSE, !.doomed = FALSE] /\ IsCall(x)
        /\ x.at \in Waiting \cup {"idle", "ended", "past", "lost"}
    BY <1>1, <1>2, <2>1 DEF CallsShaped
  <2>3. a \in {"idle", "past", "lost"} /\ (a = "idle" <=> x.at = "idle")
    BY <2>1, <2>2 DEF Live, Waiting
  <2>4. QED BY <2>1, <2>2, <2>3 DEF IsCall
<1>5. AtLine' = {} /\ AtServer' = {}
  BY <1>4 DEF AtLine, AtServer
<1>6. Fits(gate', {}, {})
  <2>1. scenario.inFlight \in Nat
    BY <1>1, ScenarioAssumption DEF CallsShaped
  <2>2. PICK n : n = scenario.inFlight
    OBVIOUS
  <2>3. Fits(OpenGate(n), {}, {})
    BY <2>1, <2>2, OpenFacts
  <2>4. QED BY <1>2, <2>2, <2>3
<1>7. Known \subseteq Calls /\ Known' = Known /\ \A d : Kind(d)' = Kind(d)
  BY <1>1, <1>2, KnownAreCalls DEF Known, Kind
<1>8. CallsShaped'
  <2>1. budget' \in [Calls -> [rounds : Nat, calls : 0..2]]
    <3>1. NoBudget \in [rounds : Nat, calls : 0..2]
      BY DEF NoBudget
    <3>2. QED BY <1>2, <3>1
  <2>2. \A d \in Calls : call'[d].round \in Nat
    BY <1>1, <1>4 DEF CallsShaped
  <2>3. http' \in [Calls -> Nat] /\ late' \subseteq Calls /\ up' \in BOOLEAN /\ scenario' \in Scenarios
    BY <1>1, <1>2 DEF CallsShaped
  <2>4. QED BY <1>3, <1>4, <2>1, <2>2, <2>3 DEF CallsShaped
<1>9. RoundsBounded'
  BY <1>1, <1>4, <1>7 DEF RoundsBounded
<1>10. ASSUME NEW d \in Known, Kind(d) = "viewer" PROVE Affords(d)'
  <2>1. d \in Calls /\ Affords(d)
    BY <1>1, <1>7, <1>10 DEF ViewersAfford
  <2>2. http'[d] = http[d] /\ budget'[d] = NoBudget
    BY <1>2, <2>1
  <2>3. ~Live(d)'
    BY <1>4, <2>1 DEF Live, Waiting
  <2>4. QED BY <1>4, <2>1, <2>2, <2>3 DEF Affords
<1>11. QED BY <1>5, <1>6, <1>7, <1>8, <1>9, <1>10 DEF CallsInv, ViewersAfford

\* Nobody has called.
LEMMA CallsInitEstablishes ==
  ASSUME CallsInit
  PROVE  CallsInv
<1>1. /\ scenario \in Scenarios /\ gate = OpenGate(scenario.inFlight)
      /\ call = [c \in Calls |-> NoCall] /\ budget = [c \in Calls |-> NoBudget]
      /\ late = {} /\ http = [c \in Calls |-> 0] /\ up = TRUE
  BY DEF CallsInit
<1>2. \A d \in Calls : call[d] = NoCall /\ budget[d] = NoBudget /\ http[d] = 0
  BY <1>1
<1>3. NoCall.at = "idle" /\ NoCall.round = 0 /\ NoCall.retryable = FALSE /\ IsCall(NoCall)
  BY DEF NoCall, IsCall
<1>4. CallsShaped
  <2>1. call = [d \in Calls |-> call[d]] /\ http \in [Calls -> Nat] /\ late \subseteq Calls /\ up \in BOOLEAN
    BY <1>1
  <2>2. budget \in [Calls -> [rounds : Nat, calls : 0..2]]
    BY <1>1 DEF NoBudget
  <2>3. ASSUME NEW d \in Calls
        PROVE  /\ IsCall(call[d]) /\ call[d].at = "idle"
               /\ call[d].round \in Nat /\ call[d].retryable \in BOOLEAN
    <3>1. call[d] = NoCall
      BY <1>2
    <3>2. QED BY <3>1 DEF NoCall, IsCall
  <2>4. QED BY <1>1, <2>1, <2>2, <2>3 DEF CallsShaped
<1>5. AtLine = {} /\ AtServer = {}
  BY <1>2, <1>3 DEF AtLine, AtServer
<1>6. Fits(gate, {}, {})
  <2>1. scenario.inFlight \in Nat
    BY <1>1, ScenarioAssumption
  <2>2. PICK n : n = scenario.inFlight
    OBVIOUS
  <2>3. Fits(OpenGate(n), {}, {})
    BY <2>1, <2>2, OpenFacts
  <2>4. QED BY <1>1, <2>2, <2>3
<1>7. RoundsBounded
  BY <1>2, <1>3 DEF RoundsBounded
<1>8. ASSUME NEW d \in Known PROVE Affords(d)
  <2>1. d \in Calls /\ ~Live(d)
    BY <1>2, <1>3, <1>4, KnownAreCalls DEF Live, Waiting
  <2>2. QED BY <1>2, <1>3, <2>1 DEF Affords, NoBudget
<1>9. QED BY <1>4, <1>5, <1>6, <1>7, <1>8 DEF CallsInv, ViewersAfford

\* What the server, the caller and the clock of a call do keeps the books.
LEMMA CallStepKeeps ==
  ASSUME CallsInv, NEW c \in Known, CallStep(c)
  PROVE  CallsInv'
<1>1. CASE Invoke(c) \/ NoteOutput(c) \/ Abandon(c) \/ Expire(c)
  BY <1>1, InvokeKeeps, NoteOutputKeeps, AbandonKeeps, ExpireKeeps
<1>2. CASE PrepareFails(c) \/ Prepared(c) \/ TakeSlot(c) \/ LookAgain(c) \/ Unwind(c)
  BY <1>2, PrepareFailsKeeps, PreparedKeeps, TakeSlotKeeps, LookAgainKeeps, UnwindKeeps
<1>3. CASE \/ AnswerGood(c) \/ AnswerMissing(c) \/ AnswerLimited(c) \/ AnswerUseless(c)
           \/ AnswerNoJsonMode(c) \/ AnswerBroken(c)
  BY <1>3, AnswerGoodKeeps, AnswerMissingKeeps, AnswerLimitedKeeps, AnswerUselessKeeps,
     AnswerNoJsonModeKeeps, AnswerBrokenKeeps
<1>4. QED BY <1>1, <1>2, <1>3 DEF CallStep, Serve

---------------------------------------------------------------------------
(* The books of the batches.                                               *)

Traces == {"none", "cancelled", "stale", "expired", "failed", "rejected", "silence", "published"}
Early == {"new", "admit", "waiting", "ready"}
Holding == {"ready", "claim", "turn", "attempt", "backoff", "accept", "silence"}
Asked == {"turn", "attempt", "backoff", "accept", "silence", "delivery"}

\* A batch's work has its fields and no others.
IsWork(x) ==
    x = [at |-> x.at, slot |-> x.slot, reason |-> x.reason, sent |-> x.sent,
         tries |-> x.tries, items |-> x.items, claimed |-> x.claimed]

WorkOk(x) ==
    /\ IsWork(x)
    /\ x.at \in Early \cup Holding \cup {"delivery", "returned"}
    /\ x.slot \in {"none", "queued", "held"} /\ x.sent \in BOOLEAN /\ x.tries \in 0..2
    /\ x.items \subseteq Viewers /\ x.claimed \subseteq x.items

\* The shape of what is kept of the batches; a call that is none has no work.
WorkShaped ==
    /\ work = [c \in Calls |-> work[c]] /\ \A c \in Calls : WorkOk(work[c])
    /\ \A c \in Calls : c \notin Batches => work[c] = NewWork
    /\ trace \in [Calls -> [Viewers -> Traces]] /\ report \in [Calls -> [Viewers -> Traces]]
    /\ out \in [Calls -> [Viewers -> {"none", "queued", "published", "dropped"}]]
    /\ session \in {"live", "stopped"} /\ fence \in Calls \cup {0} /\ pace \in 0..RequestPace
    /\ lane = [active |-> lane.active, eligible |-> lane.eligible]

Queued == {c \in Calls : work[c].slot = "queued"}
Held == {c \in Calls : work[c].slot = "held"}

\* The lane's books.
LaneInv ==
    /\ lane.active = Cardinality(Held) /\ lane.active <= LaneSlots
    /\ lane.eligible \in Seq(Calls) /\ IsInjective(lane.eligible)
    /\ ToSet(lane.eligible) = Queued /\ Len(lane.eligible) = Cardinality(Queued)
    /\ Len(lane.eligible) <= LaneQueue
    /\ lane.eligible # <<>> => lane.active = LaneSlots

\* How far a batch is, what it holds, how often it asked, and whether it may go on.
StageInv(c) ==
    /\ work[c].at = "waiting" <=> work[c].slot = "queued"
    /\ work[c].slot = "held" => work[c].at \in Holding
    /\ work[c].sent <=> work[c].tries > 0
    /\ work[c].at \in Early \cup {"claim"} => work[c].tries = 0
    /\ work[c].at \in {"turn", "backoff"} => work[c].tries <= 1
    /\ work[c].at \in {"attempt", "accept", "silence", "delivery"} => work[c].tries >= 1
    /\ session = "live" /\ work[c].at # "returned" => work[c].reason = "none"

\* Its call is an attempt of it, or one it gave up.
CallInv(c) ==
    /\ call[c].round = work[c].tries
    /\ Live(c) => work[c].at \in {"attempt", "returned"}

\* What is settled of its viewers.
AccountInv(c) ==
    /\ work[c].at \in Early => work[c].items = {}
    /\ work[c].at # "returned" => \A v \in Viewers : report[c][v] = "none"
    /\ work[c].at \in Asked => \A v \in work[c].items \ work[c].claimed : trace[c][v] # NoTrace
    /\ work[c].at = "silence" => Open(c) # {}
    /\ work[c].at = "delivery" =>
         \A v \in work[c].claimed : trace[c][v] # NoTrace \/ out[c][v] # "none"
    /\ work[c].at = "returned" => \A v \in work[c].items : trace[c][v] # NoTrace \/ out[c][v] = "queued"
    /\ \A v \in work[c].items : report[c][v] \in {"none", trace[c][v]}
    /\ \A v \in Viewers :
         /\ out[c][v] # "none" => work[c].at \in {"accept", "silence", "delivery", "returned"}
         /\ out[c][v] \in {"published", "dropped"} => trace[c][v] # NoTrace
         /\ out[c][v] = "queued" /\ trace[c][v] # NoTrace =>
              work[c].reason = "scheduler" \/ session = "stopped"
         /\ trace[c][v] = "published" => out[c][v] = "published"
         /\ out[c][v] = "published" /\ work[c].reason # "scheduler" /\ session = "live" =>
              trace[c][v] = "published"

BatchesInv == \A c \in Batches : StageInv(c) /\ CallInv(c) /\ AccountInv(c)

DispatchInv == CallsInv /\ WorkShaped /\ LaneInv /\ BatchesInv

---------------------------------------------------------------------------
(* The lane.                                                               *)

\* A promise of the lane to a batch that waited longest: its slot.
Promoted(d, x) == x.slot = "queued" /\ work'[d] = [x EXCEPT !.slot = "held", !.at = "ready"]

\* While no slot changes, the lane's books stay right.
LEMMA LaneStays ==
  ASSUME LaneInv, UNCHANGED lane, \A d \in Calls : work'[d].slot = work[d].slot
  PROVE  LaneInv'
<1>1. Queued' = Queued /\ Held' = Held
  BY DEF Queued, Held
<1>2. QED BY <1>1 DEF LaneInv

\* A slot or a place in the queue is given back, and a free slot goes to the first in line.
LEMMA GiveBackFacts ==
  ASSUME LaneInv, NEW c \in Calls, NEW w, GiveBack(c, w),
         \A d \in Calls : IsWork(w[d]) /\ w[d].slot = work[d].slot
                          /\ w[d].slot \in {"none", "queued", "held"}
  PROVE  /\ LaneInv' /\ lane' = [active |-> lane'.active, eligible |-> lane'.eligible]
         /\ work' = [d \in Calls |-> work'[d]]
         /\ work'[c] = [w[c] EXCEPT !.slot = "none"]
         /\ \A d \in Calls \ {c} : work'[d] = w[d] \/ Promoted(d, w[d])
<1>1. /\ lane.active = Cardinality(Held) /\ lane.active <= LaneSlots
      /\ lane.eligible \in Seq(Calls) /\ IsInjective(lane.eligible)
      /\ ToSet(lane.eligible) = Queued /\ Len(lane.eligible) = Cardinality(Queued)
      /\ Len(lane.eligible) <= LaneQueue
      /\ lane.eligible # <<>> => lane.active = LaneSlots
  BY DEF LaneInv
<1>2. /\ Held \in SUBSET Calls /\ Queued \in SUBSET Calls
      /\ Cardinality(Held) \in Nat /\ Cardinality(Queued) \in Nat /\ Cardinality({}) = 0
      /\ LaneSlots \in Nat \ {0} /\ LaneQueue \in Nat \ {0}
  BY HoldersCounted, FS_EmptySet, LaneAssumption DEF Held, Queued
<1>3. PICK rest : rest = RemoveFirst(lane.eligible, c)
  OBVIOUS
<1>4. PICK active : active = lane.active - (IF w[c].slot = "held" THEN 1 ELSE 0)
  OBVIOUS
<1>5. PICK promote \in BOOLEAN : promote <=> active < LaneSlots /\ rest # <<>>
  OBVIOUS
<1>6. /\ lane' = [active |-> IF promote THEN active + 1 ELSE active,
                  eligible |-> IF promote THEN Tail(rest) ELSE rest]
      /\ work' = [d \in Calls |->
                    IF d = c THEN [w[d] EXCEPT !.slot = "none"]
                    ELSE IF promote /\ d = Head(rest)
                      THEN [w[d] EXCEPT !.slot = "held", !.at = "ready"]
                    ELSE w[d]]
  BY <1>3, <1>4, <1>5 DEF GiveBack
<1>7. /\ rest \in Seq(Calls) /\ IsInjective(rest) /\ ToSet(rest) = Queued \ {c}
      /\ Len(rest) = IF c \in Queued THEN Len(lane.eligible) - 1 ELSE Len(lane.eligible)
  <2>1. PICK q : q = lane.eligible
    OBVIOUS
  <2>2. q \in Seq(Calls) /\ IsInjective(q) /\ rest = RemoveFirst(q, c)
    BY <1>1, <1>3, <2>1
  <2>3. /\ rest \in Seq(Calls) /\ IsInjective(rest) /\ ToSet(rest) = ToSet(q) \ {c}
        /\ Len(rest) = IF c \in ToSet(q) THEN Len(q) - 1 ELSE Len(q)
    BY <2>2, QueueLeft
  <2>4. QED BY <1>1, <2>1, <2>3
<1>8. Cardinality(Queued \ {c}) = Len(rest) /\ Len(rest) \in Nat /\ Len(rest) <= LaneQueue
  <2>1. c \in Queued => Cardinality(Queued \ {c}) = Cardinality(Queued) - 1
    BY <1>2, HoldersCounted
  <2>2. c \notin Queued => Queued \ {c} = Queued
    OBVIOUS
  <2>3. Cardinality(Queued \ {c}) = Len(rest)
    BY <1>1, <1>7, <2>1, <2>2
  <2>4. Len(rest) \in Nat
    BY <1>7, LenProperties
  <2>5. QED BY <1>1, <1>2, <1>7, <2>3, <2>4
<1>9. Cardinality(Held \ {c}) = active /\ active \in Nat
  <2>1. w[c].slot = "held" <=> c \in Held
    BY DEF Held
  <2>2. c \in Held => Cardinality(Held \ {c}) = Cardinality(Held) - 1
    BY <1>2, HoldersCounted
  <2>3. c \notin Held => Held \ {c} = Held
    OBVIOUS
  <2>4. Cardinality(Held \ {c}) = active
    <3>1. CASE c \in Held
      BY <1>1, <1>2, <1>4, <2>1, <2>2, <3>1
    <3>2. CASE c \notin Held
      <4>1. active = lane.active - 0
        BY <1>4, <2>1, <3>2
      <4>2. lane.active = Cardinality(Held) /\ Cardinality(Held) \in Nat
        BY <1>1, <1>2
      <4>3. active = lane.active
        BY <4>1, <4>2
      <4>4. Held \ {c} = Held
        BY <2>3, <3>2
      <4>5. QED BY <4>2, <4>3, <4>4
    <3>3. QED BY <3>1, <3>2
  <2>5. Held \ {c} \in SUBSET Calls
    BY <1>2
  <2>6. Cardinality(Held \ {c}) \in Nat
    BY <2>5, HoldersCounted
  <2>7. QED BY <2>4, <2>6
<1>10. /\ work' = [d \in Calls |-> work'[d]] /\ work'[c] = [w[c] EXCEPT !.slot = "none"]
       /\ \A d \in Calls \ {c} : work'[d] = IF promote /\ d = Head(rest)
                                  THEN [w[d] EXCEPT !.slot = "held", !.at = "ready"] ELSE w[d]
  BY <1>6
<1>11. promote => Head(rest) \in Queued \ {c}
  <2>1. promote => Head(rest) \in ToSet(rest)
    BY <1>5, <1>7, QueueTail
  <2>2. QED BY <1>7, <2>1
<1>12. \A d \in Calls \ {c} : work'[d] = w[d] \/ Promoted(d, w[d])
  BY <1>10, <1>11 DEF Promoted, Queued
<1>13. \A d \in Calls : work'[d].slot = IF d = c THEN "none"
                                        ELSE IF promote /\ d = Head(rest) THEN "held" ELSE work[d].slot
  <2>1. TAKE d \in Calls
  <2>2. PICK x : x = w[d]
    OBVIOUS
  <2>3. IsWork(x) /\ x.slot = work[d].slot
    BY <2>2
  <2>4. CASE d = c
    BY <1>10, <2>2, <2>3, <2>4 DEF IsWork
  <2>5. CASE d # c /\ promote /\ d = Head(rest)
    <3>1. work'[d] = [x EXCEPT !.slot = "held", !.at = "ready"]
      BY <1>10, <2>2, <2>5
    <3>2. QED BY <2>3, <2>5, <3>1 DEF IsWork
  <2>6. CASE d # c /\ ~(promote /\ d = Head(rest))
    <3>1. work'[d] = x
      BY <1>10, <2>2, <2>6
    <3>2. QED BY <2>3, <2>6, <3>1
  <2>7. QED BY <2>4, <2>5, <2>6
<1>0. Queued # {} => lane.eligible # <<>>
  <2>1. IsFiniteSet(Queued)
    BY <1>2, HoldersCounted
  <2>2. Cardinality(Queued) = 0 <=> Queued = {}
    BY <2>1, FS_EmptySet
  <2>3. lane.eligible = <<>> => Len(lane.eligible) = 0
    OBVIOUS
  <2>4. QED BY <1>1, <2>2, <2>3
<1>14. CASE promote
  <2>1. PICK e, r : e = Head(rest) /\ r = Tail(rest)
    OBVIOUS
  <2>2. /\ rest # <<>> /\ active < LaneSlots /\ lane'.active = active + 1 /\ lane'.eligible = r
        /\ lane' = [active |-> lane'.active, eligible |-> lane'.eligible]
    BY <1>5, <1>6, <1>14, <2>1
  <2>3. /\ r \in Seq(Calls) /\ Len(r) = Len(rest) - 1 /\ IsInjective(r)
        /\ ToSet(r) = ToSet(rest) \ {e} /\ e \in ToSet(rest)
    BY <1>7, <2>1, <2>2, QueueTail
  <2>4. e \in Queued /\ e # c /\ e \in Calls /\ e \notin Held
    BY <1>7, <2>3 DEF Queued, Held
  <2>5. Queued' = (Queued \ {c}) \ {e} /\ Held' = (Held \ {c}) \cup {e}
    <3>1. \A d \in Calls : /\ work'[d].slot = "queued" <=> d # c /\ d # e /\ work[d].slot = "queued"
                           /\ work'[d].slot = "held" <=> d # c /\ (d = e \/ work[d].slot = "held")
      BY <1>13, <1>14, <2>1, <2>4
    <3>2. QED BY <2>4, <3>1 DEF Queued, Held
  <2>6. Cardinality(Held') = active + 1
    <3>1. PICK H : H = Held \ {c}
      OBVIOUS
    <3>2. H \in SUBSET Calls /\ e \notin H
      BY <1>2, <2>4, <3>1
    <3>3. Cardinality(H \cup {e}) = Cardinality(H) + 1
      BY <3>2, HoldersCounted
    <3>4. QED BY <1>9, <2>5, <3>1, <3>3
  <2>7. Cardinality(Queued') = Len(r)
    <3>1. PICK Q : Q = Queued \ {c}
      OBVIOUS
    <3>2. Q \in SUBSET Calls /\ e \in Q
      BY <1>2, <2>4, <3>1
    <3>3. Cardinality(Q \ {e}) = Cardinality(Q) - 1
      BY <3>2, HoldersCounted
    <3>4. QED BY <1>8, <2>3, <2>5, <3>1, <3>3
  <2>8. c \in Held
    <3>1. lane.eligible # <<>>
      BY <1>0, <2>4
    <3>2. lane.active = LaneSlots
      BY <1>1, <3>1
    <3>3. w[c].slot = "held"
      BY <1>2, <1>4, <2>2, <3>2
    <3>4. QED BY <3>3 DEF Held
  <2>9. active + 1 = LaneSlots
    <3>1. lane.active = LaneSlots
      BY <1>0, <1>1, <2>4
    <3>2. w[c].slot = "held"
      BY <2>8 DEF Held
    <3>3. QED BY <1>2, <1>4, <3>1, <3>2
  <2>10. LaneInv'
    <3>1. /\ lane'.active = Cardinality(Held') /\ lane'.active = LaneSlots
          /\ ToSet(lane'.eligible) = Queued' /\ Len(lane'.eligible) = Cardinality(Queued')
      BY <1>7, <2>2, <2>3, <2>5, <2>6, <2>7, <2>9
    <3>2. Len(lane'.eligible) <= LaneQueue
      BY <1>2, <1>8, <2>2, <2>3
    <3>3. lane'.active <= LaneSlots
      BY <1>2, <3>1
    <3>4. QED BY <2>2, <2>3, <3>1, <3>2, <3>3 DEF LaneInv
  <2>11. QED BY <1>10, <1>12, <2>2, <2>10
<1>15. CASE ~promote
  <2>1. /\ lane'.active = active /\ lane'.eligible = rest
        /\ lane' = [active |-> lane'.active, eligible |-> lane'.eligible]
    BY <1>6, <1>15
  <2>2. Queued' = Queued \ {c} /\ Held' = Held \ {c}
    <3>1. \A d \in Calls : /\ work'[d].slot = "queued" <=> d # c /\ work[d].slot = "queued"
                           /\ work'[d].slot = "held" <=> d # c /\ work[d].slot = "held"
      BY <1>13, <1>15
    <3>2. QED BY <3>1 DEF Queued, Held
  <2>3. active <= LaneSlots /\ (rest # <<>> => active = LaneSlots)
    BY <1>1, <1>2, <1>4, <1>5, <1>9, <1>15
  <2>4. LaneInv'
    BY <1>7, <1>8, <1>9, <2>1, <2>2, <2>3 DEF LaneInv
  <2>5. QED BY <1>10, <1>12, <2>1, <2>4
<1>16. QED BY <1>14, <1>15

---------------------------------------------------------------------------
(* One batch moves, the others stay.                                       *)

\* The books of one batch are rewritten, another may be given a slot.
Turns(c) ==
    /\ work' = [d \in Calls |-> work'[d]] /\ WorkOk(work'[c])
    /\ \A d \in Calls \ {c} : work'[d] = work[d] \/ Promoted(d, work[d])
    /\ trace' \in [Calls -> [Viewers -> Traces]] /\ report' \in [Calls -> [Viewers -> Traces]]
    /\ out' \in [Calls -> [Viewers -> {"none", "queued", "published", "dropped"}]]
    /\ \A d \in Calls \ {c} : trace'[d] = trace[d] /\ out'[d] = out[d] /\ report'[d] = report[d]

\* No call begins.
NoneBegins ==
    \A d \in Calls : call'[d].round = call[d].round /\ (Live(d)' => Live(d))

\* What happens to another batch is nothing to this one, or it is given a slot.
LEMMA OthersStay ==
  ASSUME WorkShaped, NEW d \in Batches, d \in Calls, StageInv(d), CallInv(d), AccountInv(d),
         work'[d] = work[d] \/ Promoted(d, work[d]),
         trace'[d] = trace[d], out'[d] = out[d], report'[d] = report[d],
         session' \in {session, "stopped"}, call'[d].round = call[d].round, Live(d)' => Live(d)
  PROVE  StageInv(d)' /\ CallInv(d)' /\ AccountInv(d)' /\ WorkOk(work'[d])
<1>0. WorkOk(work[d])
  BY DEF WorkShaped
<1>1. CASE work'[d] = work[d]
  <2>1. Open(d)' = Open(d)
    BY <1>1 DEF Open
  <2>2. StageInv(d)'
    BY <1>1 DEF StageInv
  <2>3. CallInv(d)'
    BY <1>1 DEF CallInv
  <2>4. AccountInv(d)'
    BY <1>1, <2>1 DEF AccountInv
  <2>5. QED BY <1>0, <1>1, <2>2, <2>3, <2>4
<1>2. CASE Promoted(d, work[d])
  <2>1. PICK x : x = work[d]
    OBVIOUS
  <2>2. /\ IsWork(x) /\ x.slot = "queued" /\ work'[d] = [x EXCEPT !.slot = "held", !.at = "ready"]
        /\ x.sent \in BOOLEAN /\ x.tries \in 0..2 /\ x.items \subseteq Viewers /\ x.claimed \subseteq x.items
    BY <1>0, <1>2, <2>1 DEF Promoted, WorkOk
  <2>3. /\ work'[d].at = "ready" /\ work'[d].slot = "held" /\ work'[d].reason = x.reason
        /\ work'[d].sent = x.sent /\ work'[d].tries = x.tries /\ work'[d].items = x.items
        /\ work'[d].claimed = x.claimed /\ IsWork(work'[d])
    BY <2>2 DEF IsWork
  <2>4. x.at = "waiting"
    BY <2>1, <2>2 DEF StageInv
  <2>5. x.tries = 0 /\ x.items = {} /\ \A v \in Viewers : out[d][v] = "none"
    BY <2>1, <2>4 DEF StageInv, AccountInv, Early
  <2>6. StageInv(d)'
    BY <2>1, <2>3, <2>4, <2>5 DEF StageInv, Early, Holding
  <2>7. CallInv(d)'
    <3>1. ~Live(d)
      BY <2>1, <2>4 DEF CallInv
    <3>2. QED BY <2>1, <2>3, <3>1 DEF CallInv
  <2>8. AccountInv(d)'
    BY <2>1, <2>3, <2>4, <2>5 DEF AccountInv, Early, Asked
  <2>9. WorkOk(work'[d])
    BY <2>2, <2>3 DEF WorkOk, Early, Holding
  <2>10. QED BY <2>6, <2>7, <2>8, <2>9
<1>3. QED BY <1>1, <1>2

\* A step of one batch keeps the books of all when it keeps its own.
LEMMA TurnKeeps ==
  ASSUME CallsShaped, WorkShaped, BatchesInv, NEW c \in Batches, Turns(c), UNCHANGED scenario,
         lane' = [active |-> lane'.active, eligible |-> lane'.eligible],
         session' \in {session, "stopped"}, fence' \in Calls \cup {0}, pace' \in 0..RequestPace,
         \A d \in Calls \ {c} : call'[d].round = call[d].round /\ (Live(d)' => Live(d)),
         StageInv(c)', CallInv(c)', AccountInv(c)'
  PROVE  WorkShaped' /\ BatchesInv'
<1>1. Batches \subseteq Calls /\ Batches' = Batches
  BY KnownAreCalls DEF Batches, Known, Kind
<1>2. /\ work' = [d \in Calls |-> work'[d]] /\ WorkOk(work'[c])
      /\ \A d \in Calls \ {c} : work'[d] = work[d] \/ Promoted(d, work[d])
      /\ trace' \in [Calls -> [Viewers -> Traces]] /\ report' \in [Calls -> [Viewers -> Traces]]
      /\ out' \in [Calls -> [Viewers -> {"none", "queued", "published", "dropped"}]]
      /\ \A d \in Calls \ {c} : trace'[d] = trace[d] /\ out'[d] = out[d] /\ report'[d] = report[d]
  BY DEF Turns
<1>3. ASSUME NEW d \in Batches PROVE StageInv(d)' /\ CallInv(d)' /\ AccountInv(d)' /\ WorkOk(work'[d])
  <2>1. CASE d = c
    BY <1>2, <2>1
  <2>2. CASE d # c
    <3>1. d \in Calls /\ StageInv(d) /\ CallInv(d) /\ AccountInv(d)
      BY <1>1 DEF BatchesInv
    <3>2. /\ work'[d] = work[d] \/ Promoted(d, work[d])
          /\ trace'[d] = trace[d] /\ out'[d] = out[d] /\ report'[d] = report[d]
          /\ call'[d].round = call[d].round /\ (Live(d)' => Live(d))
      BY <1>2, <2>2, <3>1
    <3>3. QED BY <3>1, <3>2, OthersStay
  <2>3. QED BY <2>1, <2>2
<1>4. ASSUME NEW d \in Calls, d \notin Batches PROVE work'[d] = NewWork /\ WorkOk(work'[d])
  <2>1. work[d] = NewWork /\ WorkOk(work[d]) /\ d # c
    BY <1>4 DEF WorkShaped
  <2>2. NewWork.slot # "queued"
    BY DEF NewWork
  <2>3. work'[d] = work[d]
    BY <1>2, <2>1, <2>2 DEF Promoted
  <2>4. QED BY <2>1, <2>3
<1>5. session' \in {"live", "stopped"}
  BY DEF WorkShaped
<1>6. WorkShaped'
  <2>1. \A d \in Calls : WorkOk(work'[d])
    BY <1>3, <1>4
  <2>2. QED BY <1>1, <1>2, <1>4, <1>5, <2>1 DEF WorkShaped
<1>7. QED BY <1>1, <1>3, <1>6 DEF BatchesInv

\* Traces are given to those who have none.
LEMMA TracedFacts ==
  ASSUME WorkShaped, NEW c \in Calls, NEW S, NEW what \in Traces, trace' = Traced(c, S, what)
  PROVE  /\ trace' \in [Calls -> [Viewers -> Traces]]
         /\ \A d \in Calls \ {c} : trace'[d] = trace[d]
         /\ \A v \in Viewers : trace'[c][v] = IF v \in S /\ trace[c][v] = NoTrace THEN what ELSE trace[c][v]
<1>1. trace \in [Calls -> [Viewers -> Traces]]
  BY DEF WorkShaped
<1>2. PICK row : row = [v \in Viewers |-> IF v \in S /\ trace[c][v] = NoTrace THEN what ELSE trace[c][v]]
  OBVIOUS
<1>3. trace' = [trace EXCEPT ![c] = row]
  BY <1>1, <1>2 DEF Traced
<1>4. row \in [Viewers -> Traces]
  BY <1>1, <1>2
<1>5. /\ trace' \in [Calls -> [Viewers -> Traces]]
      /\ \A d \in Calls \ {c} : trace'[d] = trace[d]
      /\ trace'[c] = row
  BY <1>1, <1>3, <1>4
<1>6. QED BY <1>2, <1>5

\* What a summary says.
LEMMA SummaryFacts ==
  ASSUME WorkShaped, trace' \in [Calls -> [Viewers -> Traces]], NEW c \in Calls, NEW decided, NEW items,
         report' = [report EXCEPT ![c] = Summary(c, decided, items)]
  PROVE  /\ report' \in [Calls -> [Viewers -> Traces]]
         /\ \A d \in Calls \ {c} : report'[d] = report[d]
         /\ \A v \in Viewers : v \in items => report'[c][v] \in {"none", trace'[c][v]}
<1>1. report \in [Calls -> [Viewers -> Traces]]
  BY DEF WorkShaped
<1>2. PICK row : row = Summary(c, decided, items)
  OBVIOUS
<1>3. row \in [Viewers -> Traces] /\ \A v \in Viewers : v \in items => row[v] \in {"none", trace'[c][v]}
  BY <1>2 DEF Summary, Traces
<1>4. /\ report' \in [Calls -> [Viewers -> Traces]]
      /\ \A d \in Calls \ {c} : report'[d] = report[d] /\ report'[c] = row
  BY <1>1, <1>2, <1>3
<1>5. report'[c] = row
  BY <1>1, <1>2
<1>6. QED BY <1>3, <1>4, <1>5

---------------------------------------------------------------------------
(* A batch ends.                                                           *)

\* The batch's own books change and its place in the lane does not.
LEMMA StepFacts ==
  ASSUME WorkShaped, LaneInv, NEW c \in Calls, NEW f, WorkOk(f), f.slot = work[c].slot,
         Step(c, f), UNCHANGED lane,
         trace' \in [Calls -> [Viewers -> Traces]], \A d \in Calls \ {c} : trace'[d] = trace[d],
         report' \in [Calls -> [Viewers -> Traces]], \A d \in Calls \ {c} : report'[d] = report[d],
         out' \in [Calls -> [Viewers -> {"none", "queued", "published", "dropped"}]],
         \A d \in Calls \ {c} : out'[d] = out[d]
  PROVE  /\ Turns(c) /\ LaneInv' /\ work'[c] = f
         /\ lane' = [active |-> lane'.active, eligible |-> lane'.eligible]
<1>1. /\ work = [d \in Calls |-> work[d]]
      /\ lane = [active |-> lane.active, eligible |-> lane.eligible]
  BY DEF WorkShaped
<1>2. /\ work' = [d \in Calls |-> work'[d]] /\ work'[c] = f
      /\ \A d \in Calls \ {c} : work'[d] = work[d]
  <2>1. work' = [work EXCEPT ![c] = f]
    BY DEF Step
  <2>2. QED BY <1>1, <2>1
<1>3. \A d \in Calls : work'[d].slot = work[d].slot
  BY <1>2
<1>4. LaneInv'
  BY <1>3, LaneStays
<1>5. Turns(c)
  BY <1>1, <1>2 DEF Turns
<1>6. QED BY <1>1, <1>2, <1>4, <1>5

\* The batch gives back what it has of the lane.
LEMMA GiveBackTurns ==
  ASSUME WorkShaped, LaneInv, NEW c \in Calls, NEW f, WorkOk(f), f.slot = work[c].slot,
         NEW w, w = [work EXCEPT ![c] = f], GiveBack(c, w),
         trace' \in [Calls -> [Viewers -> Traces]], \A d \in Calls \ {c} : trace'[d] = trace[d],
         report' \in [Calls -> [Viewers -> Traces]], \A d \in Calls \ {c} : report'[d] = report[d],
         UNCHANGED out
  PROVE  /\ Turns(c) /\ LaneInv'
         /\ lane' = [active |-> lane'.active, eligible |-> lane'.eligible]
         /\ work'[c] = [f EXCEPT !.slot = "none"]
<1>1. /\ work = [d \in Calls |-> work[d]] /\ \A d \in Calls : WorkOk(work[d])
      /\ out \in [Calls -> [Viewers -> {"none", "queued", "published", "dropped"}]]
  BY DEF WorkShaped
<1>2. w[c] = f /\ \A d \in Calls \ {c} : w[d] = work[d]
  BY <1>1
<1>3. \A d \in Calls : IsWork(w[d]) /\ w[d].slot = work[d].slot /\ w[d].slot \in {"none", "queued", "held"}
  <2>1. TAKE d \in Calls
  <2>2. CASE d = c
    BY <1>2, <2>2 DEF WorkOk
  <2>3. CASE d # c
    <3>1. w[d] = work[d] /\ WorkOk(work[d])
      BY <1>1, <1>2, <2>3
    <3>2. QED BY <3>1 DEF WorkOk
  <2>4. QED BY <2>2, <2>3
<1>4. /\ LaneInv' /\ lane' = [active |-> lane'.active, eligible |-> lane'.eligible]
      /\ work' = [d \in Calls |-> work'[d]]
      /\ work'[c] = [w[c] EXCEPT !.slot = "none"]
      /\ \A d \in Calls \ {c} : work'[d] = w[d] \/ Promoted(d, w[d])
  BY <1>3, GiveBackFacts
<1>5. work'[c] = [f EXCEPT !.slot = "none"]
  BY <1>2, <1>4
<1>6. WorkOk(work'[c])
  <2>1. PICK x : x = [f EXCEPT !.slot = "none"]
    OBVIOUS
  <2>2. IsWork(x) /\ x.at = f.at /\ x.slot = "none" /\ x.sent = f.sent /\ x.tries = f.tries
        /\ x.items = f.items /\ x.claimed = f.claimed
    BY <2>1 DEF WorkOk, IsWork
  <2>3. WorkOk(x)
    BY <2>2 DEF WorkOk
  <2>4. QED BY <1>5, <2>1, <2>3
<1>7. \A d \in Calls \ {c} : work'[d] = work[d] \/ Promoted(d, work[d])
  BY <1>2, <1>4
<1>8. QED BY <1>1, <1>4, <1>5, <1>6, <1>7 DEF Turns

\* A dispatch that ends without its answer leaves no request without a trace.
LEMMA InterruptKeeps ==
  ASSUME CallsShaped, WorkShaped, LaneInv, BatchesInv, NEW c \in Batches, NEW why,
         InterruptBatch(c, why), work[c].at # "returned",
         why = "scheduler" \/ \A v \in Viewers : out[c][v] # "queued",
         UNCHANGED <<scenario, session, fence, pace, out>>, NoneBegins
  PROVE  WorkShaped' /\ LaneInv' /\ BatchesInv'
<1>1. /\ c \in Calls /\ StageInv(c) /\ CallInv(c) /\ AccountInv(c) /\ WorkOk(work[c])
      /\ Chosen \subseteq Viewers
  BY KnownAreCalls, ChosenAssumption DEF BatchesInv, WorkShaped, CallsShaped, Chosen
<1>2. PICK items \in Ensured(c) :
        /\ trace' = Traced(c, items, "cancelled")
        /\ report' = [report EXCEPT ![c] = Summary(c, {v \in items : trace[c][v] = NoTrace}, items)]
        /\ GiveBack(c, [work EXCEPT ![c].at = "returned", ![c].reason = Because(c, why),
                                    ![c].items = items])
  BY DEF InterruptBatch
<1>3. PICK x, r, f : /\ x = work[c] /\ r = Because(c, why)
                     /\ f = [x EXCEPT !.at = "returned", !.reason = r, !.items = items]
  OBVIOUS
<1>4. PICK w : w = [work EXCEPT ![c] = f]
  OBVIOUS
<1>5. GiveBack(c, w)
  <2>1. work = [d \in Calls |-> work[d]]
    BY DEF WorkShaped
  <2>2. w = [work EXCEPT ![c].at = "returned", ![c].reason = r, ![c].items = items]
    BY <1>1, <1>3, <1>4, <2>1
  <2>3. QED BY <1>2, <1>3, <2>2
<1>6. items \subseteq Viewers /\ x.claimed \subseteq items /\ (x.items # {} => items = x.items)
  BY <1>1, <1>2, <1>3 DEF Ensured, WorkOk
<1>7. /\ IsWork(f) /\ f.at = "returned" /\ f.reason = r /\ f.items = items /\ f.slot = x.slot
      /\ f.sent = x.sent /\ f.tries = x.tries /\ f.claimed = x.claimed
  BY <1>1, <1>3 DEF WorkOk, IsWork
<1>8. WorkOk(f)
  BY <1>1, <1>3, <1>6, <1>7 DEF WorkOk
<1>9. /\ trace' \in [Calls -> [Viewers -> Traces]]
      /\ \A d \in Calls \ {c} : trace'[d] = trace[d]
      /\ \A v \in Viewers : trace'[c][v] = IF v \in items /\ trace[c][v] = NoTrace THEN "cancelled" ELSE trace[c][v]
  <2>1. PICK S, what : S = items /\ what = "cancelled"
    OBVIOUS
  <2>2. what \in Traces /\ trace' = Traced(c, S, what)
    BY <1>2, <2>1 DEF Traces
  <2>3. /\ trace' \in [Calls -> [Viewers -> Traces]]
        /\ \A d \in Calls \ {c} : trace'[d] = trace[d]
        /\ \A v \in Viewers : trace'[c][v] = IF v \in S /\ trace[c][v] = NoTrace THEN what ELSE trace[c][v]
    BY <1>1, <2>2, TracedFacts
  <2>4. QED BY <2>1, <2>3
<1>10. /\ report' \in [Calls -> [Viewers -> Traces]]
       /\ \A d \in Calls \ {c} : report'[d] = report[d]
       /\ \A v \in Viewers : v \in items => report'[c][v] \in {"none", trace'[c][v]}
  <2>1. PICK S, I : S = {v \in items : trace[c][v] = NoTrace} /\ I = items
    OBVIOUS
  <2>2. report' = [report EXCEPT ![c] = Summary(c, S, I)]
    BY <1>2, <2>1
  <2>3. /\ report' \in [Calls -> [Viewers -> Traces]]
        /\ \A d \in Calls \ {c} : report'[d] = report[d]
        /\ \A v \in Viewers : v \in I => report'[c][v] \in {"none", trace'[c][v]}
    BY <1>1, <1>9, <2>2, SummaryFacts
  <2>4. QED BY <2>1, <2>3
<1>11. /\ Turns(c) /\ LaneInv'
       /\ lane' = [active |-> lane'.active, eligible |-> lane'.eligible]
       /\ work'[c] = [f EXCEPT !.slot = "none"]
  <2>1. f.slot = work[c].slot
    BY <1>3, <1>7
  <2>2. QED BY <1>1, <1>4, <1>5, <1>8, <1>9, <1>10, <2>1, GiveBackTurns
<1>12. /\ work'[c].at = "returned" /\ work'[c].slot = "none" /\ work'[c].reason = r
       /\ work'[c].items = items /\ work'[c].claimed = x.claimed
       /\ work'[c].sent = x.sent /\ work'[c].tries = x.tries
  BY <1>7, <1>11 DEF IsWork
<1>13. StageInv(c)'
  BY <1>1, <1>3, <1>12 DEF StageInv, Early
<1>14. CallInv(c)'
  BY <1>1, <1>3, <1>12 DEF CallInv, NoneBegins
<1>15. AccountInv(c)'
  <2>1. /\ \A v \in items : trace'[c][v] # NoTrace
        /\ \A v \in items : report'[c][v] \in {"none", trace'[c][v]}
    BY <1>6, <1>9, <1>10 DEF NoTrace
  <2>2. ASSUME NEW v \in Viewers
        PROVE  /\ out[c][v] \in {"published", "dropped"} => trace'[c][v] # NoTrace
               /\ out[c][v] = "queued" /\ trace'[c][v] # NoTrace => r = "scheduler" \/ session = "stopped"
               /\ trace'[c][v] = "published" => out[c][v] = "published"
               /\ out[c][v] = "published" /\ r # "scheduler" /\ session = "live" => trace'[c][v] = "published"
    <3>1. /\ out[c][v] \in {"published", "dropped"} => trace[c][v] # NoTrace
          /\ trace[c][v] = "published" => out[c][v] = "published"
          /\ out[c][v] = "published" /\ x.reason # "scheduler" /\ session = "live" => trace[c][v] = "published"
      BY <1>1, <1>3 DEF AccountInv
    <3>2. trace'[c][v] = IF v \in items /\ trace[c][v] = NoTrace THEN "cancelled" ELSE trace[c][v]
      BY <1>9
    <3>3. r = IF x.reason = "none" THEN why ELSE x.reason
      BY <1>3 DEF Because
    <3>4. session = "stopped" \/ x.reason = "none"
      BY <1>1, <1>3 DEF StageInv, WorkShaped
    <3>5. QED BY <3>1, <3>2, <3>3, <3>4
  <2>3. out' = out /\ session' = session
    OBVIOUS
  <2>4. QED BY <1>12, <2>1, <2>2, <2>3 DEF AccountInv, Early, Asked
<1>16. session' \in {session, "stopped"} /\ fence' \in Calls \cup {0} /\ pace' \in 0..RequestPace
       /\ scenario' = scenario
       /\ \A d \in Calls \ {c} : call'[d].round = call[d].round /\ (Live(d)' => Live(d))
  BY DEF WorkShaped, NoneBegins
<1>17. WorkShaped' /\ BatchesInv'
  BY <1>11, <1>13, <1>14, <1>15, <1>16, TurnKeeps
<1>18. QED BY <1>11, <1>17

\* A dispatch that ends with what its requests came to leaves none without a trace.
LEMMA ConcludeKeeps ==
  ASSUME CallsShaped, WorkShaped, LaneInv, BatchesInv, NEW c \in Batches,
         NEW what \in Traces \ {"published"}, Conclude(c, what), work[c].at # "returned",
         \A v \in Viewers : out[c][v] # "queued",
         \A v \in work[c].items \ work[c].claimed : trace[c][v] # NoTrace,
         what = NoTrace => \A v \in work[c].claimed : trace[c][v] # NoTrace,
         UNCHANGED <<scenario, session, fence, pace, out>>, NoneBegins
  PROVE  WorkShaped' /\ LaneInv' /\ BatchesInv'
<1>1. /\ c \in Calls /\ StageInv(c) /\ CallInv(c) /\ AccountInv(c) /\ WorkOk(work[c])
  BY KnownAreCalls DEF BatchesInv, WorkShaped
<1>2. /\ trace' = Traced(c, work[c].claimed, what)
      /\ report' = [report EXCEPT ![c] = Summary(c, work[c].claimed, work[c].items)]
      /\ GiveBack(c, [work EXCEPT ![c].at = "returned"])
  BY DEF Conclude
<1>3. PICK x, f : /\ x = work[c] /\ f = [x EXCEPT !.at = "returned"]
  OBVIOUS
<1>4. PICK w : w = [work EXCEPT ![c] = f]
  OBVIOUS
<1>5. GiveBack(c, w)
  <2>1. work = [d \in Calls |-> work[d]]
    BY DEF WorkShaped
  <2>2. w = [work EXCEPT ![c].at = "returned"]
    BY <1>1, <1>3, <1>4, <2>1
  <2>3. QED BY <1>2, <2>2
<1>6. x.items \subseteq Viewers /\ x.claimed \subseteq x.items
  BY <1>1, <1>3 DEF WorkOk
<1>7. /\ IsWork(f) /\ f.at = "returned" /\ f.reason = x.reason /\ f.items = x.items /\ f.slot = x.slot
      /\ f.sent = x.sent /\ f.tries = x.tries /\ f.claimed = x.claimed
  BY <1>1, <1>3 DEF WorkOk, IsWork
<1>8. WorkOk(f)
  BY <1>1, <1>3, <1>7 DEF WorkOk
<1>9. /\ trace' \in [Calls -> [Viewers -> Traces]]
      /\ \A d \in Calls \ {c} : trace'[d] = trace[d]
      /\ \A v \in Viewers : trace'[c][v] = IF v \in x.claimed /\ trace[c][v] = NoTrace THEN what ELSE trace[c][v]
  <2>1. PICK S : S = x.claimed
    OBVIOUS
  <2>2. trace' = Traced(c, S, what)
    BY <1>2, <1>3, <2>1
  <2>3. /\ trace' \in [Calls -> [Viewers -> Traces]]
        /\ \A d \in Calls \ {c} : trace'[d] = trace[d]
        /\ \A v \in Viewers : trace'[c][v] = IF v \in S /\ trace[c][v] = NoTrace THEN what ELSE trace[c][v]
    BY <1>1, <2>2, TracedFacts
  <2>4. QED BY <2>1, <2>3
<1>10. /\ report' \in [Calls -> [Viewers -> Traces]]
       /\ \A d \in Calls \ {c} : report'[d] = report[d]
       /\ \A v \in Viewers : v \in x.items => report'[c][v] \in {"none", trace'[c][v]}
  <2>1. PICK S, I : S = x.claimed /\ I = x.items
    OBVIOUS
  <2>2. report' = [report EXCEPT ![c] = Summary(c, S, I)]
    BY <1>2, <1>3, <2>1
  <2>3. /\ report' \in [Calls -> [Viewers -> Traces]]
        /\ \A d \in Calls \ {c} : report'[d] = report[d]
        /\ \A v \in Viewers : v \in I => report'[c][v] \in {"none", trace'[c][v]}
    BY <1>1, <1>9, <2>2, SummaryFacts
  <2>4. QED BY <2>1, <2>3
<1>11. /\ Turns(c) /\ LaneInv'
       /\ lane' = [active |-> lane'.active, eligible |-> lane'.eligible]
       /\ work'[c] = [f EXCEPT !.slot = "none"]
  <2>1. f.slot = work[c].slot
    BY <1>3, <1>7
  <2>2. QED BY <1>1, <1>4, <1>5, <1>8, <1>9, <1>10, <2>1, GiveBackTurns
<1>12. /\ work'[c].at = "returned" /\ work'[c].slot = "none" /\ work'[c].reason = x.reason
       /\ work'[c].items = x.items /\ work'[c].claimed = x.claimed
       /\ work'[c].sent = x.sent /\ work'[c].tries = x.tries
  BY <1>7, <1>11 DEF IsWork
<1>13. StageInv(c)'
  BY <1>1, <1>3, <1>12 DEF StageInv, Early
<1>14. CallInv(c)'
  BY <1>1, <1>3, <1>12 DEF CallInv, NoneBegins
<1>15. AccountInv(c)'
  <2>1. /\ \A v \in x.items : trace'[c][v] # NoTrace
        /\ \A v \in x.items : report'[c][v] \in {"none", trace'[c][v]}
    BY <1>3, <1>6, <1>9, <1>10
  <2>2. ASSUME NEW v \in Viewers
        PROVE  /\ out[c][v] \in {"published", "dropped"} => trace'[c][v] # NoTrace
               /\ trace'[c][v] = "published" => out[c][v] = "published"
               /\ out[c][v] = "published" /\ x.reason # "scheduler" /\ session = "live" => trace'[c][v] = "published"
    <3>1. /\ out[c][v] \in {"published", "dropped"} => trace[c][v] # NoTrace
          /\ trace[c][v] = "published" => out[c][v] = "published"
          /\ out[c][v] = "published" /\ x.reason # "scheduler" /\ session = "live" => trace[c][v] = "published"
      BY <1>1, <1>3 DEF AccountInv
    <3>2. trace'[c][v] = IF v \in x.claimed /\ trace[c][v] = NoTrace THEN what ELSE trace[c][v]
      BY <1>9
    <3>3. QED BY <3>1, <3>2
  <2>3. out' = out /\ session' = session
    OBVIOUS
  <2>4. QED BY <1>12, <2>1, <2>2, <2>3 DEF AccountInv, Early, Asked
<1>16. session' \in {session, "stopped"} /\ fence' \in Calls \cup {0} /\ pace' \in 0..RequestPace
       /\ scenario' = scenario
       /\ \A d \in Calls \ {c} : call'[d].round = call[d].round /\ (Live(d)' => Live(d))
  BY DEF WorkShaped, NoneBegins
<1>17. WorkShaped' /\ BatchesInv'
  BY <1>11, <1>13, <1>14, <1>15, <1>16, TurnKeeps
<1>18. QED BY <1>11, <1>17

---------------------------------------------------------------------------
(* Steps that leave the calls alone.                                       *)

\* The smaller of two numbers comes first: the order whose least elements Min picks.
Less == {p \in Nat \X Nat : p[1] < p[2]}

\* A set of numbers that is not empty has a least one.
LEMMA MinExists ==
  ASSUME NEW S \in SUBSET Nat, S # {}
  PROVE  Min(S) \in S
<1>1. IsWellFoundedOn(Less, Nat)
  BY NatLessThanWellFounded DEF OpToRel, Less
<1>2. PICK m \in S : \A n \in S : ~(<<n, m>> \in Less)
  BY <1>1, WFMin
<1>3. ASSUME NEW n \in S PROVE m <= n
  <2>1. n \in Nat /\ m \in Nat
    OBVIOUS
  <2>2. n < m => <<n, m>> \in Less
    BY <2>1 DEF Less
  <2>3. QED BY <1>2, <2>1, <2>2
<1>4. QED BY <1>3 DEF Min

\* What leaves the calls alone leaves their books alone.
LEMMA CallsCalm ==
  ASSUME DispatchInv, UNCHANGED calm
  PROVE  /\ CallsInv' /\ NoneBegins /\ UNCHANGED scenario
         /\ CallsShaped /\ WorkShaped /\ LaneInv /\ BatchesInv
<1>1. UNCHANGED <<scenario, gate, call, budget, http, late, up>>
  BY DEF calm, callVars
<1>2. CallsInv /\ CallsShaped /\ WorkShaped /\ LaneInv /\ BatchesInv
  BY DEF DispatchInv, CallsInv
<1>3. Fits(gate', AtLine, AtServer) /\ up' \in BOOLEAN
  BY <1>1, <1>2 DEF CallsInv, CallsShaped
<1>4. CallsInv'
  BY <1>1, <1>2, <1>3, CalmKeeps
<1>5. NoneBegins
  BY <1>1 DEF NoneBegins, Live
<1>6. QED BY <1>1, <1>2, <1>4, <1>5

\* A batch that is interrupted, concluded, or takes its next stage.
LEMMA InterruptCalm ==
  ASSUME DispatchInv, NEW c \in Batches, NEW why, InterruptBatch(c, why), work[c].at # "returned",
         why = "scheduler" \/ \A v \in Viewers : out[c][v] # "queued",
         UNCHANGED <<session, fence, pace, out, calm>>
  PROVE  DispatchInv'
<1>1. /\ CallsInv' /\ NoneBegins /\ UNCHANGED scenario
      /\ CallsShaped /\ WorkShaped /\ LaneInv /\ BatchesInv
  BY CallsCalm
<1>2. WorkShaped' /\ LaneInv' /\ BatchesInv'
  BY <1>1, InterruptKeeps
<1>3. QED BY <1>1, <1>2 DEF DispatchInv

\* The same when it ends with what its requests came to,
LEMMA ConcludeCalm ==
  ASSUME DispatchInv, NEW c \in Batches,
         NEW what \in Traces \ {"published"}, Conclude(c, what), work[c].at # "returned",
         \A v \in Viewers : out[c][v] # "queued",
         \A v \in work[c].items \ work[c].claimed : trace[c][v] # NoTrace,
         what = NoTrace => \A v \in work[c].claimed : trace[c][v] # NoTrace,
         UNCHANGED <<session, fence, pace, out, calm>>
  PROVE  DispatchInv'
<1>1. /\ CallsInv' /\ NoneBegins /\ UNCHANGED scenario
      /\ CallsShaped /\ WorkShaped /\ LaneInv /\ BatchesInv
  BY CallsCalm
<1>2. WorkShaped' /\ LaneInv' /\ BatchesInv'
  BY <1>1, ConcludeKeeps
<1>3. QED BY <1>1, <1>2 DEF DispatchInv

\* A batch keeps its slot and goes on to its next stage.
LEMMA AdvanceKeeps ==
  ASSUME CallsShaped, WorkShaped, LaneInv, BatchesInv, NEW c \in Batches, NEW a,
         Step(c, [work[c] EXCEPT !.at = a]), UNCHANGED <<lane, report, trace, out>>,
         UNCHANGED <<scenario, session, fence, pace>>, NoneBegins,
         work[c].at \in Holding \cup {"delivery"}, ~Live(c), a \in {"turn", "backoff", "accept", "silence", "returned"},
         a \in {"turn", "backoff"} =>
           work[c].tries <= 1 /\ \A v \in Viewers : out[c][v] = "none",
         a \in {"accept", "silence"} => work[c].tries >= 1,
         a = "silence" => Open(c) # {},
         a = "returned" =>
           work[c].slot = "none" /\ \A v \in work[c].claimed : trace[c][v] # NoTrace \/ out[c][v] = "queued",
         \A v \in work[c].items \ work[c].claimed : trace[c][v] # NoTrace
  PROVE  WorkShaped' /\ LaneInv' /\ BatchesInv'
<1>1. /\ c \in Calls /\ StageInv(c) /\ CallInv(c) /\ AccountInv(c) /\ WorkOk(work[c])
  BY KnownAreCalls DEF BatchesInv, WorkShaped
<1>2. PICK x, f : /\ x = work[c] /\ f = [x EXCEPT !.at = a]
  OBVIOUS
<1>3. /\ IsWork(f) /\ f.at = a /\ f.reason = x.reason /\ f.items = x.items /\ f.slot = x.slot
      /\ f.sent = x.sent /\ f.tries = x.tries /\ f.claimed = x.claimed
  BY <1>1, <1>2 DEF WorkOk, IsWork
<1>4. WorkOk(f)
  BY <1>1, <1>2, <1>3 DEF WorkOk, Holding
<1>5. /\ trace' \in [Calls -> [Viewers -> Traces]] /\ \A d \in Calls \ {c} : trace'[d] = trace[d]
      /\ out' \in [Calls -> [Viewers -> {"none", "queued", "published", "dropped"}]]
      /\ \A d \in Calls \ {c} : out'[d] = out[d]
      /\ report' \in [Calls -> [Viewers -> Traces]] /\ \A d \in Calls \ {c} : report'[d] = report[d]
  BY DEF WorkShaped
<1>6. /\ Turns(c) /\ LaneInv' /\ work'[c] = f
      /\ lane' = [active |-> lane'.active, eligible |-> lane'.eligible]
  <2>1. Step(c, f) /\ f.slot = work[c].slot
    BY <1>2, <1>3
  <2>2. QED BY <1>1, <1>4, <1>5, <2>1, StepFacts
<1>7. /\ work'[c].at = a /\ work'[c].reason = x.reason /\ work'[c].items = x.items
      /\ work'[c].slot = x.slot /\ work'[c].sent = x.sent /\ work'[c].tries = x.tries
      /\ work'[c].claimed = x.claimed
  BY <1>3, <1>6
<1>8. StageInv(c)'
  <2>1. x.slot # "queued"
    BY <1>1, <1>2 DEF StageInv, Holding
  <2>2. QED BY <1>1, <1>2, <1>7, <2>1 DEF StageInv, Early, Holding
<1>9. CallInv(c)'
  BY <1>1, <1>2, <1>7 DEF CallInv, NoneBegins
<1>10. AccountInv(c)'
  <2>1. Open(c)' = Open(c)
    BY <1>2, <1>7 DEF Open
  <2>2. \A v \in Viewers : report[c][v] = "none"
    BY <1>1 DEF AccountInv, Holding
  <2>3. x.at # "returned" /\ x.claimed \subseteq x.items
    BY <1>1, <1>2 DEF Holding, WorkOk
  <2>4. a \in {"returned"} => \A v \in x.items : trace[c][v] # NoTrace \/ out[c][v] = "queued"
    BY <1>2
  <2>5. QED BY <1>1, <1>2, <1>7, <2>1, <2>2, <2>3, <2>4 DEF AccountInv, Early, Asked
<1>11. session' \in {session, "stopped"} /\ fence' \in Calls \cup {0} /\ pace' \in 0..RequestPace
       /\ scenario' = scenario
       /\ \A d \in Calls \ {c} : call'[d].round = call[d].round /\ (Live(d)' => Live(d))
  BY DEF WorkShaped, NoneBegins
<1>12. WorkShaped' /\ BatchesInv'
  BY <1>6, <1>8, <1>9, <1>10, <1>11, TurnKeeps
<1>13. QED BY <1>6, <1>12

\* and when it goes on.
LEMMA AdvanceCalm ==
  ASSUME DispatchInv, NEW c \in Batches, NEW a,
         Step(c, [work[c] EXCEPT !.at = a]), UNCHANGED <<lane, report, trace, out>>,
         UNCHANGED <<session, fence, pace, calm>>,
         work[c].at \in Holding \cup {"delivery"}, ~Live(c), a \in {"turn", "backoff", "accept", "silence", "returned"},
         a \in {"turn", "backoff"} =>
           work[c].tries <= 1 /\ \A v \in Viewers : out[c][v] = "none",
         a \in {"accept", "silence"} => work[c].tries >= 1,
         a = "silence" => Open(c) # {},
         a = "returned" =>
           work[c].slot = "none" /\ \A v \in work[c].claimed : trace[c][v] # NoTrace \/ out[c][v] = "queued",
         \A v \in work[c].items \ work[c].claimed : trace[c][v] # NoTrace
  PROVE  DispatchInv'
<1>1. /\ CallsInv' /\ NoneBegins /\ UNCHANGED scenario
      /\ CallsShaped /\ WorkShaped /\ LaneInv /\ BatchesInv
  BY CallsCalm
<1>2. WorkShaped' /\ LaneInv' /\ BatchesInv'
  BY <1>1, AdvanceKeeps
<1>3. QED BY <1>1, <1>2 DEF DispatchInv

---------------------------------------------------------------------------
(* A batch is dispatched and admitted.                                     *)

\* What is known of a batch before its step.
LEMMA BatchFacts ==
  ASSUME DispatchInv, NEW c \in Batches
  PROVE  /\ c \in Calls /\ StageInv(c) /\ CallInv(c) /\ AccountInv(c) /\ WorkOk(work[c])
         /\ CallsShaped /\ WorkShaped /\ LaneInv /\ BatchesInv /\ Chosen \subseteq Viewers
BY KnownAreCalls, ChosenAssumption
   DEF DispatchInv, CallsInv, BatchesInv, WorkShaped, CallsShaped, Chosen

\* Before the answer nothing is with the output.
LEMMA NothingOut ==
  ASSUME DispatchInv, NEW c \in Batches,
         work[c].at \in {"new", "admit", "waiting", "ready", "claim", "turn", "attempt", "backoff"}
  PROVE  /\ work[c].at # "returned"
         /\ \A v \in Viewers : out[c][v] = "none" /\ out[c][v] # "queued"
BY BatchFacts DEF AccountInv

\* A step of the batch in its lane or out of it that keeps what its viewers have.
LEMMA SettleKeeps ==
  ASSUME DispatchInv, NEW c \in Batches, NEW f, WorkOk(f), f.slot = work[c].slot, Step(c, f), UNCHANGED lane,
         trace' \in [Calls -> [Viewers -> Traces]], \A d \in Calls \ {c} : trace'[d] = trace[d],
         report' \in [Calls -> [Viewers -> Traces]], \A d \in Calls \ {c} : report'[d] = report[d],
         out' \in [Calls -> [Viewers -> {"none", "queued", "published", "dropped"}]],
         \A d \in Calls \ {c} : out'[d] = out[d],
         UNCHANGED <<session, calm>>, fence' \in Calls \cup {0}, pace' \in 0..RequestPace,
         work'[c] = f => StageInv(c)' /\ CallInv(c)' /\ AccountInv(c)'
  PROVE  DispatchInv'
<1>1. /\ CallsInv' /\ NoneBegins /\ UNCHANGED scenario
      /\ CallsShaped /\ WorkShaped /\ LaneInv /\ BatchesInv /\ c \in Calls
  BY CallsCalm, BatchFacts
<1>2. /\ Turns(c) /\ LaneInv' /\ work'[c] = f
      /\ lane' = [active |-> lane'.active, eligible |-> lane'.eligible]
  BY <1>1, StepFacts
<1>3. \A d \in Calls \ {c} : call'[d].round = call[d].round /\ (Live(d)' => Live(d))
  BY <1>1 DEF NoneBegins
<1>4. WorkShaped' /\ BatchesInv'
  BY <1>1, <1>2, <1>3, TurnKeeps
<1>5. QED BY <1>1, <1>2, <1>4 DEF DispatchInv

\* The books beside the batch's own, when the step does not touch them.
LEMMA RestTyped ==
  ASSUME DispatchInv
  PROVE  /\ trace \in [Calls -> [Viewers -> Traces]] /\ report \in [Calls -> [Viewers -> Traces]]
         /\ out \in [Calls -> [Viewers -> {"none", "queued", "published", "dropped"}]]
         /\ fence \in Calls \cup {0} /\ pace \in 0..RequestPace /\ session \in {"live", "stopped"}
BY DEF DispatchInv, WorkShaped

\* A decision becomes a batch, or is stale at once (_advance_wave_fence).
LEMMA DispatchKeeps ==
  ASSUME DispatchInv, NEW c \in Batches, Dispatch(c)
  PROVE  DispatchInv'
<1>1. /\ c \in Calls /\ StageInv(c) /\ CallInv(c) /\ AccountInv(c) /\ WorkOk(work[c]) /\ work[c].at = "new"
      /\ UNCHANGED <<session, lane, pace, trace, out, calm>>
  BY BatchFacts DEF Dispatch
<1>2. PICK x : x = work[c]
  OBVIOUS
<1>3. /\ IsWork(x) /\ x.at = "new" /\ x.slot \in {"none", "queued", "held"} /\ x.slot # "queued"
      /\ x.slot # "held" /\ x.items = {} /\ x.claimed = {} /\ x.tries = 0 /\ ~x.sent /\ ~Live(c)
      /\ x.sent \in BOOLEAN /\ call[c].round = 0
  BY <1>1, <1>2 DEF WorkOk, StageInv, CallInv, AccountInv, Early, Holding
<1>4. \A v \in Viewers : out[c][v] = "none" /\ report[c][v] = "none"
  BY <1>1 DEF AccountInv
<1>5. Live(c)' <=> Live(c)
  BY <1>1 DEF calm, callVars, Live
<1>6. call'[c].round = 0
  BY <1>1, <1>3 DEF calm, callVars
<1>7. CASE session = "live"
  <2>1. fence' = c /\ Step(c, [x EXCEPT !.at = "admit"]) /\ UNCHANGED report
    BY <1>2, <1>7 DEF Dispatch
  <2>2. PICK f : f = [x EXCEPT !.at = "admit"]
    OBVIOUS
  <2>3. /\ IsWork(f) /\ f.at = "admit" /\ f.reason = x.reason /\ f.items = {} /\ f.slot = x.slot
        /\ f.slot = "none" /\ f.sent = x.sent /\ f.tries = 0 /\ f.claimed = {}
    BY <1>3, <2>2 DEF IsWork
  <2>4. WorkOk(f)
    <3>1. f.sent \in BOOLEAN /\ f.tries \in 0..2 /\ f.items \subseteq Viewers /\ f.claimed \subseteq f.items
      BY <1>3, <2>3
    <3>2. QED BY <2>3, <3>1 DEF WorkOk, Early
  <2>5. x.reason = "none"
    BY <1>1, <1>2, <1>3, <1>7 DEF StageInv
  <2>6. ASSUME work'[c] = f PROVE StageInv(c)' /\ CallInv(c)' /\ AccountInv(c)'
    <3>1. StageInv(c)'
      BY <1>3, <2>3, <2>5, <2>6 DEF StageInv, Early
    <3>2. CallInv(c)'
      BY <1>3, <1>5, <1>6, <2>3, <2>6 DEF CallInv
    <3>3. AccountInv(c)'
      BY <1>1, <1>4, <2>1, <2>3, <2>6 DEF AccountInv, Early, Asked
    <3>4. QED BY <3>1, <3>2, <3>3
  <2>7. f.slot = work[c].slot /\ Step(c, f) /\ fence' \in Calls \cup {0} /\ pace' \in 0..RequestPace
    BY <1>1, <1>2, <2>1, <2>2, <2>3, RestTyped
  <2>8. QED BY <1>1, <2>1, <2>4, <2>6, <2>7, RestTyped, SettleKeeps
<1>8. CASE session # "live"
  <2>1. /\ UNCHANGED fence /\ Step(c, [x EXCEPT !.at = "returned"])
        /\ report' = [report EXCEPT ![c] = [v \in Viewers |-> IF v \in Chosen THEN "stale" ELSE "none"]]
    BY <1>2, <1>8 DEF Dispatch
  <2>2. PICK f : f = [x EXCEPT !.at = "returned"]
    OBVIOUS
  <2>3. /\ IsWork(f) /\ f.at = "returned" /\ f.reason = x.reason /\ f.items = {} /\ f.slot = x.slot
        /\ f.slot = "none" /\ f.sent = x.sent /\ f.tries = 0 /\ f.claimed = {}
    BY <1>3, <2>2 DEF IsWork
  <2>4. WorkOk(f)
    <3>1. f.sent \in BOOLEAN /\ f.tries \in 0..2 /\ f.items \subseteq Viewers /\ f.claimed \subseteq f.items
      BY <1>3, <2>3
    <3>2. QED BY <2>3, <3>1 DEF WorkOk
  <2>5. report' \in [Calls -> [Viewers -> Traces]] /\ \A d \in Calls \ {c} : report'[d] = report[d]
    <3>1. PICK row : row = [v \in Viewers |-> IF v \in Chosen THEN "stale" ELSE "none"]
      OBVIOUS
    <3>2. row \in [Viewers -> Traces] /\ report' = [report EXCEPT ![c] = row]
      BY <2>1, <3>1 DEF Traces
    <3>3. QED BY <3>2, RestTyped
  <2>6. ASSUME work'[c] = f PROVE StageInv(c)' /\ CallInv(c)' /\ AccountInv(c)'
    <3>1. StageInv(c)'
      BY <1>1, <1>3, <1>8, <2>3, <2>6 DEF StageInv, Early
    <3>2. CallInv(c)'
      BY <1>3, <1>5, <1>6, <2>3, <2>6 DEF CallInv
    <3>3. AccountInv(c)'
      <4>1. \A v \in Viewers : trace[c][v] # "published"
        BY <1>1, <1>4 DEF AccountInv
      <4>2. QED BY <1>1, <1>4, <2>3, <2>6, <4>1 DEF AccountInv, Early, Asked
    <3>4. QED BY <3>1, <3>2, <3>3
  <2>7. f.slot = work[c].slot /\ Step(c, f) /\ fence' \in Calls \cup {0} /\ pace' \in 0..RequestPace
    BY <1>1, <1>2, <2>1, <2>2, <2>3, RestTyped
  <2>8. QED BY <1>1, <2>1, <2>4, <2>5, <2>6, <2>7, RestTyped, SettleKeeps
<1>9. QED BY <1>7, <1>8

\* The batch gets a slot, a place in the queue, or is turned away (_admit_window_batch).
LEMMA AdmitKeeps ==
  ASSUME DispatchInv, NEW c \in Batches, Admit(c)
  PROVE  DispatchInv'
<1>1. /\ c \in Calls /\ StageInv(c) /\ CallInv(c) /\ AccountInv(c) /\ WorkOk(work[c]) /\ work[c].at = "admit"
      /\ CallsShaped /\ WorkShaped /\ LaneInv /\ BatchesInv
      /\ UNCHANGED <<session, fence, pace, out, calm>>
  BY BatchFacts DEF Admit
<1>2. CASE InterruptBatch(c, "superseded") \/ InterruptBatch(c, "capacity")
  BY <1>1, <1>2, NothingOut, InterruptCalm
<1>3. PICK x : x = work[c]
  OBVIOUS
<1>4. /\ IsWork(x) /\ x.at = "admit" /\ x.slot \in {"none", "queued", "held"} /\ x.slot # "queued"
      /\ x.slot # "held" /\ x.items = {} /\ x.claimed = {} /\ x.tries = 0 /\ ~x.sent /\ ~Live(c)
      /\ x.sent \in BOOLEAN /\ call[c].round = 0
  BY <1>1, <1>3 DEF WorkOk, StageInv, CallInv, AccountInv, Early, Holding
<1>5. \A v \in Viewers : out[c][v] = "none" /\ report[c][v] = "none"
  BY <1>1 DEF AccountInv
<1>6. Live(c)' <=> Live(c)
  BY <1>1 DEF calm, callVars, Live
<1>7. call'[c].round = 0
  BY <1>1, <1>4 DEF calm, callVars
<1>8. /\ CallsInv' /\ NoneBegins /\ UNCHANGED scenario
  BY <1>1, CallsCalm
<1>9. /\ work = [d \in Calls |-> work[d]] /\ lane = [active |-> lane.active, eligible |-> lane.eligible]
  BY <1>1 DEF WorkShaped
<1>10. /\ lane.active = Cardinality(Held) /\ lane.active <= LaneSlots
       /\ lane.eligible \in Seq(Calls) /\ IsInjective(lane.eligible)
       /\ ToSet(lane.eligible) = Queued /\ Len(lane.eligible) = Cardinality(Queued)
       /\ Len(lane.eligible) <= LaneQueue
       /\ lane.eligible # <<>> => lane.active = LaneSlots
       /\ Held \in SUBSET Calls /\ Queued \in SUBSET Calls /\ c \notin Held /\ c \notin Queued
       /\ LaneSlots \in Nat \ {0} /\ LaneQueue \in Nat \ {0}
  BY <1>1, <1>3, <1>4, LaneAssumption DEF LaneInv, Held, Queued
<1>11. Cardinality(Held) \in Nat /\ Cardinality(Queued) \in Nat
  BY <1>10, HoldersCounted
<1>12. ASSUME NEW a, NEW s, a \in {"ready", "waiting"}, s = IF a = "ready" THEN "held" ELSE "queued",
              NEW f, IsWork(f), f.at = a, f.slot = s, f.reason = x.reason,
              f.items = {}, f.claimed = {}, f.tries = 0, f.sent = x.sent,
              Step(c, f), trace' = trace, report' = report,
              lane' = [active |-> lane'.active, eligible |-> lane'.eligible], LaneInv'
       PROVE  DispatchInv'
  <2>2. /\ IsWork(f) /\ f.at = a /\ f.reason = x.reason /\ f.items = {} /\ f.slot = s
        /\ f.sent = x.sent /\ f.tries = 0 /\ f.claimed = {}
    BY <1>12
  <2>3. WorkOk(f)
    <3>1. f.sent \in BOOLEAN /\ f.tries \in 0..2 /\ f.items \subseteq Viewers /\ f.claimed \subseteq f.items
      BY <1>4, <2>2
    <3>2. QED BY <1>12, <2>2, <3>1 DEF WorkOk, Early
  <2>4. /\ work' = [d \in Calls |-> work'[d]] /\ work'[c] = f
        /\ \A d \in Calls \ {c} : work'[d] = work[d]
    <3>1. work' = [work EXCEPT ![c] = f]
      BY <1>12 DEF Step
    <3>2. QED BY <1>1, <1>9, <3>1
  <2>5. Turns(c)
    BY <1>1, <1>12, <2>3, <2>4, RestTyped DEF Turns
  <2>6. StageInv(c)'
    <3>1. session = "live" => x.reason = "none"
      BY <1>1, <1>3, <1>4 DEF StageInv
    <3>2. QED BY <1>1, <1>4, <1>12, <2>2, <2>4, <3>1 DEF StageInv, Early, Holding
  <2>7. CallInv(c)'
    BY <1>4, <1>6, <1>7, <2>2, <2>4 DEF CallInv
  <2>8. AccountInv(c)'
    BY <1>1, <1>5, <1>12, <2>2, <2>4 DEF AccountInv, Early, Asked
  <2>9. session' \in {session, "stopped"} /\ fence' \in Calls \cup {0} /\ pace' \in 0..RequestPace
        /\ \A d \in Calls \ {c} : call'[d].round = call[d].round /\ (Live(d)' => Live(d))
    BY <1>1, <1>8, RestTyped DEF NoneBegins
  <2>10. WorkShaped' /\ BatchesInv'
    BY <1>1, <1>8, <1>12, <2>5, <2>6, <2>7, <2>8, <2>9, TurnKeeps
  <2>11. QED BY <1>8, <1>12, <2>10 DEF DispatchInv
<1>13. CASE /\ lane.active < LaneSlots
            /\ lane' = [lane EXCEPT !.active = @ + 1]
            /\ Step(c, [work[c] EXCEPT !.at = "ready", !.slot = "held"])
            /\ UNCHANGED <<trace, report>>
  <2>1. /\ lane'.active = lane.active + 1 /\ lane'.eligible = lane.eligible
        /\ lane' = [active |-> lane'.active, eligible |-> lane'.eligible]
    BY <1>9, <1>13
  <2>2. ASSUME work'[c].slot = "held", \A d \in Calls \ {c} : work'[d] = work[d]
        PROVE  LaneInv'
    <3>1. Queued' = Queued /\ Held' = Held \cup {c}
      <4>1. \A d \in Calls : /\ work'[d].slot = "queued" <=> work[d].slot = "queued"
                             /\ work'[d].slot = "held" <=> d = c \/ work[d].slot = "held"
        BY <1>3, <1>4, <2>2
      <4>2. QED BY <1>1, <4>1 DEF Queued, Held
    <3>2. PICK H : H = Held
      OBVIOUS
    <3>3. Cardinality(H \cup {c}) = Cardinality(H) + 1
      BY <1>10, <3>2, HoldersCounted
    <3>4. lane'.active = Cardinality(Held') /\ lane'.active <= LaneSlots
      BY <1>10, <1>11, <1>13, <2>1, <3>1, <3>2, <3>3
    <3>5. lane.eligible = <<>>
      BY <1>10, <1>13, <1>11
    <3>6. QED BY <1>10, <2>1, <3>1, <3>4, <3>5 DEF LaneInv
  <2>3. PICK a, s : a = "ready" /\ s = "held"
    OBVIOUS
  <2>4. PICK f : f = [x EXCEPT !.at = a, !.slot = s]
    OBVIOUS
  <2>8. Step(c, f)
    BY <1>3, <1>13, <2>3, <2>4
  <2>9. /\ IsWork(f) /\ f.at = a /\ f.slot = s /\ f.reason = x.reason /\ s = "held"
        /\ f.items = {} /\ f.claimed = {} /\ f.tries = 0 /\ f.sent = x.sent
    BY <1>4, <2>3, <2>4 DEF IsWork
  <2>10. work'[c] = f /\ \A d \in Calls \ {c} : work'[d] = work[d]
    <3>1. work' = [work EXCEPT ![c] = f]
      BY <2>8 DEF Step
    <3>2. QED BY <1>1, <1>9, <3>1
  <2>5. LaneInv'
    BY <2>2, <2>9, <2>10
  <2>6. /\ a \in {"ready", "waiting"} /\ s = IF a = "ready" THEN "held" ELSE "queued"
        /\ trace' = trace /\ report' = report
    BY <1>13, <2>3
  <2>11. lane' = [active |-> lane'.active, eligible |-> lane'.eligible]
    BY <2>1
  <2>7. QED BY <1>12, <2>5, <2>6, <2>8, <2>9, <2>11
<1>14. CASE /\ ~(lane.active < LaneSlots) /\ ~(Len(lane.eligible) >= LaneQueue)
            /\ lane' = [lane EXCEPT !.eligible = Append(@, c)]
            /\ Step(c, [work[c] EXCEPT !.at = "waiting", !.slot = "queued"])
            /\ UNCHANGED <<trace, report>>
  <2>0. PICK q : q = lane.eligible
    OBVIOUS
  <2>1. /\ lane'.active = lane.active /\ lane'.eligible = Append(q, c)
        /\ lane' = [active |-> lane'.active, eligible |-> lane'.eligible]
    BY <1>9, <1>14, <2>0
  <2>2. ASSUME work'[c].slot = "queued", \A d \in Calls \ {c} : work'[d] = work[d]
        PROVE  LaneInv'
    <3>1. Held' = Held /\ Queued' = Queued \cup {c}
      <4>1. \A d \in Calls : /\ work'[d].slot = "held" <=> work[d].slot = "held"
                             /\ work'[d].slot = "queued" <=> d = c \/ work[d].slot = "queued"
        BY <1>3, <1>4, <2>2
      <4>2. QED BY <1>1, <4>1 DEF Queued, Held
    <3>2. PICK Q : Q = Queued
      OBVIOUS
    <3>3. Cardinality(Q \cup {c}) = Cardinality(Q) + 1
      BY <1>10, <3>2, HoldersCounted
    <3>4. /\ Append(q, c) \in Seq(Calls) /\ Len(Append(q, c)) = Len(q) + 1
          /\ IsInjective(Append(q, c)) /\ ToSet(Append(q, c)) = ToSet(q) \cup {c}
      BY <1>1, <1>10, <2>0, QueueJoined
    <3>5. PICK r : r = Append(q, c)
      OBVIOUS
    <3>6. /\ r \in Seq(Calls) /\ IsInjective(r) /\ ToSet(r) = Queued' /\ Len(r) = Cardinality(Queued')
          /\ lane'.eligible = r
      BY <1>10, <2>0, <2>1, <3>1, <3>2, <3>3, <3>4, <3>5
    <3>7. Len(r) <= LaneQueue
      BY <1>10, <1>11, <1>14, <2>0, <3>4, <3>5
    <3>8. lane'.active = LaneSlots /\ lane'.active = Cardinality(Held')
      BY <1>10, <1>11, <1>14, <2>1, <3>1
    <3>9. lane'.active <= LaneSlots
      BY <1>10, <3>8
    <3>10. QED BY <3>6, <3>7, <3>8, <3>9 DEF LaneInv
  <2>3. PICK a, s : a = "waiting" /\ s = "queued"
    OBVIOUS
  <2>4. PICK f : f = [x EXCEPT !.at = a, !.slot = s]
    OBVIOUS
  <2>8. Step(c, f)
    BY <1>3, <1>14, <2>3, <2>4
  <2>9. /\ IsWork(f) /\ f.at = a /\ f.slot = s /\ f.reason = x.reason /\ s = "queued"
        /\ f.items = {} /\ f.claimed = {} /\ f.tries = 0 /\ f.sent = x.sent
    BY <1>4, <2>3, <2>4 DEF IsWork
  <2>10. work'[c] = f /\ \A d \in Calls \ {c} : work'[d] = work[d]
    <3>1. work' = [work EXCEPT ![c] = f]
      BY <2>8 DEF Step
    <3>2. QED BY <1>1, <1>9, <3>1
  <2>5. LaneInv'
    BY <2>2, <2>9, <2>10
  <2>6. /\ a \in {"ready", "waiting"} /\ s = IF a = "ready" THEN "held" ELSE "queued"
        /\ trace' = trace /\ report' = report
    BY <1>14, <2>3
  <2>11. lane' = [active |-> lane'.active, eligible |-> lane'.eligible]
    BY <2>1
  <2>7. QED BY <1>12, <2>5, <2>6, <2>8, <2>9, <2>11
<1>15. QED BY <1>2, <1>13, <1>14 DEF Admit

---------------------------------------------------------------------------
(* Its requests.                                                           *)

\* A viewer's part is settled by a word in its trace.
LEMMA TraceKeeps ==
  ASSUME DispatchInv, NEW c \in Batches, NEW v \in Viewers, out[c][v] = "none",
         NEW what \in Traces \ {"none", "published"}, trace' = Traced(c, {v}, what),
         NEW a, a \in {"claim", "accept"}, work[c].at = a \/ (work[c].at = "silence" /\ a = "accept"),
         NEW f, IsWork(f), f.at = a, f.slot = work[c].slot, f.reason = work[c].reason,
         f.sent = work[c].sent, f.tries = work[c].tries, f.items = work[c].items,
         f.claimed = work[c].claimed, Step(c, f),
         UNCHANGED <<lane, report, out>>, UNCHANGED <<session, fence, pace, calm>>
  PROVE  DispatchInv'
<1>1. /\ c \in Calls /\ StageInv(c) /\ CallInv(c) /\ AccountInv(c) /\ WorkOk(work[c])
      /\ CallsShaped /\ WorkShaped /\ LaneInv /\ BatchesInv
  BY BatchFacts
<1>2. WorkOk(f)
  BY <1>1 DEF WorkOk, Holding
<1>3. /\ trace' \in [Calls -> [Viewers -> Traces]]
      /\ \A d \in Calls \ {c} : trace'[d] = trace[d]
      /\ \A u \in Viewers : trace'[c][u] = IF u \in {v} /\ trace[c][u] = NoTrace THEN what ELSE trace[c][u]
  <2>1. PICK S : S = {v}
    OBVIOUS
  <2>2. trace' = Traced(c, S, what)
    BY <2>1
  <2>3. /\ trace' \in [Calls -> [Viewers -> Traces]]
        /\ \A d \in Calls \ {c} : trace'[d] = trace[d]
        /\ \A u \in Viewers : trace'[c][u] = IF u \in S /\ trace[c][u] = NoTrace THEN what ELSE trace[c][u]
    BY <1>1, <2>2, TracedFacts
  <2>4. QED BY <2>1, <2>3
<1>4. ASSUME work'[c] = f PROVE StageInv(c)' /\ CallInv(c)' /\ AccountInv(c)'
  <2>1. StageInv(c)'
    BY <1>1, <1>4 DEF StageInv, Early, Holding
  <2>2. CallInv(c)'
    <3>1. ~Live(c)
      BY <1>1 DEF CallInv
    <3>2. ~Live(c)' /\ call'[c].round = call[c].round
      BY <3>1 DEF calm, callVars, Live
    <3>3. QED BY <1>1, <1>4, <3>2 DEF CallInv
  <2>3. AccountInv(c)'
    <3>1. \A u \in Viewers : report[c][u] = "none"
      BY <1>1 DEF AccountInv
    <3>2. \A u \in work[c].items \ work[c].claimed : a = "accept" => trace'[c][u] # NoTrace
      BY <1>1, <1>3 DEF AccountInv, Asked, WorkOk, NoTrace
    <3>3. ASSUME NEW u \in Viewers
          PROVE  /\ out[c][u] # "none" => a = "accept"
                 /\ out[c][u] \in {"published", "dropped"} => trace'[c][u] # NoTrace
                 /\ out[c][u] = "queued" /\ trace'[c][u] # NoTrace =>
                      work[c].reason = "scheduler" \/ session = "stopped"
                 /\ trace'[c][u] = "published" => out[c][u] = "published"
                 /\ out[c][u] = "published" /\ work[c].reason # "scheduler" /\ session = "live" => trace'[c][u] = "published"
      <4>1. /\ out[c][u] # "none" => work[c].at \in {"accept", "silence", "delivery", "returned"}
            /\ out[c][u] \in {"published", "dropped"} => trace[c][u] # NoTrace
            /\ out[c][u] = "queued" /\ trace[c][u] # NoTrace =>
                 work[c].reason = "scheduler" \/ session = "stopped"
            /\ trace[c][u] = "published" => out[c][u] = "published"
            /\ out[c][u] = "published" /\ work[c].reason # "scheduler" /\ session = "live" => trace[c][u] = "published"
        BY <1>1 DEF AccountInv
      <4>2. trace'[c][u] = IF u \in {v} /\ trace[c][u] = NoTrace THEN what ELSE trace[c][u]
        BY <1>3
      <4>3. QED BY <4>1, <4>2
    <3>4. out' = out /\ report' = report /\ session' = session /\ work[c].items \subseteq Viewers
      BY <1>1 DEF WorkOk
    <3>5. QED BY <1>4, <3>1, <3>2, <3>3, <3>4 DEF AccountInv, Early, Asked
  <2>4. QED BY <2>1, <2>2, <2>3
<1>5. /\ report' \in [Calls -> [Viewers -> Traces]] /\ \A d \in Calls \ {c} : report'[d] = report[d]
      /\ out' \in [Calls -> [Viewers -> {"none", "queued", "published", "dropped"}]]
      /\ \A d \in Calls \ {c} : out'[d] = out[d]
      /\ fence' \in Calls \cup {0} /\ pace' \in 0..RequestPace
  BY RestTyped
<1>6. QED BY <1>2, <1>3, <1>4, <1>5, SettleKeeps

\* It has its requests, or no viewer is left.
LEMMA BuildKeeps ==
  ASSUME DispatchInv, NEW c \in Batches, Build(c)
  PROVE  DispatchInv'
<1>1. /\ c \in Calls /\ StageInv(c) /\ CallInv(c) /\ AccountInv(c) /\ WorkOk(work[c]) /\ work[c].at = "ready"
      /\ Chosen \subseteq Viewers
      /\ UNCHANGED <<session, fence, pace, out, calm>>
  BY BatchFacts DEF Build
<1>2. work[c].at # "returned" /\ \A v \in Viewers : out[c][v] = "none" /\ out[c][v] # "queued"
  BY <1>1, NothingOut
<1>3. CASE InterruptBatch(c, "superseded")
  BY <1>1, <1>2, <1>3, InterruptCalm
<1>4. CASE Conclude(c, "stale")
  <2>1. PICK what : what = "stale"
    OBVIOUS
  <2>2. what \in Traces \ {"published"} /\ what # NoTrace /\ Conclude(c, what)
    BY <1>4, <2>1 DEF Traces, NoTrace
  <2>3. work[c].items = {}
    BY <1>1 DEF AccountInv, Early
  <2>4. QED BY <1>1, <1>2, <2>2, <2>3, ConcludeCalm
<1>5. ASSUME NEW items \in SUBSET Chosen, Step(c, [work[c] EXCEPT !.at = "claim", !.items = items]),
             UNCHANGED <<lane, trace, report>>
      PROVE  DispatchInv'
  <2>1. PICK x, f : x = work[c] /\ f = [x EXCEPT !.at = "claim", !.items = items]
    OBVIOUS
  <2>2. /\ IsWork(x) /\ x.at = "ready" /\ x.slot \in {"none", "queued", "held"} /\ x.slot # "queued"
        /\ x.items = {} /\ x.claimed = {} /\ x.tries = 0 /\ ~x.sent /\ ~Live(c)
        /\ x.sent \in BOOLEAN /\ call[c].round = 0 /\ (session = "live" => x.reason = "none")
    BY <1>1, <2>1 DEF WorkOk, StageInv, CallInv, AccountInv, Early
  <2>3. /\ IsWork(f) /\ f.at = "claim" /\ f.reason = x.reason /\ f.items = items /\ f.slot = x.slot
        /\ f.sent = x.sent /\ f.tries = 0 /\ f.claimed = {}
    BY <2>1, <2>2 DEF IsWork
  <2>4. WorkOk(f)
    <3>1. f.sent \in BOOLEAN /\ f.tries \in 0..2 /\ f.items \subseteq Viewers /\ f.claimed \subseteq f.items
      BY <1>1, <2>2, <2>3
    <3>2. QED BY <2>2, <2>3, <3>1 DEF WorkOk, Holding
  <2>5. /\ \A v \in Viewers : out[c][v] = "none" /\ report[c][v] = "none" /\ trace[c][v] # "published"
    BY <1>1, <1>2 DEF AccountInv
  <2>6. ASSUME work'[c] = f PROVE StageInv(c)' /\ CallInv(c)' /\ AccountInv(c)'
    <3>1. StageInv(c)'
      BY <1>1, <2>2, <2>3, <2>6 DEF StageInv, Early, Holding
    <3>2. CallInv(c)'
      <4>1. ~Live(c)' /\ call'[c].round = call[c].round
        BY <1>1, <2>2 DEF calm, callVars, Live
      <4>2. QED BY <2>2, <2>3, <2>6, <4>1 DEF CallInv
    <3>3. AccountInv(c)'
      BY <1>1, <1>5, <2>3, <2>5, <2>6 DEF AccountInv, Early, Asked
    <3>4. QED BY <3>1, <3>2, <3>3
  <2>7. f.slot = work[c].slot /\ Step(c, f) /\ UNCHANGED lane
    BY <1>5, <2>1, <2>3
  <2>8. /\ trace' \in [Calls -> [Viewers -> Traces]] /\ \A d \in Calls \ {c} : trace'[d] = trace[d]
        /\ report' \in [Calls -> [Viewers -> Traces]] /\ \A d \in Calls \ {c} : report'[d] = report[d]
        /\ out' \in [Calls -> [Viewers -> {"none", "queued", "published", "dropped"}]]
        /\ \A d \in Calls \ {c} : out'[d] = out[d]
        /\ fence' \in Calls \cup {0} /\ pace' \in 0..RequestPace
    BY <1>1, <1>5, RestTyped
  <2>9. QED BY <1>1, <2>4, <2>6, <2>7, <2>8, SettleKeeps
<1>6. QED BY <1>3, <1>4, <1>5 DEF Build

\* It claims the sequence of its next viewer, and goes on when all were asked for.
LEMMA ClaimKeeps ==
  ASSUME DispatchInv, NEW c \in Batches, Claim(c)
  PROVE  DispatchInv'
<1>1. /\ c \in Calls /\ StageInv(c) /\ CallInv(c) /\ AccountInv(c) /\ WorkOk(work[c]) /\ work[c].at = "claim"
      /\ WorkShaped /\ UNCHANGED <<session, fence, pace, out, calm>>
  BY BatchFacts DEF Claim
<1>2. work[c].at # "returned" /\ \A v \in Viewers : out[c][v] = "none" /\ out[c][v] # "queued"
  BY <1>1, NothingOut
<1>3. ~Live(c) /\ work[c].tries = 0
  BY <1>1 DEF CallInv, StageInv
<1>4. CASE InterruptBatch(c, "superseded")
  BY <1>1, <1>2, <1>4, InterruptCalm
<1>5. CASE Unclaimed(c) = {} /\ Conclude(c, "stale")
  <2>1. PICK what : what = "stale"
    OBVIOUS
  <2>2. what \in Traces \ {"published"} /\ what # NoTrace /\ Conclude(c, what)
    BY <1>5, <2>1 DEF Traces, NoTrace
  <2>3. \A v \in work[c].items \ work[c].claimed : trace[c][v] # NoTrace
    BY <1>5 DEF Unclaimed
  <2>4. QED BY <1>1, <1>2, <2>2, <2>3, ConcludeCalm
<1>6. CASE Unclaimed(c) = {} /\ Step(c, [work[c] EXCEPT !.at = "turn"]) /\ UNCHANGED <<lane, trace, report>>
  <2>1. PICK a : a = "turn"
    OBVIOUS
  <2>2. Step(c, [work[c] EXCEPT !.at = a]) /\ UNCHANGED <<lane, report, trace, out>>
    BY <1>1, <1>6, <2>1
  <2>3. \A v \in work[c].items \ work[c].claimed : trace[c][v] # NoTrace
    BY <1>6 DEF Unclaimed
  <2>4. /\ work[c].at \in Holding \cup {"delivery"} /\ work[c].tries <= 1
        /\ a \in {"turn", "backoff", "accept", "silence", "returned"}
        /\ a \notin {"accept", "silence", "returned"}
    BY <1>1, <1>3, <2>1 DEF Holding
  <2>5. QED BY <1>1, <1>2, <1>3, <2>2, <2>3, <2>4, AdvanceCalm
<1>7. PICK v : v = Min(Unclaimed(c))
  OBVIOUS
<1>8. Unclaimed(c) # {} => v \in work[c].items /\ v \in Viewers
  <2>1. Unclaimed(c) \subseteq work[c].items /\ work[c].items \subseteq Viewers /\ Viewers \subseteq Nat
    BY <1>1, LaneAssumption DEF Unclaimed, WorkOk
  <2>2. PICK U : U = Unclaimed(c)
    OBVIOUS
  <2>3. U # {} => Min(U) \in U
    BY <2>1, <2>2, MinExists
  <2>4. QED BY <1>7, <2>1, <2>2, <2>3
<1>9. CASE /\ Unclaimed(c) # {} /\ Step(c, [work[c] EXCEPT !.claimed = @ \cup {v}])
           /\ UNCHANGED <<lane, trace, report>>
  <2>1. PICK x, f : x = work[c] /\ f = [x EXCEPT !.claimed = @ \cup {v}]
    OBVIOUS
  <2>2. /\ IsWork(x) /\ x.at = "claim" /\ x.slot \in {"none", "queued", "held"} /\ x.slot # "queued"
        /\ x.items \subseteq Viewers /\ x.claimed \subseteq x.items /\ x.tries = 0 /\ ~x.sent
        /\ x.sent \in BOOLEAN /\ call[c].round = 0 /\ (session = "live" => x.reason = "none")
    BY <1>1, <2>1 DEF WorkOk, StageInv, CallInv, Early
  <2>3. /\ IsWork(f) /\ f.at = "claim" /\ f.reason = x.reason /\ f.items = x.items /\ f.slot = x.slot
        /\ f.sent = x.sent /\ f.tries = 0 /\ f.claimed = x.claimed \cup {v}
    BY <2>1, <2>2 DEF IsWork
  <2>4. WorkOk(f)
    <3>1. f.sent \in BOOLEAN /\ f.tries \in 0..2 /\ f.items \subseteq Viewers /\ f.claimed \subseteq f.items
      BY <1>8, <1>9, <2>1, <2>2, <2>3
    <3>2. QED BY <2>2, <2>3, <3>1 DEF WorkOk, Holding
  <2>5. /\ \A u \in Viewers : out[c][u] = "none" /\ report[c][u] = "none" /\ trace[c][u] # "published"
    BY <1>1, <1>2 DEF AccountInv
  <2>6. ASSUME work'[c] = f PROVE StageInv(c)' /\ CallInv(c)' /\ AccountInv(c)'
    <3>1. StageInv(c)'
      BY <1>1, <2>2, <2>3, <2>6 DEF StageInv, Early, Holding
    <3>2. CallInv(c)'
      <4>1. ~Live(c)' /\ call'[c].round = call[c].round
        BY <1>1, <1>3 DEF calm, callVars, Live
      <4>2. QED BY <2>2, <2>3, <2>6, <4>1 DEF CallInv
    <3>3. AccountInv(c)'
      BY <1>1, <1>9, <2>2, <2>3, <2>5, <2>6 DEF AccountInv, Early, Asked
    <3>4. QED BY <3>1, <3>2, <3>3
  <2>7. f.slot = work[c].slot /\ Step(c, f) /\ UNCHANGED lane
    BY <1>9, <2>1, <2>3
  <2>8. /\ trace' \in [Calls -> [Viewers -> Traces]] /\ \A d \in Calls \ {c} : trace'[d] = trace[d]
        /\ report' \in [Calls -> [Viewers -> Traces]] /\ \A d \in Calls \ {c} : report'[d] = report[d]
        /\ out' \in [Calls -> [Viewers -> {"none", "queued", "published", "dropped"}]]
        /\ \A d \in Calls \ {c} : out'[d] = out[d]
        /\ fence' \in Calls \cup {0} /\ pace' \in 0..RequestPace
    BY <1>1, <1>9, RestTyped
  <2>9. QED BY <1>1, <2>4, <2>6, <2>7, <2>8, SettleKeeps
<1>10. CASE Unclaimed(c) # {} /\ trace' = Traced(c, {v}, "stale") /\ UNCHANGED <<lane, work, report>>
  <2>1. PICK what, a, f : what = "stale" /\ a = "claim" /\ f = work[c]
    OBVIOUS
  <2>2. what \in Traces \ {"none", "published"} /\ trace' = Traced(c, {v}, what) /\ a \in {"claim", "accept"}
    BY <1>10, <2>1 DEF Traces
  <2>3. Step(c, f)
    BY <1>1, <1>10, <2>1 DEF Step, WorkShaped
  <2>4. /\ IsWork(f) /\ f.at = a /\ f.slot = work[c].slot /\ f.reason = work[c].reason
        /\ f.sent = work[c].sent /\ f.tries = work[c].tries /\ f.items = work[c].items
        /\ f.claimed = work[c].claimed /\ work[c].at = a
    BY <1>1, <2>1 DEF WorkOk
  <2>5. v \in Viewers /\ out[c][v] = "none"
    BY <1>2, <1>8, <1>10
  <2>6. QED BY <1>1, <1>10, <2>2, <2>3, <2>4, <2>5, TraceKeeps
<1>11. QED BY <1>4, <1>5, <1>6, <1>7, <1>9, <1>10 DEF Claim

---------------------------------------------------------------------------
(* Its attempts and its answer.                                            *)

\* A batch that has its turn or waits for the server has settled who takes part.
LEMMA AskedFacts ==
  ASSUME DispatchInv, NEW c \in Batches, work[c].at \in {"turn", "attempt", "backoff"}
  PROVE  /\ work[c].at # "returned" /\ work[c].at \in Holding
         /\ \A v \in Viewers : out[c][v] = "none" /\ out[c][v] # "queued"
         /\ \A v \in work[c].items \ work[c].claimed : trace[c][v] # NoTrace
<1>1. AccountInv(c)
  BY BatchFacts
<1>2. \A v \in work[c].items \ work[c].claimed : trace[c][v] # NoTrace
  BY <1>1 DEF AccountInv, Asked
<1>3. work[c].at \in Holding
  BY DEF Holding
<1>4. QED BY <1>2, <1>3, NothingOut

\* Its deadline or its last attempt ends it.
LEMMA EndsUnanswered ==
  ASSUME DispatchInv, NEW c \in Batches, work[c].at \in {"turn", "attempt", "backoff"},
         NEW what \in {"expired", "failed"}, Conclude(c, what),
         UNCHANGED <<session, fence, pace, out, calm>>
  PROVE  DispatchInv'
<1>1. /\ work[c].at # "returned"
      /\ \A v \in Viewers : out[c][v] # "queued"
      /\ \A v \in work[c].items \ work[c].claimed : trace[c][v] # NoTrace
  BY AskedFacts
<1>2. what \in Traces \ {"published"} /\ what # NoTrace
  BY DEF Traces, NoTrace
<1>3. QED BY <1>1, <1>2, ConcludeCalm

\* Its turn to ask does not come.
LEMMA TurnLostKeeps ==
  ASSUME DispatchInv, NEW c \in Batches, TurnLost(c)
  PROVE  DispatchInv'
<1>1. /\ work[c].at = "turn" /\ UNCHANGED <<session, fence, pace, out, calm>>
  BY DEF TurnLost
<1>2. work[c].at # "returned" /\ \A v \in Viewers : out[c][v] # "queued"
  BY <1>1, AskedFacts
<1>3. CASE InterruptBatch(c, "superseded")
  BY <1>1, <1>2, <1>3, InterruptCalm
<1>4. CASE Conclude(c, "expired")
  <2>1. PICK what : what = "expired"
    OBVIOUS
  <2>2. QED BY <1>1, <1>4, <2>1, EndsUnanswered
<1>5. QED BY <1>3, <1>4 DEF TurnLost

\* An attempt ends by itself.
LEMMA AttemptEndsKeeps ==
  ASSUME DispatchInv, NEW c \in Batches, AttemptEnds(c)
  PROVE  DispatchInv'
<1>1. /\ work[c].at = "attempt" /\ ~Live(c) /\ UNCHANGED <<session, fence, pace, out, calm>>
      /\ c \in Calls /\ work[c].tries >= 1
  BY BatchFacts DEF AttemptEnds, StageInv
<1>2. /\ work[c].at \in Holding \cup {"delivery"}
      /\ \A v \in Viewers : out[c][v] = "none"
      /\ \A v \in work[c].items \ work[c].claimed : trace[c][v] # NoTrace
  BY <1>1, AskedFacts
<1>3. ASSUME NEW a \in {"accept", "backoff"}, Step(c, [work[c] EXCEPT !.at = a]),
             a = "backoff" => work[c].tries = 1, UNCHANGED <<lane, trace, report>>
      PROVE  DispatchInv'
  <2>1. /\ a \in {"turn", "backoff", "accept", "silence", "returned"} /\ a \notin {"silence", "returned"}
        /\ a \in {"turn", "backoff"} => work[c].tries <= 1
        /\ UNCHANGED <<lane, report, trace, out>>
    BY <1>1, <1>3
  <2>2. QED BY <1>1, <1>2, <1>3, <2>1, AdvanceCalm
<1>4. CASE Step(c, [work[c] EXCEPT !.at = "accept"]) /\ UNCHANGED <<lane, trace, report>>
  <2>1. PICK a : a = "accept"
    OBVIOUS
  <2>2. QED BY <1>3, <1>4, <2>1
<1>5. CASE work[c].tries = 1 /\ Step(c, [work[c] EXCEPT !.at = "backoff"]) /\ UNCHANGED <<lane, trace, report>>
  <2>1. PICK a : a = "backoff"
    OBVIOUS
  <2>2. QED BY <1>3, <1>5, <2>1
<1>6. CASE Conclude(c, "expired") \/ Conclude(c, "failed")
  <2>1. PICK what \in {"expired", "failed"} : Conclude(c, what)
    BY <1>6
  <2>2. QED BY <1>1, <2>1, EndsUnanswered
<1>7. QED BY <1>4, <1>5, <1>6 DEF AttemptEnds

\* The pause before the second attempt is over.
LEMMA BackoffEndsKeeps ==
  ASSUME DispatchInv, NEW c \in Batches, BackoffEnds(c)
  PROVE  DispatchInv'
<1>1. /\ work[c].at = "backoff" /\ UNCHANGED <<session, fence, pace, out, calm>>
      /\ c \in Calls /\ ~Live(c) /\ work[c].tries <= 1
  BY BatchFacts DEF BackoffEnds, CallInv, StageInv
<1>2. /\ work[c].at # "returned" /\ work[c].at \in Holding \cup {"delivery"}
      /\ \A v \in Viewers : out[c][v] = "none" /\ out[c][v] # "queued"
      /\ \A v \in work[c].items \ work[c].claimed : trace[c][v] # NoTrace
  BY <1>1, AskedFacts
<1>3. CASE Step(c, [work[c] EXCEPT !.at = "turn"]) /\ UNCHANGED <<lane, trace, report>>
  <2>1. PICK a : a = "turn"
    OBVIOUS
  <2>2. Step(c, [work[c] EXCEPT !.at = a]) /\ UNCHANGED <<lane, report, trace, out>>
    BY <1>1, <1>3, <2>1
  <2>3. /\ a \in {"turn", "backoff", "accept", "silence", "returned"}
        /\ a \notin {"accept", "silence", "returned"}
    BY <2>1
  <2>4. QED BY <1>1, <1>2, <2>2, <2>3, AdvanceCalm
<1>4. CASE InterruptBatch(c, "superseded")
  BY <1>1, <1>2, <1>4, InterruptCalm
<1>5. CASE Conclude(c, "expired")
  <2>1. PICK what : what = "expired"
    OBVIOUS
  <2>2. QED BY <1>1, <1>5, <2>1, EndsUnanswered
<1>6. QED BY <1>3, <1>4, <1>5 DEF BackoffEnds

\* The next viewer whose part of the answer is looked at.
LEMMA NextOpen ==
  ASSUME DispatchInv, NEW c \in Batches, Open(c) # {}, NEW v, v = Min(Open(c))
  PROVE  v \in Viewers /\ v \in work[c].claimed /\ trace[c][v] = NoTrace /\ out[c][v] = "none"
<1>1. Open(c) \subseteq work[c].claimed /\ work[c].claimed \subseteq Viewers /\ Viewers \subseteq Nat
  BY BatchFacts, LaneAssumption DEF Open, WorkOk
<1>2. PICK O : O = Open(c)
  OBVIOUS
<1>3. Min(O) \in O
  BY <1>1, <1>2, MinExists
<1>4. v \in Open(c)
  BY <1>2, <1>3
<1>5. QED BY <1>1, <1>4 DEF Open

\* A viewer's part is decided.
LEMMA DecideKeeps ==
  ASSUME DispatchInv, NEW c \in Batches, work[c].at = "accept", NEW v \in Viewers, out[c][v] = "none",
         NEW what \in Traces \ {"none", "published"}, Decide(c, v, what),
         UNCHANGED <<session, fence, lane, pace, report, calm>>
  PROVE  DispatchInv'
<1>1. c \in Calls /\ WorkOk(work[c]) /\ WorkShaped
  BY BatchFacts
<1>2. PICK f, a : f = work[c] /\ a = "accept"
  OBVIOUS
<1>3. Step(c, f)
  BY <1>1, <1>2 DEF Decide, Step, WorkShaped
<1>4. /\ IsWork(f) /\ f.at = a /\ f.slot = work[c].slot /\ f.reason = work[c].reason
      /\ f.sent = work[c].sent /\ f.tries = work[c].tries /\ f.items = work[c].items
      /\ f.claimed = work[c].claimed /\ work[c].at = a /\ a \in {"claim", "accept"}
  BY <1>1, <1>2 DEF WorkOk
<1>5. trace' = Traced(c, {v}, what) /\ UNCHANGED <<lane, report, out>>
  BY DEF Decide
<1>6. QED BY <1>3, <1>4, <1>5, TraceKeeps

\* The next viewer's part of the answer (_accept_window_batch_result).
LEMMA AcceptKeeps ==
  ASSUME DispatchInv, NEW c \in Batches, Accept(c)
  PROVE  DispatchInv'
<1>1. /\ c \in Calls /\ StageInv(c) /\ CallInv(c) /\ AccountInv(c) /\ WorkOk(work[c]) /\ WorkShaped
      /\ work[c].at = "accept" /\ Open(c) # {} /\ UNCHANGED <<session, fence, lane, pace, report, calm>>
  BY BatchFacts DEF Accept
<1>2. PICK v : v = Min(Open(c))
  OBVIOUS
<1>3. v \in Viewers /\ v \in work[c].claimed /\ trace[c][v] = NoTrace /\ out[c][v] = "none"
  BY <1>1, <1>2, NextOpen
<1>4. CASE \E what \in {"rejected", "stale", "expired", "silence", "cancelled"} : Decide(c, v, what)
  <2>1. PICK what \in {"rejected", "stale", "expired", "silence", "cancelled"} : Decide(c, v, what)
    BY <1>4
  <2>2. what \in Traces \ {"none", "published"}
    BY <2>1 DEF Traces
  <2>3. QED BY <1>1, <1>3, <2>1, <2>2, DecideKeeps
<1>5. CASE Step(c, [work[c] EXCEPT !.at = "silence"]) /\ UNCHANGED <<trace, out>>
  <2>1. PICK a : a = "silence"
    OBVIOUS
  <2>2. Step(c, [work[c] EXCEPT !.at = a]) /\ UNCHANGED <<lane, report, trace, out>>
    BY <1>1, <1>5, <2>1
  <2>3. /\ work[c].at \in Holding \cup {"delivery"} /\ ~Live(c) /\ work[c].tries >= 1
        /\ a \in {"turn", "backoff", "accept", "silence", "returned"}
        /\ a \notin {"turn", "backoff", "returned"}
        /\ \A u \in work[c].items \ work[c].claimed : trace[c][u] # NoTrace
    BY <1>1, <2>1 DEF Holding, CallInv, StageInv, AccountInv, Asked
  <2>4. QED BY <1>1, <2>2, <2>3, AdvanceCalm
<1>6. CASE session = "live" /\ out' = [out EXCEPT ![c][v] = "queued"] /\ UNCHANGED <<trace, work>>
  <2>1. PICK f : f = work[c]
    OBVIOUS
  <2>2. Step(c, f) /\ f.slot = work[c].slot /\ WorkOk(f)
    BY <1>1, <1>6, <2>1 DEF Step, WorkShaped
  <2>3. /\ out' \in [Calls -> [Viewers -> {"none", "queued", "published", "dropped"}]]
        /\ \A d \in Calls \ {c} : out'[d] = out[d]
        /\ \A u \in Viewers : out'[c][u] = IF u = v THEN "queued" ELSE out[c][u]
    <3>1. out \in [Calls -> [Viewers -> {"none", "queued", "published", "dropped"}]]
      BY RestTyped
    <3>2. PICK row : row = [out[c] EXCEPT ![v] = "queued"]
      OBVIOUS
    <3>3. out' = [out EXCEPT ![c] = row]
      BY <1>6, <3>2
    <3>4. /\ row \in [Viewers -> {"none", "queued", "published", "dropped"}]
          /\ \A u \in Viewers : row[u] = IF u = v THEN "queued" ELSE out[c][u]
      BY <1>1, <1>3, <3>1, <3>2
    <3>5. /\ out' \in [Calls -> [Viewers -> {"none", "queued", "published", "dropped"}]]
          /\ out'[c] = row /\ \A d \in Calls \ {c} : out'[d] = out[d]
      BY <1>1, <3>1, <3>3, <3>4
    <3>6. QED BY <3>4, <3>5
  <2>4. ASSUME work'[c] = f PROVE StageInv(c)' /\ CallInv(c)' /\ AccountInv(c)'
    <3>1. StageInv(c)'
      BY <1>1, <1>6 DEF StageInv
    <3>2. CallInv(c)'
      <4>1. call'[c] = call[c] /\ (Live(c)' <=> Live(c))
        BY <1>1 DEF calm, callVars, Live
      <4>2. QED BY <1>1, <1>6, <4>1 DEF CallInv
    <3>3. AccountInv(c)'
      <4>1. ASSUME NEW u \in Viewers
            PROVE  /\ out'[c][u] \in {"published", "dropped"} => trace[c][u] # NoTrace
                   /\ out'[c][u] = "queued" /\ trace[c][u] # NoTrace =>
                        work[c].reason = "scheduler" \/ session = "stopped"
                   /\ trace[c][u] = "published" => out'[c][u] = "published"
                   /\ out'[c][u] = "published" /\ work[c].reason # "scheduler" /\ session = "live" => trace[c][u] = "published"
        <5>1. /\ out[c][u] \in {"published", "dropped"} => trace[c][u] # NoTrace
              /\ out[c][u] = "queued" /\ trace[c][u] # NoTrace =>
                   work[c].reason = "scheduler" \/ session = "stopped"
              /\ trace[c][u] = "published" => out[c][u] = "published"
              /\ out[c][u] = "published" /\ work[c].reason # "scheduler" /\ session = "live" => trace[c][u] = "published"
          BY <1>1 DEF AccountInv
        <5>2. out'[c][u] = IF u = v THEN "queued" ELSE out[c][u]
          BY <2>3
        <5>3. NoTrace # "published"
          BY DEF NoTrace
        <5>4. QED BY <1>3, <5>1, <5>2, <5>3
      <4>2. /\ \A u \in Viewers : report[c][u] = "none"
            /\ \A u \in work[c].items \ work[c].claimed : trace[c][u] # NoTrace
            /\ work[c].items \subseteq Viewers
        BY <1>1 DEF AccountInv, Asked, WorkOk
      <4>3. work'[c] = work[c] /\ trace' = trace /\ report' = report /\ session' = session
        BY <1>1, <1>6
      <4>4. QED BY <1>1, <4>1, <4>2, <4>3 DEF AccountInv, Early, Asked
    <3>4. QED BY <3>1, <3>2, <3>3
  <2>5. /\ trace' \in [Calls -> [Viewers -> Traces]] /\ \A d \in Calls \ {c} : trace'[d] = trace[d]
        /\ report' \in [Calls -> [Viewers -> Traces]] /\ \A d \in Calls \ {c} : report'[d] = report[d]
        /\ fence' \in Calls \cup {0} /\ pace' \in 0..RequestPace
    BY <1>1, <1>6, RestTyped
  <2>6. QED BY <1>1, <2>2, <2>3, <2>4, <2>5, SettleKeeps
<1>7. QED BY <1>2, <1>4, <1>5, <1>6 DEF Accept

---------------------------------------------------------------------------
(* Its lines.                                                              *)

\* A silence is committed, or came too late.
LEMMA CommitSilenceKeeps ==
  ASSUME DispatchInv, NEW c \in Batches, CommitSilence(c)
  PROVE  DispatchInv'
<1>1. /\ c \in Calls /\ AccountInv(c) /\ WorkOk(work[c]) /\ WorkShaped
      /\ work[c].at = "silence" /\ UNCHANGED <<session, fence, lane, pace, out, report, calm>>
  BY BatchFacts DEF CommitSilence
<1>2. Open(c) # {}
  BY <1>1 DEF AccountInv
<1>3. PICK v : v = Min(Open(c))
  OBVIOUS
<1>4. v \in Viewers /\ out[c][v] = "none"
  BY <1>2, <1>3, NextOpen
<1>5. PICK what : what = IF session = "live" /\ c \notin late THEN "silence"
                         ELSE IF c \in late THEN "expired" ELSE "stale"
  OBVIOUS
<1>6. /\ trace' = Traced(c, {v}, what) /\ Step(c, [work[c] EXCEPT !.at = "accept"])
  BY <1>3, <1>5 DEF CommitSilence
<1>7. what \in Traces \ {"none", "published"}
  BY <1>5 DEF Traces
<1>8. PICK a, x, f : a = "accept" /\ x = work[c] /\ f = [x EXCEPT !.at = a]
  OBVIOUS
<1>9. /\ IsWork(f) /\ f.at = a /\ f.slot = work[c].slot /\ f.reason = work[c].reason
      /\ f.sent = work[c].sent /\ f.tries = work[c].tries /\ f.items = work[c].items
      /\ f.claimed = work[c].claimed /\ work[c].at = "silence" /\ a = "accept"
  BY <1>1, <1>8 DEF WorkOk, IsWork
<1>10. Step(c, f) /\ a \in {"claim", "accept"}
  BY <1>6, <1>8
<1>11. UNCHANGED <<lane, report, out>> /\ UNCHANGED <<session, fence, pace, calm>>
  BY <1>1
<1>12. QED BY <1>4, <1>6, <1>7, <1>9, <1>10, <1>11, TraceKeeps

\* The slot is given back while the lines are with the output.
LEMMA DeliveryKeeps ==
  ASSUME DispatchInv, NEW c \in Batches, work[c].at = "accept", Open(c) = {},
         GiveBack(c, [work EXCEPT ![c].at = "delivery"]),
         UNCHANGED <<trace, report>>, UNCHANGED <<session, fence, pace, out, calm>>
  PROVE  DispatchInv'
<1>1. /\ c \in Calls /\ StageInv(c) /\ CallInv(c) /\ AccountInv(c) /\ WorkOk(work[c])
      /\ CallsShaped /\ WorkShaped /\ LaneInv /\ BatchesInv
      /\ CallsInv' /\ NoneBegins /\ UNCHANGED scenario
  BY BatchFacts, CallsCalm
<1>2. PICK x, f : x = work[c] /\ f = [x EXCEPT !.at = "delivery"]
  OBVIOUS
<1>3. PICK w : w = [work EXCEPT ![c] = f]
  OBVIOUS
<1>4. GiveBack(c, w)
  <2>1. work = [d \in Calls |-> work[d]]
    BY <1>1 DEF WorkShaped
  <2>2. w = [work EXCEPT ![c].at = "delivery"]
    BY <1>1, <1>2, <1>3, <2>1
  <2>3. QED BY <2>2
<1>5. /\ IsWork(f) /\ f.at = "delivery" /\ f.reason = x.reason /\ f.items = x.items /\ f.slot = x.slot
      /\ f.sent = x.sent /\ f.tries = x.tries /\ f.claimed = x.claimed
  BY <1>1, <1>2 DEF WorkOk, IsWork
<1>6. WorkOk(f)
  BY <1>1, <1>2, <1>5 DEF WorkOk
<1>7. /\ trace' \in [Calls -> [Viewers -> Traces]] /\ \A d \in Calls \ {c} : trace'[d] = trace[d]
      /\ report' \in [Calls -> [Viewers -> Traces]] /\ \A d \in Calls \ {c} : report'[d] = report[d]
      /\ session' \in {session, "stopped"} /\ fence' \in Calls \cup {0} /\ pace' \in 0..RequestPace
  BY RestTyped
<1>8. /\ Turns(c) /\ LaneInv' /\ lane' = [active |-> lane'.active, eligible |-> lane'.eligible]
      /\ work'[c] = [f EXCEPT !.slot = "none"]
  <2>1. f.slot = work[c].slot /\ UNCHANGED out
    BY <1>2, <1>5
  <2>2. QED BY <1>1, <1>3, <1>4, <1>6, <1>7, <2>1, GiveBackTurns
<1>9. /\ work'[c].at = "delivery" /\ work'[c].slot = "none" /\ work'[c].reason = x.reason
      /\ work'[c].items = x.items /\ work'[c].claimed = x.claimed
      /\ work'[c].sent = x.sent /\ work'[c].tries = x.tries
  BY <1>5, <1>8 DEF IsWork
<1>10. StageInv(c)'
  BY <1>1, <1>2, <1>9 DEF StageInv, Early
<1>11. CallInv(c)'
  BY <1>1, <1>2, <1>9 DEF CallInv, NoneBegins
<1>12. AccountInv(c)'
  <2>1. \A v \in x.claimed : trace[c][v] # NoTrace \/ out[c][v] # "none"
    BY <1>2 DEF Open
  <2>2. /\ \A v \in Viewers : report[c][v] = "none"
        /\ \A v \in x.items \ x.claimed : trace[c][v] # NoTrace
        /\ x.items \subseteq Viewers
    BY <1>1, <1>2 DEF AccountInv, Asked, WorkOk
  <2>3. QED BY <1>1, <1>2, <1>9, <2>1, <2>2 DEF AccountInv, Early, Asked
<1>13. \A d \in Calls \ {c} : call'[d].round = call[d].round /\ (Live(d)' => Live(d))
  BY <1>1 DEF NoneBegins
<1>14. WorkShaped' /\ BatchesInv'
  BY <1>1, <1>7, <1>8, <1>10, <1>11, <1>12, <1>13, TurnKeeps
<1>15. QED BY <1>1, <1>8, <1>14 DEF DispatchInv

\* Every viewer's part was looked at: the batch gives its slot back.
LEMMA AllAcceptedKeeps ==
  ASSUME DispatchInv, NEW c \in Batches, AllAccepted(c)
  PROVE  DispatchInv'
<1>1. /\ work[c].at = "accept" /\ Open(c) = {} /\ AccountInv(c) /\ WorkOk(work[c])
      /\ UNCHANGED <<session, fence, pace, out, calm>>
  BY BatchFacts DEF AllAccepted
<1>2. CASE GiveBack(c, [work EXCEPT ![c].at = "delivery"]) /\ UNCHANGED <<trace, report>>
  BY <1>1, <1>2, DeliveryKeeps
<1>3. CASE Conclude(c, NoTrace) /\ ~(\E v \in Viewers : out[c][v] # "none")
  <2>1. PICK what : what = NoTrace
    OBVIOUS
  <2>2. what \in Traces \ {"published"} /\ Conclude(c, what) /\ work[c].at # "returned"
    BY <1>1, <1>3, <2>1 DEF Traces, NoTrace
  <2>3. /\ \A v \in Viewers : out[c][v] # "queued"
        /\ \A v \in work[c].items \ work[c].claimed : trace[c][v] # NoTrace
    BY <1>1, <1>3 DEF AccountInv, Asked
  <2>4. \A v \in work[c].claimed : trace[c][v] # NoTrace
    BY <1>1, <1>3 DEF Open, WorkOk
  <2>5. QED BY <1>1, <2>2, <2>3, <2>4, ConcludeCalm
<1>4. QED BY <1>2, <1>3 DEF AllAccepted

\* What was handed over and is not with the output any more has its trace.
LEMMA HandedOver ==
  ASSUME DispatchInv, NEW c \in Batches, work[c].at = "delivery"
  PROVE  /\ \A v \in work[c].claimed : trace[c][v] # NoTrace \/ out[c][v] = "queued"
         /\ \A v \in work[c].items \ work[c].claimed : trace[c][v] # NoTrace
<1>1. /\ c \in Calls /\ AccountInv(c) /\ WorkOk(work[c])
  BY BatchFacts
<1>2. \A v \in work[c].items \ work[c].claimed : trace[c][v] # NoTrace
  BY <1>1 DEF AccountInv, Asked
<1>3. ASSUME NEW v \in work[c].claimed PROVE trace[c][v] # NoTrace \/ out[c][v] = "queued"
  <2>1. v \in Viewers /\ out[c][v] \in {"none", "queued", "published", "dropped"}
    BY <1>1, RestTyped DEF WorkOk
  <2>2. /\ trace[c][v] # NoTrace \/ out[c][v] # "none"
        /\ out[c][v] \in {"published", "dropped"} => trace[c][v] # NoTrace
    BY <1>1, <2>1 DEF AccountInv
  <2>3. QED BY <2>1, <2>2
<1>4. QED BY <1>2, <1>3

\* The output is done with all lines of the batch.
LEMMA DeliveredKeeps ==
  ASSUME DispatchInv, NEW c \in Batches, Delivered(c)
  PROVE  DispatchInv'
<1>1. /\ work[c].at = "delivery" /\ \A v \in Viewers : out[c][v] # "queued"
      /\ Conclude(c, NoTrace) /\ WorkOk(work[c])
      /\ UNCHANGED <<session, fence, pace, out, calm>>
  BY BatchFacts DEF Delivered
<1>2. /\ \A v \in work[c].claimed : trace[c][v] # NoTrace \/ out[c][v] = "queued"
      /\ \A v \in work[c].items \ work[c].claimed : trace[c][v] # NoTrace
  BY <1>1, HandedOver
<1>3. \A v \in work[c].claimed : trace[c][v] # NoTrace
  BY <1>1, <1>2 DEF WorkOk
<1>4. PICK what : what = NoTrace
  OBVIOUS
<1>5. what \in Traces \ {"published"} /\ Conclude(c, what) /\ work[c].at # "returned"
  BY <1>1, <1>4 DEF Traces, NoTrace
<1>6. QED BY <1>1, <1>2, <1>3, <1>5, ConcludeCalm

\* The output publishes or drops a viewer's lines.
LEMMA OutputKeeps ==
  ASSUME DispatchInv, NEW c \in Batches, NEW v \in Viewers, Output(c, v)
  PROVE  DispatchInv'
<1>1. /\ c \in Calls /\ StageInv(c) /\ CallInv(c) /\ AccountInv(c) /\ WorkOk(work[c]) /\ WorkShaped
      /\ out[c][v] = "queued" /\ UNCHANGED <<session, fence, lane, pace, work, report, calm>>
  BY BatchFacts DEF Output
<1>2. PICK o, what : /\ out' = [out EXCEPT ![c][v] = o] /\ trace' = Traced(c, {v}, what)
                     /\ \/ o = "published" /\ what = "published" /\ session = "live"
                        \/ o = "published" /\ what = "cancelled" /\ session # "live"
                        \/ o = "dropped" /\ what = "cancelled"
  BY DEF Output
<1>3. PICK f : f = work[c]
  OBVIOUS
<1>4. Step(c, f) /\ f.slot = work[c].slot /\ WorkOk(f)
  BY <1>1, <1>3 DEF Step, WorkShaped
<1>5. /\ out' \in [Calls -> [Viewers -> {"none", "queued", "published", "dropped"}]]
      /\ \A d \in Calls \ {c} : out'[d] = out[d]
      /\ \A u \in Viewers : out'[c][u] = IF u = v THEN o ELSE out[c][u]
  <2>1. out \in [Calls -> [Viewers -> {"none", "queued", "published", "dropped"}]]
    BY RestTyped
  <2>2. PICK row : row = [out[c] EXCEPT ![v] = o]
    OBVIOUS
  <2>3. out' = [out EXCEPT ![c] = row]
    BY <1>2, <2>2
  <2>4. /\ row \in [Viewers -> {"none", "queued", "published", "dropped"}]
        /\ \A u \in Viewers : row[u] = IF u = v THEN o ELSE out[c][u]
    BY <1>1, <1>2, <2>1, <2>2
  <2>5. /\ out' \in [Calls -> [Viewers -> {"none", "queued", "published", "dropped"}]]
        /\ out'[c] = row /\ \A d \in Calls \ {c} : out'[d] = out[d]
    BY <1>1, <2>1, <2>3, <2>4
  <2>6. QED BY <2>4, <2>5
<1>6. /\ trace' \in [Calls -> [Viewers -> Traces]]
      /\ \A d \in Calls \ {c} : trace'[d] = trace[d]
      /\ \A u \in Viewers : trace'[c][u] = IF u = v /\ trace[c][u] = NoTrace THEN what ELSE trace[c][u]
  <2>1. PICK S : S = {v}
    OBVIOUS
  <2>2. what \in Traces /\ trace' = Traced(c, S, what)
    BY <1>2, <2>1 DEF Traces
  <2>3. /\ trace' \in [Calls -> [Viewers -> Traces]]
        /\ \A d \in Calls \ {c} : trace'[d] = trace[d]
        /\ \A u \in Viewers : trace'[c][u] = IF u \in S /\ trace[c][u] = NoTrace THEN what ELSE trace[c][u]
    BY <1>1, <2>2, TracedFacts
  <2>4. QED BY <2>1, <2>3
<1>7. ASSUME work'[c] = f PROVE StageInv(c)' /\ CallInv(c)' /\ AccountInv(c)'
  <2>1. StageInv(c)'
    BY <1>1 DEF StageInv
  <2>2. CallInv(c)'
    <3>1. call'[c] = call[c] /\ (Live(c)' <=> Live(c))
      BY <1>1 DEF calm, callVars, Live
    <3>2. QED BY <1>1, <3>1 DEF CallInv
  <2>3. AccountInv(c)'
    <3>0. /\ work' = work /\ report' = report /\ session' = session
          /\ work[c].items \subseteq Viewers /\ work[c].claimed \subseteq work[c].items
          /\ work[c].at \in {"accept", "silence", "delivery", "returned"}
      BY <1>1 DEF AccountInv, WorkOk
    <3>1. ASSUME NEW u \in Viewers
          PROVE  /\ out'[c][u] \in {"published", "dropped"} => trace'[c][u] # NoTrace
                 /\ out'[c][u] = "queued" /\ trace'[c][u] # NoTrace =>
                      work[c].reason = "scheduler" \/ session = "stopped"
                 /\ trace'[c][u] = "published" => out'[c][u] = "published"
                 /\ out'[c][u] = "published" /\ work[c].reason # "scheduler" /\ session = "live" => trace'[c][u] = "published"
                 /\ trace[c][u] # NoTrace => trace'[c][u] = trace[c][u]
                 /\ out[c][u] # "none" => out'[c][u] # "none"
                 /\ u # v => out'[c][u] = out[c][u] /\ trace'[c][u] = trace[c][u]
                 /\ trace[c][u] # NoTrace \/ out[c][u] = "queued" =>
                      trace'[c][u] # NoTrace \/ out'[c][u] = "queued"
      <4>1. /\ out[c][u] \in {"published", "dropped"} => trace[c][u] # NoTrace
            /\ out[c][u] = "queued" /\ trace[c][u] # NoTrace =>
                 work[c].reason = "scheduler" \/ session = "stopped"
            /\ trace[c][u] = "published" => out[c][u] = "published"
            /\ out[c][u] = "published" /\ work[c].reason # "scheduler" /\ session = "live" => trace[c][u] = "published"
        BY <1>1 DEF AccountInv
      <4>2. /\ out'[c][u] = IF u = v THEN o ELSE out[c][u]
            /\ trace'[c][u] = IF u = v /\ trace[c][u] = NoTrace THEN what ELSE trace[c][u]
        BY <1>5, <1>6
      <4>3. NoTrace \notin {"published", "cancelled"}
        BY DEF NoTrace
      <4>4. CASE u # v
        BY <4>1, <4>2, <4>4
      <4>5. CASE u = v
        BY <1>1, <1>2, <4>1, <4>2, <4>3, <4>5
      <4>6. QED BY <4>4, <4>5
    <3>2. \A u \in work[c].items : report[c][u] \in {"none", trace'[c][u]}
      <4>1. TAKE u \in work[c].items
      <4>2. report[c][u] \in {"none", trace[c][u]} /\ u \in Viewers
        BY <1>1, <3>0 DEF AccountInv
      <4>3. QED BY <3>1, <4>2 DEF NoTrace
    <3>3. Open(c) # {} => Open(c)' # {}
      <4>1. \A u \in Open(c) : u \in Viewers /\ u # v
        BY <1>1, <3>0 DEF Open
      <4>2. \A u \in Open(c) : u \in Open(c)'
        BY <3>0, <3>1, <4>1 DEF Open
      <4>3. QED BY <4>2
    <3>4. /\ work[c].at \in Asked => \A u \in work[c].items \ work[c].claimed : trace'[c][u] # NoTrace
          /\ work[c].at = "delivery" =>
               \A u \in work[c].claimed : trace'[c][u] # NoTrace \/ out'[c][u] # "none"
          /\ work[c].at = "returned" =>
               \A u \in work[c].items : trace'[c][u] # NoTrace \/ out'[c][u] = "queued"
      BY <1>1, <3>0, <3>1 DEF AccountInv
    <3>5. /\ work[c].at \in Early => work[c].items = {}
          /\ work[c].at # "returned" => \A u \in Viewers : report[c][u] = "none"
          /\ work[c].at = "silence" => Open(c) # {}
      BY <1>1 DEF AccountInv
    <3>6. QED BY <3>0, <3>1, <3>2, <3>3, <3>4, <3>5 DEF AccountInv
  <2>4. QED BY <2>1, <2>2, <2>3
<1>8. /\ report' \in [Calls -> [Viewers -> Traces]] /\ \A d \in Calls \ {c} : report'[d] = report[d]
      /\ fence' \in Calls \cup {0} /\ pace' \in 0..RequestPace
  BY <1>1, RestTyped
<1>9. QED BY <1>1, <1>4, <1>5, <1>6, <1>7, <1>8, SettleKeeps

---------------------------------------------------------------------------
(* Steps that touch its call.                                              *)

\* A batch that tells its call to stop leaves the call where it is.
LEMMA DoomedFacts ==
  ASSUME DispatchInv, NEW c \in Batches, call' = Doomed(c),
         UNCHANGED <<scenario, gate, log, budget, http, late, up>>
  PROVE  CallsInv' /\ NoneBegins
<1>1. /\ CallsInv /\ c \in Calls /\ CallsShaped
  BY BatchFacts DEF DispatchInv
<1>2. PICK b : b = Live(c)
  OBVIOUS
<1>3. call' = [call EXCEPT ![c].doomed = b]
  BY <1>2 DEF Doomed
<1>4. CallsInv'
  BY <1>1, <1>3, DoomedKeeps
<1>5. call = [d \in Calls |-> call[d]] /\ \A d \in Calls : IsCall(call[d])
  BY <1>1 DEF CallsShaped
<1>6. \A d \in Calls : call'[d].at = call[d].at /\ call'[d].round = call[d].round
  <2>1. TAKE d \in Calls
  <2>2. CASE d # c
    BY <1>1, <1>3, <1>5, <2>2
  <2>3. CASE d = c
    <3>1. PICK x : x = call[c]
      OBVIOUS
    <3>2. call'[c] = [x EXCEPT !.doomed = b] /\ IsCall(x)
      BY <1>1, <1>3, <1>5, <3>1
    <3>3. QED BY <2>3, <3>1, <3>2 DEF IsCall
  <2>4. QED BY <2>2, <2>3
<1>7. NoneBegins
  BY <1>6 DEF NoneBegins, Live
<1>8. QED BY <1>4, <1>7

\* The provider is asked: the batch's tries and its call's rounds go on together.
LEMMA StartAttemptKeeps ==
  ASSUME DispatchInv, NEW c \in Batches, StartAttempt(c)
  PROVE  DispatchInv'
<1>1. /\ c \in Calls /\ StageInv(c) /\ CallInv(c) /\ AccountInv(c) /\ WorkOk(work[c])
      /\ CallsShaped /\ WorkShaped /\ LaneInv /\ BatchesInv /\ CallsInv /\ work[c].at = "turn"
      /\ UNCHANGED <<session, fence, lane, trace, out, report, scenario, late, up>>
  BY BatchFacts DEF StartAttempt, DispatchInv
<1>2. c \in Known /\ Kind(c) = "batch" /\ ~Live(c)
  BY <1>1 DEF Batches, CallInv
<1>3. CallsInv'
  BY <1>1, <1>2, InvokedKeeps DEF StartAttempt
<1>4. PICK x, f : x = work[c] /\ f = [x EXCEPT !.at = "attempt", !.sent = TRUE, !.tries = @ + 1]
  OBVIOUS
<1>5. /\ IsWork(x) /\ x.slot \in {"none", "queued", "held"} /\ x.slot # "queued" /\ x.tries \in 0..1
      /\ x.items \subseteq Viewers /\ x.claimed \subseteq x.items /\ x.at = "turn"
      /\ call[c].round = x.tries /\ (session = "live" => x.reason = "none")
  BY <1>1, <1>4 DEF WorkOk, StageInv, CallInv
<1>6. /\ IsWork(f) /\ f.at = "attempt" /\ f.reason = x.reason /\ f.items = x.items /\ f.slot = x.slot
      /\ f.sent /\ f.sent \in BOOLEAN /\ f.tries = x.tries + 1 /\ f.claimed = x.claimed
  BY <1>4, <1>5 DEF IsWork
<1>7. WorkOk(f)
  <2>1. f.tries \in 0..2 /\ f.items \subseteq Viewers /\ f.claimed \subseteq f.items
    BY <1>5, <1>6
  <2>2. QED BY <1>5, <1>6, <2>1 DEF WorkOk, Holding
<1>8. /\ trace' \in [Calls -> [Viewers -> Traces]] /\ \A d \in Calls \ {c} : trace'[d] = trace[d]
      /\ report' \in [Calls -> [Viewers -> Traces]] /\ \A d \in Calls \ {c} : report'[d] = report[d]
      /\ out' \in [Calls -> [Viewers -> {"none", "queued", "published", "dropped"}]]
      /\ \A d \in Calls \ {c} : out'[d] = out[d]
      /\ session' \in {session, "stopped"} /\ fence' \in Calls \cup {0}
  BY <1>1, RestTyped
<1>9. /\ Turns(c) /\ LaneInv' /\ work'[c] = f
      /\ lane' = [active |-> lane'.active, eligible |-> lane'.eligible]
  <2>1. Step(c, f) /\ f.slot = work[c].slot
    BY <1>4, <1>6 DEF StartAttempt
  <2>2. QED BY <1>1, <1>7, <1>8, <2>1, StepFacts
<1>10. call'[c].round = call[c].round + 1 /\ \A d \in Calls \ {c} : call'[d] = call[d]
  <2>1. PICK n, y : n = call[c].round + 1 /\ y = [NoCall EXCEPT !.at = "prepare", !.round = n]
    OBVIOUS
  <2>2. call = [d \in Calls |-> call[d]] /\ call' = [call EXCEPT ![c] = y]
    BY <1>1, <2>1 DEF StartAttempt, Invoked, CallsShaped
  <2>3. call'[c] = y /\ \A d \in Calls \ {c} : call'[d] = call[d]
    BY <1>1, <2>2
  <2>4. y.round = n
    BY <2>1 DEF NoCall
  <2>5. QED BY <2>1, <2>3, <2>4
<1>11. StageInv(c)'
  BY <1>1, <1>5, <1>6, <1>9 DEF StageInv, Early, Holding
<1>12. CallInv(c)'
  BY <1>5, <1>6, <1>9, <1>10 DEF CallInv
<1>13. AccountInv(c)'
  <2>1. /\ \A v \in Viewers : out[c][v] = "none" /\ report[c][v] = "none" /\ trace[c][v] # "published"
        /\ \A v \in x.items \ x.claimed : trace[c][v] # NoTrace
    BY <1>1, <1>4 DEF AccountInv, Asked
  <2>2. QED BY <1>1, <1>5, <1>6, <1>9, <2>1 DEF AccountInv, Early, Asked
<1>14. pace' \in 0..RequestPace
  BY LaneAssumption DEF StartAttempt
<1>15. \A d \in Calls \ {c} : call'[d].round = call[d].round /\ (Live(d)' => Live(d))
  BY <1>10 DEF Live
<1>16. WorkShaped' /\ BatchesInv'
  BY <1>1, <1>8, <1>9, <1>11, <1>12, <1>13, <1>14, <1>15, TurnKeeps
<1>17. QED BY <1>3, <1>9, <1>16 DEF DispatchInv

\* The batch does not wait for the provider any more.
LEMMA AttemptGivenUpKeeps ==
  ASSUME DispatchInv, NEW c \in Batches, AttemptGivenUp(c)
  PROVE  DispatchInv' /\ NoneBegins
<1>1. /\ work[c].at = "attempt" /\ call' = Doomed(c)
      /\ UNCHANGED <<session, fence, pace, out, scenario, gate, log, budget, http, late, up>>
      /\ CallsShaped /\ WorkShaped /\ LaneInv /\ BatchesInv
  BY BatchFacts DEF AttemptGivenUp
<1>2. CallsInv' /\ NoneBegins
  BY <1>1, DoomedFacts
<1>3. /\ work[c].at # "returned" /\ \A v \in Viewers : out[c][v] # "queued"
      /\ \A v \in work[c].items \ work[c].claimed : trace[c][v] # NoTrace
  BY <1>1, AskedFacts
<1>4. CASE InterruptBatch(c, "superseded")
  <2>1. WorkShaped' /\ LaneInv' /\ BatchesInv'
    BY <1>1, <1>2, <1>3, <1>4, InterruptKeeps
  <2>2. QED BY <1>2, <2>1 DEF DispatchInv
<1>5. CASE Conclude(c, "expired")
  <2>1. PICK what : what = "expired"
    OBVIOUS
  <2>2. what \in Traces \ {"published"} /\ what # NoTrace /\ Conclude(c, what)
    BY <1>5, <2>1 DEF Traces, NoTrace
  <2>3. WorkShaped' /\ LaneInv' /\ BatchesInv'
    BY <1>1, <1>2, <1>3, <2>2, ConcludeKeeps
  <2>4. QED BY <1>2, <2>3 DEF DispatchInv
<1>6. QED BY <1>4, <1>5 DEF AttemptGivenUp

\* The scheduler cancels the batch; lines that are with the output stay there.
LEMMA CancelKeeps ==
  ASSUME DispatchInv, NEW c \in Batches, Cancel(c)
  PROVE  DispatchInv' /\ NoneBegins
<1>1. /\ work[c].at \notin {"new", "admit", "silence", "returned"}
      /\ UNCHANGED <<session, fence, pace, out, scenario, gate, log, budget, http, late, up>>
      /\ c \in Calls /\ CallsShaped /\ WorkShaped /\ LaneInv /\ BatchesInv
      /\ StageInv(c) /\ CallInv(c) /\ WorkOk(work[c])
  BY BatchFacts DEF Cancel
<1>2. CASE work[c].at = "delivery"
  <2>1. PICK a : a = "returned"
    OBVIOUS
  <2>2. /\ Step(c, [work[c] EXCEPT !.at = a]) /\ UNCHANGED <<lane, report, trace, out>>
        /\ UNCHANGED <<session, fence, pace, calm>>
    BY <1>1, <1>2, <2>1 DEF Cancel, calm, callVars
  <2>3. /\ work[c].at \in Holding \cup {"delivery"} /\ ~Live(c) /\ work[c].slot = "none"
        /\ a \in {"turn", "backoff", "accept", "silence", "returned"}
        /\ a \notin {"turn", "backoff", "accept", "silence"}
    BY <1>1, <1>2, <2>1 DEF CallInv, StageInv, WorkOk, Holding
  <2>4. /\ \A v \in work[c].claimed : trace[c][v] # NoTrace \/ out[c][v] = "queued"
        /\ \A v \in work[c].items \ work[c].claimed : trace[c][v] # NoTrace
    BY <1>2, HandedOver
  <2>5. DispatchInv'
    BY <2>2, <2>3, <2>4, AdvanceCalm
  <2>6. NoneBegins
    BY <2>2, CallsCalm
  <2>7. QED BY <2>5, <2>6
<1>3. CASE work[c].at # "delivery"
  <2>1. PICK why : why = "scheduler"
    OBVIOUS
  <2>2. InterruptBatch(c, why) /\ call' = Doomed(c)
    BY <1>3, <2>1 DEF Cancel
  <2>3. CallsInv' /\ NoneBegins
    BY <1>1, <2>2, DoomedFacts
  <2>4. WorkShaped' /\ LaneInv' /\ BatchesInv'
    BY <1>1, <2>1, <2>2, <2>3, InterruptKeeps
  <2>5. QED BY <2>3, <2>4 DEF DispatchInv
<1>4. QED BY <1>2, <1>3

---------------------------------------------------------------------------
(* What the calls do, and time.                                            *)

\* What leaves the batches' books alone, and starts none of their calls, keeps them.
LEMMA BooksRest ==
  ASSUME DispatchInv, UNCHANGED <<scenario, session, fence, lane, work, trace, out, report>>,
         pace' \in 0..RequestPace, CallsInv',
         \A d \in Batches : call'[d].round = call[d].round /\ (Live(d)' => Live(d))
  PROVE  DispatchInv'
<1>1. CallsShaped /\ WorkShaped /\ LaneInv /\ BatchesInv
  BY DEF DispatchInv, CallsInv
<1>2. Batches' = Batches
  BY DEF Batches, Known, Kind
<1>3. WorkShaped'
  BY <1>1, <1>2 DEF WorkShaped
<1>4. LaneInv'
  BY <1>1, LaneStays
<1>5. ASSUME NEW d \in Batches PROVE StageInv(d)' /\ CallInv(d)' /\ AccountInv(d)'
  <2>1. StageInv(d) /\ CallInv(d) /\ AccountInv(d)
    BY <1>1 DEF BatchesInv
  <2>2. StageInv(d)'
    BY <2>1 DEF StageInv
  <2>3. CallInv(d)'
    BY <2>1 DEF CallInv
  <2>4. Open(d)' = Open(d)
    BY DEF Open
  <2>5. AccountInv(d)'
    BY <2>1, <2>4 DEF AccountInv
  <2>6. QED BY <2>2, <2>3, <2>5
<1>6. BatchesInv'
  BY <1>2, <1>5 DEF BatchesInv
<1>7. QED BY <1>3, <1>4, <1>6 DEF DispatchInv

\* Whatever a call does by itself, it is at work and moves within its invocation.
LEMMA ServeMoves ==
  ASSUME CallsShaped, NEW c \in Calls, Serve(c)
  PROVE  Live(c) /\ Moves(c)
<1>0. /\ call = [d \in Calls |-> call[d]] /\ IsCall(call[c]) /\ call[c].retryable \in BOOLEAN
  BY DEF CallsShaped
<1>1. CASE PrepareFails(c)
  <2>1. PICK s \in {"failed", "blocked"} : End(c, gate, <<s>>, FALSE)
    BY <1>1 DEF PrepareFails
  <2>2. QED BY <1>1, <2>1, EndFacts DEF PrepareFails, Live, Waiting
<1>2. CASE Prepared(c)
  <2>1. Live(c)
    BY <1>2 DEF Prepared, Live, Waiting
  <2>2. CASE call' = [call EXCEPT ![c].at = "slot"]
    <3>1. /\ call' = [d \in Calls |-> call'[d]] /\ \A d \in Calls \ {c} : call'[d] = call[d]
          /\ call'[c] = [call[c] EXCEPT !.at = "slot"]
      BY <1>0, <2>2
    <3>2. IsCall(call'[c]) /\ call'[c].round = call[c].round /\ call'[c].retryable = call[c].retryable
      BY <1>0, <3>1 DEF IsCall
    <3>3. QED BY <1>0, <2>1, <3>1, <3>2 DEF Moves
  <2>3. CASE Start(c, Look(Join(gate, c), c), Spent(c), <<>>)
    BY <2>1, <2>3, StartFacts
  <2>4. CASE End(c, gate, <<"failed">>, FALSE)
    BY <2>1, <2>4, EndFacts
  <2>5. QED BY <1>2, <2>2, <2>3, <2>4 DEF Prepared
<1>3. CASE TakeSlot(c)
  BY <1>3, StartFacts DEF TakeSlot, Live, Waiting
<1>4. CASE LookAgain(c)
  BY <1>4, StartFacts DEF LookAgain, Live, Waiting
<1>5. CASE AnswerGood(c)
  BY <1>5, EndFacts DEF AnswerGood, Answering, Live, Waiting
<1>6. CASE AnswerMissing(c)
  <2>1. PICK said : End(c, Release(gate, c), said \o <<"failed">>, TRUE)
    BY <1>6 DEF AnswerMissing
  <2>2. QED BY <1>6, <2>1, EndFacts DEF AnswerMissing, Answering, Live, Waiting
<1>7. CASE AnswerLimited(c)
  <2>1. PICK r : End(c, Release(Defer(gate, r), c), <<"received", "failed">>, TRUE)
    BY <1>7 DEF AnswerLimited
  <2>2. QED BY <1>7, <2>1, EndFacts DEF AnswerLimited, Answering, Live, Waiting
<1>8. CASE AnswerUseless(c)
  <2>1. PICK g : End(c, Release(g, c), <<"received", "failed">>, FALSE)
    BY <1>8 DEF AnswerUseless
  <2>2. QED BY <1>8, <2>1, EndFacts DEF AnswerUseless, Answering, Live, Waiting
<1>9. CASE AnswerNoJsonMode(c)
  <2>1. call' = [call EXCEPT ![c].plain = TRUE] /\ Live(c)
    BY <1>9 DEF AnswerNoJsonMode, Answering, Live, Waiting
  <2>2. /\ call' = [d \in Calls |-> call'[d]] /\ \A d \in Calls \ {c} : call'[d] = call[d]
        /\ call'[c] = [call[c] EXCEPT !.plain = TRUE]
    BY <1>0, <2>1
  <2>3. IsCall(call'[c]) /\ call'[c].round = call[c].round /\ call'[c].retryable = call[c].retryable
    BY <1>0, <2>2 DEF IsCall
  <2>4. QED BY <1>0, <2>1, <2>2, <2>3 DEF Moves
<1>10. CASE AnswerBroken(c)
  <2>1. Live(c)
    BY <1>10 DEF AnswerBroken, Answering, Live, Waiting
  <2>2. CASE Repair(c)
    BY <2>1, <2>2, StartFacts DEF Repair
  <2>3. CASE End(c, Release(Praise(gate, c), c), <<"received", "failed">>, FALSE)
    BY <2>1, <2>3, EndFacts
  <2>4. QED BY <1>10, <2>2, <2>3 DEF AnswerBroken
<1>11. CASE Unwind(c)
  BY <1>11, EndFacts DEF Unwind
<1>12. QED
  BY <1>1, <1>2, <1>3, <1>4, <1>5, <1>6, <1>7, <1>8, <1>9, <1>10, <1>11 DEF Serve

\* What a call does keeps the batches' books: only a batch asks for itself.
LEMMA CallStepRest ==
  ASSUME DispatchInv, NEW c \in Known, CallStep(c), UNCHANGED batchVars
  PROVE  /\ DispatchInv'
         /\ \A d \in Batches : call'[d].round = call[d].round /\ (Live(d)' => Live(d))
<1>1. CallsInv /\ CallsShaped /\ c \in Calls /\ Batches \subseteq Calls
  BY KnownAreCalls DEF DispatchInv, CallsInv
<1>2. CallsInv'
  BY <1>1, CallStepKeeps
<1>3. /\ UNCHANGED <<session, fence, lane, work, trace, out, report>> /\ pace' \in 0..RequestPace
  BY RestTyped DEF batchVars
<1>4. UNCHANGED scenario
  BY DEF CallStep, Serve, PrepareFails, Prepared, TakeSlot, LookAgain, AnswerGood, AnswerMissing,
         AnswerLimited, AnswerUseless, AnswerNoJsonMode, AnswerBroken, Unwind, Invoke, NoteOutput,
         Abandon, Expire
<1>5. \A d \in Batches : call'[d].round = call[d].round /\ (Live(d)' => Live(d))
  <2>0. call = [d \in Calls |-> call[d]]
    BY <1>1 DEF CallsShaped
  <2>1. CASE Serve(c)
    <3>1. Live(c) /\ Moves(c)
      BY <1>1, <2>1, ServeMoves
    <3>2. QED BY <1>1, <3>1 DEF Moves, Live
  <2>2. CASE Kind(c) # "batch" /\ \A d \in Calls \ {c} : call'[d] = call[d]
    BY <1>1, <2>2 DEF Batches, Live
  <2>3. CASE Invoke(c)
    <3>1. PICK y : call' = [call EXCEPT ![c] = y]
      BY <2>3 DEF Invoke, Invoked
    <3>2. Kind(c) # "batch" /\ \A d \in Calls \ {c} : call'[d] = call[d]
      BY <2>0, <2>3, <3>1 DEF Invoke
    <3>3. QED BY <2>2, <3>2
  <2>4. CASE Abandon(c)
    <3>1. Kind(c) # "batch" /\ call' = [call EXCEPT ![c].doomed = TRUE]
      BY <2>4 DEF Abandon
    <3>2. \A d \in Calls \ {c} : call'[d] = call[d]
      BY <2>0, <3>1
    <3>3. QED BY <2>2, <3>1, <3>2
  <2>5. CASE call' = call
    BY <2>5 DEF Live
  <2>6. QED BY <2>1, <2>3, <2>4, <2>5 DEF CallStep, NoteOutput, Expire, callVars
<1>6. QED BY <1>2, <1>3, <1>4, <1>5, BooksRest

\* The end of the process ends every call of it.
LEMMA CrashRest ==
  ASSUME DispatchInv, Crash \/ Restart, UNCHANGED batchVars
  PROVE  /\ DispatchInv'
         /\ \A d \in Batches : call'[d].round = call[d].round /\ (Live(d)' => Live(d))
<1>1. CallsInv /\ CallsShaped /\ Batches \subseteq Calls
  BY KnownAreCalls DEF DispatchInv, CallsInv
<1>2. CallsInv'
  BY <1>1, CrashKeeps, RestartKeeps
<1>3. /\ UNCHANGED <<session, fence, lane, work, trace, out, report>> /\ pace' \in 0..RequestPace
  BY RestTyped DEF batchVars
<1>4. UNCHANGED scenario
  BY DEF Crash, Restart
<1>5. \A d \in Batches : call'[d].round = call[d].round /\ (Live(d)' => Live(d))
  <2>1. CASE Restart
    BY <2>1 DEF Restart, Live
  <2>2. CASE Crash
    <3>1. TAKE d \in Batches
    <3>2. d \in Calls /\ IsCall(call[d])
      BY <1>1 DEF CallsShaped
    <3>3. PICK x, a : x = call[d] /\ a = IF Live(d) THEN "lost" ELSE IF x.at = "ended" THEN "past" ELSE x.at
      OBVIOUS
    <3>4. call'[d] = [x EXCEPT !.at = a, !.retryable = FALSE, !.doomed = FALSE]
      BY <2>2, <3>2, <3>3 DEF Crash
    <3>5. call'[d].at = a /\ call'[d].round = x.round
      BY <3>2, <3>3, <3>4 DEF IsCall
    <3>6. QED BY <3>3, <3>5 DEF Live, Waiting
  <2>3. QED BY <2>1, <2>2
<1>6. QED BY <1>2, <1>3, <1>4, <1>5, BooksRest

\* Time passes at the gate and between a session's requests.
LEMMA TimePassesKeeps ==
  ASSUME DispatchInv, TimePasses
  PROVE  DispatchInv' /\ NoneBegins
<1>1. /\ gate' = Later(gate) /\ pace' = Before(pace)
      /\ UNCHANGED <<scenario, call, budget, late, http, up>>
      /\ UNCHANGED <<scenario, session, fence, lane, work, trace, out, report>>
  BY DEF TimePasses
<1>2. CallsInv /\ CallsShaped /\ Fits(gate, AtLine, AtServer)
  BY DEF DispatchInv, CallsInv
<1>3. Fits(gate', AtLine, AtServer)
  BY <1>1, <1>2, LaterFacts
<1>4. up' \in BOOLEAN
  BY <1>1, <1>2 DEF CallsShaped
<1>5. CallsInv'
  BY <1>1, <1>2, <1>3, <1>4, CalmKeeps
<1>6. NoneBegins
  BY <1>1 DEF NoneBegins, Live
<1>7. \A d \in Batches : call'[d].round = call[d].round /\ (Live(d)' => Live(d))
  BY <1>1 DEF Live
<1>8. pace' \in 0..RequestPace
  BY <1>1, RestTyped, LaneAssumption DEF Before
<1>9. QED BY <1>1, <1>5, <1>6, <1>7, <1>8, BooksRest

---------------------------------------------------------------------------
(* The end of the session.                                                 *)

\* What the end of the session does to the work of one batch.
LEMMA StruckFacts ==
  ASSUME NEW x, WorkOk(x), NEW f, f = Struck(x)
  PROVE  /\ WorkOk(f) /\ f.reason = "stopped" /\ f.sent = x.sent /\ f.tries = x.tries
         /\ f.items = x.items /\ f.claimed = x.claimed
         /\ f.at = IF x.at = "waiting" THEN "ready" ELSE x.at
         /\ f.slot = IF x.slot = "queued" THEN "none" ELSE x.slot
<1>1. PICK a, s : /\ a = IF x.at = "waiting" THEN "ready" ELSE x.at
                  /\ s = IF x.slot = "queued" THEN "none" ELSE x.slot
  OBVIOUS
<1>2. IsWork(x) /\ f = [x EXCEPT !.reason = "stopped", !.at = a, !.slot = s]
  BY <1>1 DEF WorkOk, Struck
<1>3. /\ IsWork(f) /\ f.reason = "stopped" /\ f.sent = x.sent /\ f.tries = x.tries
      /\ f.items = x.items /\ f.claimed = x.claimed /\ f.at = a /\ f.slot = s
  BY <1>2 DEF IsWork
<1>4. /\ x.at \in Early \cup Holding \cup {"delivery", "returned"}
      /\ x.slot \in {"none", "queued", "held"} /\ x.sent \in BOOLEAN /\ x.tries \in 0..2
      /\ x.items \subseteq Viewers /\ x.claimed \subseteq x.items
  BY DEF WorkOk
<1>5. /\ f.at \in Early \cup Holding \cup {"delivery", "returned"}
      /\ f.slot \in {"none", "queued", "held"} /\ f.sent \in BOOLEAN /\ f.tries \in 0..2
      /\ f.items \subseteq Viewers /\ f.claimed \subseteq f.items
  BY <1>1, <1>3, <1>4 DEF Early
<1>6. QED BY <1>1, <1>3, <1>5 DEF WorkOk

\* The batches the end of the session finds at work.
Hit == {c \in Batches : work[c].at \notin {"new", "admit", "delivery", "returned"}}

\* stop_session tells the calls of the batches, and starts none.
LEMMA StopFacts ==
  ASSUME DispatchInv, StopBatches
  PROVE  /\ CallsInv' /\ NoneBegins /\ session = "live" /\ session' = "stopped" /\ fence' = 0
         /\ work' = [c \in Calls |-> IF c \in Hit THEN Struck(work[c]) ELSE work[c]]
         /\ lane' = [lane EXCEPT !.eligible = <<>>]
         /\ UNCHANGED <<scenario, pace, trace, out, report>>
<1>1. PICK hit : hit = Hit
  OBVIOUS
<1>2. /\ session = "live" /\ session' = "stopped" /\ fence' = 0
      /\ work' = [c \in Calls |-> IF c \in hit THEN Struck(work[c]) ELSE work[c]]
      /\ call' = [c \in Calls |-> [call[c] EXCEPT !.doomed = @ \/ (c \in hit /\ Live(c))]]
      /\ lane' = [lane EXCEPT !.eligible = <<>>]
      /\ UNCHANGED <<pace, trace, out, report, scenario, gate, log, budget, http, late, up>>
  BY <1>1 DEF StopBatches, Hit
<1>3. PICK D : D = [d \in Calls |-> call[d].doomed \/ (d \in hit /\ Live(d))]
  OBVIOUS
<1>4. CallsInv /\ CallsShaped
  BY DEF DispatchInv, CallsInv
<1>5. call' = [d \in Calls |-> [call[d] EXCEPT !.doomed = D[d]]]
  <2>1. \A d \in Calls : D[d] = (call[d].doomed \/ (d \in hit /\ Live(d)))
    BY <1>3
  <2>2. QED BY <1>2, <2>1
<1>6. CallsInv'
  BY <1>2, <1>4, <1>5, DoomKeeps
<1>7. NoneBegins
  <2>1. SUFFICES ASSUME NEW d \in Calls
                 PROVE  call'[d].round = call[d].round /\ (Live(d)' => Live(d))
    BY DEF NoneBegins
  <2>2. PICK x, y : x = call[d] /\ y = D[d]
    OBVIOUS
  <2>3. call'[d] = [x EXCEPT !.doomed = y] /\ IsCall(x)
    BY <1>4, <1>5, <2>2 DEF CallsShaped
  <2>4. call'[d].at = x.at /\ call'[d].round = x.round
    BY <2>3 DEF IsCall
  <2>5. QED BY <2>2, <2>4 DEF Live
<1>8. QED BY <1>1, <1>2, <1>6, <1>7

\* A batch the end of the session finds at work.
LEMMA HitKeeps ==
  ASSUME DispatchInv, StopBatches, NEW d \in Hit
  PROVE  /\ StageInv(d)' /\ CallInv(d)' /\ AccountInv(d)' /\ WorkOk(work'[d])
         /\ work'[d].slot = IF work[d].slot = "queued" THEN "none" ELSE work[d].slot
<1>1. d \in Batches /\ work[d].at \notin {"new", "admit", "delivery", "returned"}
  BY DEF Hit
<1>2. d \in Calls /\ StageInv(d) /\ CallInv(d) /\ AccountInv(d) /\ WorkOk(work[d])
  BY <1>1, BatchFacts
<1>3. /\ NoneBegins /\ session = "live" /\ session' = "stopped"
      /\ work' = [c \in Calls |-> IF c \in Hit THEN Struck(work[c]) ELSE work[c]]
      /\ UNCHANGED <<trace, out, report>>
  BY StopFacts
<1>4. PICK x, f : x = work[d] /\ f = Struck(x)
  OBVIOUS
<1>5. work'[d] = f
  BY <1>2, <1>3, <1>4
<1>6. /\ WorkOk(f) /\ f.reason = "stopped" /\ f.sent = x.sent /\ f.tries = x.tries
      /\ f.items = x.items /\ f.claimed = x.claimed
      /\ f.at = IF x.at = "waiting" THEN "ready" ELSE x.at
      /\ f.slot = IF x.slot = "queued" THEN "none" ELSE x.slot
  BY <1>2, <1>4, StruckFacts
<1>7. x.at \notin {"new", "admit", "delivery", "returned"} /\ (x.at = "waiting" <=> x.slot = "queued")
  BY <1>1, <1>2, <1>4 DEF StageInv
<1>8. StageInv(d)'
  BY <1>2, <1>3, <1>4, <1>5, <1>6, <1>7 DEF StageInv, Early, Holding
<1>9. CallInv(d)'
  <2>1. call'[d].round = call[d].round /\ (Live(d)' => Live(d))
    BY <1>2, <1>3 DEF NoneBegins
  <2>2. QED BY <1>2, <1>4, <1>5, <1>6, <1>7, <2>1 DEF CallInv
<1>10. AccountInv(d)'
  <2>1. Open(d)' = Open(d)
    BY <1>3, <1>4, <1>5, <1>6 DEF Open
  <2>2. x.reason = "none"
    BY <1>1, <1>2, <1>3, <1>4 DEF StageInv
  <2>3. /\ x.at \in Early => x.items = {}
        /\ \A v \in Viewers : report[d][v] = "none"
        /\ x.at \in Asked => \A v \in x.items \ x.claimed : trace[d][v] # NoTrace
        /\ x.at = "silence" => Open(d) # {}
        /\ \A v \in Viewers :
             /\ out[d][v] # "none" => x.at \in {"accept", "silence", "delivery", "returned"}
             /\ out[d][v] \in {"published", "dropped"} => trace[d][v] # NoTrace
             /\ trace[d][v] = "published" => out[d][v] = "published"
             /\ out[d][v] = "published" => trace[d][v] = "published"
    BY <1>2, <1>3, <1>4, <1>7, <2>2 DEF AccountInv
  <2>4. /\ f.at \in Early => x.at \in Early
        /\ f.at \in Asked => x.at \in Asked
        /\ f.at = "silence" => x.at = "silence"
        /\ f.at # "delivery" /\ f.at # "returned"
        /\ x.at \in {"accept", "silence", "delivery", "returned"} => f.at = x.at
    BY <1>6, <1>7 DEF Early, Asked
  <2>5. x.items \subseteq Viewers
    BY <1>2, <1>4 DEF WorkOk
  <2>6. QED BY <1>3, <1>5, <1>6, <2>1, <2>3, <2>4, <2>5 DEF AccountInv
<1>11. QED BY <1>4, <1>5, <1>6, <1>8, <1>9, <1>10

\* The end of the session keeps the books of the batches it strikes and of the others (stop_session).
LEMMA StopBatchesKeeps ==
  ASSUME DispatchInv, StopBatches
  PROVE  DispatchInv' /\ NoneBegins
<1>1. /\ CallsInv' /\ NoneBegins /\ session = "live" /\ session' = "stopped" /\ fence' = 0
      /\ work' = [c \in Calls |-> IF c \in Hit THEN Struck(work[c]) ELSE work[c]]
      /\ lane' = [lane EXCEPT !.eligible = <<>>]
      /\ UNCHANGED <<scenario, pace, trace, out, report>>
  BY StopFacts
<1>2. CallsShaped /\ WorkShaped /\ LaneInv /\ BatchesInv
  BY DEF DispatchInv, CallsInv
<1>3. Batches \subseteq Calls /\ Batches' = Batches
  BY <1>1, <1>2, KnownAreCalls DEF Batches, Known, Kind
<1>4. \A d \in Calls : d \notin Hit => work'[d] = work[d]
  BY <1>1
<1>5. ASSUME NEW d \in Batches, d \notin Hit
      PROVE  /\ StageInv(d)' /\ CallInv(d)' /\ AccountInv(d)'
             /\ work[d].slot # "queued"
  <2>1. d \in Calls /\ StageInv(d) /\ CallInv(d) /\ AccountInv(d) /\ work'[d] = work[d]
    BY <1>2, <1>3, <1>4, <1>5 DEF BatchesInv
  <2>2. trace'[d] = trace[d] /\ out'[d] = out[d] /\ report'[d] = report[d] /\ session' \in {session, "stopped"}
        /\ call'[d].round = call[d].round /\ (Live(d)' => Live(d))
    BY <1>1, <2>1 DEF NoneBegins
  <2>3. StageInv(d)' /\ CallInv(d)' /\ AccountInv(d)'
    BY <1>2, <2>1, <2>2, OthersStay
  <2>4. work[d].slot # "queued"
    BY <1>5, <2>1 DEF StageInv, Hit
  <2>5. QED BY <2>3, <2>4
<1>6. ASSUME NEW d \in Calls
      PROVE  /\ WorkOk(work'[d])
             /\ work'[d].slot = IF work[d].slot = "queued" THEN "none" ELSE work[d].slot
             /\ d \notin Batches => work'[d] = NewWork
  <2>1. CASE d \in Hit
    <3>1. d \in Batches
      BY <2>1 DEF Hit
    <3>2. QED BY <2>1, <3>1, HitKeeps
  <2>2. CASE d \in Batches /\ d \notin Hit
    <3>1. work'[d] = work[d] /\ WorkOk(work[d])
      BY <1>2, <1>4, <2>2 DEF WorkShaped
    <3>2. QED BY <1>5, <2>2, <3>1
  <2>3. CASE d \notin Batches
    <3>1. work[d] = NewWork /\ WorkOk(work[d]) /\ d \notin Hit
      BY <1>2, <2>3 DEF WorkShaped, Hit
    <3>2. work'[d] = NewWork /\ NewWork.slot = "none" /\ WorkOk(NewWork)
      BY <1>4, <3>1 DEF NewWork
    <3>3. QED BY <3>1, <3>2
  <2>4. QED BY <2>1, <2>2, <2>3
<1>7. BatchesInv'
  BY <1>3, <1>5, HitKeeps DEF BatchesInv
<1>8. lane' = [active |-> lane.active, eligible |-> <<>>]
  BY <1>1, <1>2 DEF WorkShaped
<1>9. WorkShaped'
  <2>1. work' = [d \in Calls |-> work'[d]]
    BY <1>1
  <2>2. lane' = [active |-> lane'.active, eligible |-> lane'.eligible]
    BY <1>8
  <2>3. /\ trace' \in [Calls -> [Viewers -> Traces]] /\ report' \in [Calls -> [Viewers -> Traces]]
        /\ out' \in [Calls -> [Viewers -> {"none", "queued", "published", "dropped"}]]
        /\ session' \in {"live", "stopped"} /\ fence' \in Calls \cup {0} /\ pace' \in 0..RequestPace
    BY <1>1, RestTyped
  <2>4. QED BY <1>3, <1>6, <2>1, <2>2, <2>3 DEF WorkShaped
<1>10. LaneInv'
  <2>1. Queued' = {} /\ Held' = Held
    <3>1. \A d \in Calls : work'[d].slot # "queued" /\ (work'[d].slot = "held" <=> work[d].slot = "held")
      BY <1>6
    <3>2. QED BY <3>1 DEF Queued, Held
  <2>2. lane'.active = lane.active /\ lane'.eligible = <<>>
    BY <1>8
  <2>3. /\ <<>> \in Seq(Calls) /\ IsInjective(<<>>) /\ ToSet(<<>>) = {} /\ Len(<<>>) = 0
        /\ Cardinality({}) = 0
    BY EmptySeq, FS_EmptySet DEF IsInjective, ToSet
  <2>4. lane.active = Cardinality(Held) /\ lane.active <= LaneSlots /\ LaneQueue \in Nat
    BY <1>2, LaneAssumption DEF LaneInv
  <2>5. Cardinality(Queued') = 0 /\ 0 <= LaneQueue
    BY <2>1, <2>3, <2>4
  <2>6. QED BY <2>1, <2>2, <2>3, <2>4, <2>5 DEF LaneInv
<1>11. QED BY <1>1, <1>7, <1>9, <1>10 DEF DispatchInv

---------------------------------------------------------------------------
(* Every step, and the theorems.                                           *)

\* At the start no batch has asked, waits or holds anything.
LEMMA BatchInitEstablishes ==
  ASSUME BatchInit
  PROVE  DispatchInv
<1>1. /\ CallsInit /\ session = "live" /\ fence = 0 /\ pace = 0
      /\ lane = [active |-> 0, eligible |-> <<>>]
      /\ work = [c \in Calls |-> NewWork]
      /\ trace = [c \in Calls |-> [v \in Viewers |-> NoTrace]]
      /\ out = [c \in Calls |-> [v \in Viewers |-> "none"]]
      /\ report = [c \in Calls |-> [v \in Viewers |-> "none"]]
  BY DEF BatchInit
<1>2. CallsInv /\ CallsShaped
  BY <1>1, CallsInitEstablishes DEF CallsInv
<1>3. Batches \subseteq Calls
  BY <1>2, KnownAreCalls
<1>4. /\ WorkOk(NewWork) /\ NewWork.at = "new" /\ NewWork.slot = "none" /\ NewWork.reason = "none"
      /\ NewWork.sent = FALSE /\ NewWork.tries = 0 /\ NewWork.items = {} /\ NewWork.claimed = {}
  BY DEF WorkOk, IsWork, NewWork, Early
<1>5. \A c \in Calls : work[c] = NewWork
  BY <1>1
<1>6. WorkShaped
  <2>1. work = [c \in Calls |-> work[c]] /\ lane = [active |-> lane.active, eligible |-> lane.eligible]
    BY <1>1
  <2>2. /\ trace \in [Calls -> [Viewers -> Traces]] /\ report \in [Calls -> [Viewers -> Traces]]
        /\ out \in [Calls -> [Viewers -> {"none", "queued", "published", "dropped"}]]
    BY <1>1 DEF Traces, NoTrace
  <2>3. session \in {"live", "stopped"} /\ fence \in Calls \cup {0} /\ pace \in 0..RequestPace
    BY <1>1, LaneAssumption
  <2>4. QED BY <1>4, <1>5, <2>1, <2>2, <2>3 DEF WorkShaped
<1>7. LaneInv
  <2>1. Queued = {} /\ Held = {}
    BY <1>4, <1>5 DEF Queued, Held
  <2>2. lane.active = 0 /\ lane.eligible = <<>>
    BY <1>1
  <2>3. /\ <<>> \in Seq(Calls) /\ IsInjective(<<>>) /\ ToSet(<<>>) = {} /\ Len(<<>>) = 0
        /\ Cardinality({}) = 0
    BY EmptySeq, FS_EmptySet DEF IsInjective, ToSet
  <2>4. 0 <= LaneSlots /\ 0 <= LaneQueue
    BY LaneAssumption
  <2>5. QED BY <2>1, <2>2, <2>3, <2>4 DEF LaneInv
<1>8. ASSUME NEW c \in Batches PROVE StageInv(c) /\ CallInv(c) /\ AccountInv(c)
  <2>1. c \in Calls /\ work[c] = NewWork
    BY <1>3, <1>5
  <2>2. StageInv(c)
    BY <1>4, <2>1 DEF StageInv
  <2>3. call[c] = NoCall
    BY <1>1, <2>1 DEF CallsInit
  <2>4. CallInv(c)
    BY <1>4, <2>1, <2>3 DEF CallInv, NoCall, Live, Waiting
  <2>5. \A v \in Viewers : trace[c][v] = NoTrace /\ out[c][v] = "none" /\ report[c][v] = "none"
    BY <1>1, <2>1
  <2>6. AccountInv(c)
    BY <1>4, <2>1, <2>5 DEF AccountInv, Early, Asked, NoTrace
  <2>7. QED BY <2>2, <2>4, <2>6
<1>9. QED BY <1>2, <1>6, <1>7, <1>8 DEF DispatchInv, BatchesInv

\* Every step of a batch keeps the books.
LEMMA BatchStepKeeps ==
  ASSUME DispatchInv, NEW c \in Batches, BatchStep(c)
  PROVE  DispatchInv'
<1>1. CASE Admit(c)
  BY <1>1, AdmitKeeps
<1>2. CASE Build(c)
  BY <1>2, BuildKeeps
<1>3. CASE Claim(c)
  BY <1>3, ClaimKeeps
<1>4. CASE StartAttempt(c)
  BY <1>4, StartAttemptKeeps
<1>5. CASE TurnLost(c)
  BY <1>5, TurnLostKeeps
<1>6. CASE AttemptEnds(c)
  BY <1>6, AttemptEndsKeeps
<1>7. CASE AttemptGivenUp(c)
  BY <1>7, AttemptGivenUpKeeps
<1>8. CASE BackoffEnds(c)
  BY <1>8, BackoffEndsKeeps
<1>9. CASE Accept(c)
  BY <1>9, AcceptKeeps
<1>10. CASE CommitSilence(c)
  BY <1>10, CommitSilenceKeeps
<1>11. CASE AllAccepted(c)
  BY <1>11, AllAcceptedKeeps
<1>12. CASE Delivered(c)
  BY <1>12, DeliveredKeeps
<1>13. CASE \E v \in Viewers : Output(c, v)
  BY <1>13, OutputKeeps
<1>14. QED
  BY <1>1, <1>2, <1>3, <1>4, <1>5, <1>6, <1>7, <1>8, <1>9, <1>10, <1>11, <1>12, <1>13 DEF BatchStep

\* And so does every step of the system.
LEMMA BatchNextKeeps ==
  ASSUME DispatchInv, [BatchNext]_dispatchVars
  PROVE  DispatchInv'
<1>1. CASE \E c \in Known : CallStep(c) /\ UNCHANGED batchVars
  BY <1>1, CallStepRest
<1>2. CASE (Crash \/ Restart) /\ UNCHANGED batchVars
  BY <1>2, CrashRest
<1>3. ASSUME NEW c \in Batches, Dispatch(c) \/ BatchStep(c) \/ Cancel(c) PROVE DispatchInv'
  BY <1>3, DispatchKeeps, BatchStepKeeps, CancelKeeps
<1>4. CASE StopBatches
  BY <1>4, StopBatchesKeeps
<1>5. CASE TimePasses
  BY <1>5, TimePassesKeeps
<1>6. CASE UNCHANGED dispatchVars
  <2>1. UNCHANGED calm /\ UNCHANGED <<scenario, session, fence, lane, work, trace, out, report>>
        /\ pace' = pace
    BY <1>6 DEF dispatchVars, calm, batchVars
  <2>2. CallsInv' /\ NoneBegins
    BY <2>1, CallsCalm
  <2>3. Batches \subseteq Calls
    BY BatchFacts
  <2>4. \A d \in Batches : call'[d].round = call[d].round /\ (Live(d)' => Live(d))
    BY <2>2, <2>3 DEF NoneBegins
  <2>5. pace' \in 0..RequestPace
    BY <2>1, RestTyped
  <2>6. QED BY <2>1, <2>2, <2>4, <2>5, BooksRest
<1>7. QED BY <1>1, <1>2, <1>3, <1>4, <1>5, <1>6 DEF BatchNext

\* The books of the calls, of the lane and of the batches agree in every state: what the
\* gate and the lane count is what calls and batches hold (_acquire, _finish_window_batch),
\* and each stage of a batch (_dispatch_window_batch) says what is settled of its viewers.
THEOREM BooksAgree == BatchSpec => []DispatchInv
<1>1. BatchInit => DispatchInv
  BY BatchInitEstablishes
<1>2. DispatchInv /\ [BatchNext]_dispatchVars => DispatchInv'
  BY BatchNextKeeps
<1>3. QED BY <1>1, <1>2, PTL DEF BatchSpec

\* The books say that holders are counted.
LEMMA BooksCount ==
  ASSUME DispatchInv
  PROVE  HoldersAreCounted
<1>1. /\ CallsShaped /\ Fits(gate, AtLine, AtServer) /\ RoundsBounded /\ ViewersAfford
      /\ WorkShaped /\ LaneInv /\ BatchesInv
  BY DEF DispatchInv, CallsInv
<1>2. Known \subseteq Calls /\ Batches \subseteq Calls
  BY <1>1, KnownAreCalls
<1>3. DispatchTyped
  <2>1. ASSUME NEW c \in Calls
        PROVE  /\ call[c].at \in Waiting \cup {"idle", "ended", "past", "lost"}
               /\ call[c].round \in 0 .. 2 /\ budget[c].calls \in 0 .. 2
               /\ gate.stance[c] \in Stances
               /\ work[c].tries \in 0 .. 2 /\ work[c].claimed \subseteq work[c].items
               /\ work[c].slot \in {"none", "queued", "held"}
    <3>1. call[c].at \in Waiting \cup {"idle", "ended", "past", "lost"} /\ call[c].round \in Nat
      BY <1>1 DEF CallsShaped
    <3>2. budget[c].calls \in 0 .. 2
      BY <1>1 DEF CallsShaped
    <3>3. gate.stance[c] \in Stances
      BY <1>1 DEF Fits
    <3>4. /\ work[c].tries \in 0 .. 2 /\ work[c].claimed \subseteq work[c].items
          /\ work[c].slot \in {"none", "queued", "held"}
      BY <1>1 DEF WorkShaped, WorkOk
    <3>5. c \in Batches => call[c].round = work[c].tries
      BY <1>1 DEF BatchesInv, CallInv
    <3>6. c \notin Batches => call[c].round <= 2
      BY <1>1 DEF RoundsBounded, Batches
    <3>7. call[c].round \in 0 .. 2
      BY <3>1, <3>4, <3>5, <3>6
    <3>8. QED BY <3>1, <3>2, <3>3, <3>4, <3>7
  <2>2. late \subseteq Calls /\ up \in BOOLEAN
    BY <1>1 DEF CallsShaped
  <2>3. QED BY <2>1, <2>2, RestTyped DEF DispatchTyped
<1>4. GateCountsLeases
  <2>1. \A c \in Calls : c \notin Known => call[c].at = "idle"
    BY <1>1 DEF RoundsBounded
  <2>2. AtServer = {c \in Known : call[c].at = "server"} /\ AtLine = {c \in Known : call[c].at = "line"}
    BY <1>2, <2>1 DEF AtServer, AtLine
  <2>3. \A c \in Known : (gate.stance[c] = "lease") <=> (call[c].at = "server")
    BY <1>1, <1>2 DEF Fits, AtServer
  <2>4. /\ gate.active = Cardinality(AtServer) /\ gate.active <= gate.limit
        /\ ToSet(gate.line) = AtLine /\ IsInjective(gate.line)
        /\ gate.line # <<>> /\ gate.stance[Head(gate.line)] = "wait" => gate.active = gate.limit
    BY <1>1 DEF Fits
  <2>5. QED BY <2>2, <2>3, <2>4 DEF GateCountsLeases
<1>5. LaneCountsBatches
  <2>1. \A c \in Calls : c \notin Batches => work[c].slot = "none"
    BY <1>1 DEF WorkShaped, NewWork
  <2>2. Queued = {c \in Batches : work[c].slot = "queued"} /\ Held = {c \in Batches : work[c].slot = "held"}
    BY <1>2, <2>1 DEF Queued, Held
  <2>3. /\ lane.active = Cardinality(Held) /\ lane.active <= LaneSlots
        /\ ToSet(lane.eligible) = Queued /\ Len(lane.eligible) = Cardinality(Queued)
        /\ Len(lane.eligible) <= LaneQueue
        /\ lane.eligible # <<>> => lane.active = LaneSlots
    BY <1>1 DEF LaneInv
  <2>4. Queued # {} => lane.active = LaneSlots
    <3>1. ToSet(<<>>) = {}
      BY DEF ToSet
    <3>2. QED BY <2>3, <3>1
  <2>5. \A c \in Batches : work[c].at = "returned" => work[c].slot = "none"
    <3>1. \A c \in Batches : StageInv(c) /\ work[c].slot \in {"none", "queued", "held"}
      BY <1>1, <1>2 DEF BatchesInv, WorkShaped, WorkOk
    <3>2. QED BY <3>1 DEF StageInv, Holding
  <2>6. QED BY <2>2, <2>3, <2>4, <2>5 DEF LaneCountsBatches
<1>6. TwoRequestsAtMost
  BY <1>1 DEF ViewersAfford, Affords, TwoRequestsAtMost
<1>7. QED BY <1>3, <1>4, <1>5, <1>6 DEF HoldersAreCounted

\* HoldersAreCounted for every number of calls, viewers, leases and slots: a lease or a slot
\* is counted exactly while a call or a batch holds it, whichever of cancellation, deadline,
\* stop, crash and answer ends the holder (_release, _finish_window_batch).
THEOREM HoldersCountedAlways == BatchSpec => []HoldersAreCounted
<1>1. DispatchInv => HoldersAreCounted
  BY BooksCount
<1>2. QED BY <1>1, BooksAgree, PTL

\* EveryViewerAccounted for every number of batches and viewers: no viewer of a batch that
\* returned is left without a trace, and "published" is said of exactly what was published
\* (_window_batch_interrupted_summary, _accept_window_batch_result).
THEOREM ViewersAccountedAlways == BatchSpec => []EveryViewerAccounted
<1>1. DispatchInv => EveryViewerAccounted
  BY DEF DispatchInv, BatchesInv, AccountInv, EveryViewerAccounted
<1>2. QED BY <1>1, BooksAgree, PTL

\* No batch asks, and nothing new is with the output.
Quiet ==
    /\ \A d \in Batches : call'[d].round = call[d].round
    /\ \A d \in Batches : \A v \in Viewers : out'[d][v] = "queued" => out[d][v] = "queued"

\* All steps but the start of an attempt and the acceptance of an answer are quiet.
LEMMA OthersAreQuiet ==
  ASSUME DispatchInv, BatchNext
  PROVE  Quiet \/ \E c \in Batches : StartAttempt(c) \/ Accept(c)
<1>1. Batches \subseteq Calls
  BY BatchFacts
<1>2. UNCHANGED <<out, calm>> => Quiet
  BY DEF Quiet, calm, callVars
<1>3. NoneBegins /\ UNCHANGED out => Quiet
  BY <1>1 DEF Quiet, NoneBegins
<1>4. CASE \E c \in Known : CallStep(c) /\ UNCHANGED batchVars
  BY <1>4, CallStepRest DEF Quiet, batchVars
<1>5. CASE (Crash \/ Restart) /\ UNCHANGED batchVars
  BY <1>5, CrashRest DEF Quiet, batchVars
<1>6. CASE StopBatches
  <2>1. UNCHANGED out /\ NoneBegins
    BY <1>6, StopFacts
  <2>2. QED BY <1>3, <2>1
<1>7. CASE TimePasses
  <2>1. UNCHANGED out /\ NoneBegins
    BY <1>7, TimePassesKeeps DEF TimePasses
  <2>2. QED BY <1>3, <2>1
<1>8. ASSUME NEW c \in Batches, Dispatch(c) \/ BatchStep(c) \/ Cancel(c)
      PROVE  Quiet \/ StartAttempt(c) \/ Accept(c)
  <2>1. CASE Dispatch(c) \/ Admit(c) \/ Build(c) \/ Claim(c) \/ TurnLost(c) \/ AttemptEnds(c)
             \/ BackoffEnds(c) \/ CommitSilence(c) \/ AllAccepted(c) \/ Delivered(c)
    <3>1. UNCHANGED <<out, calm>>
      BY <2>1 DEF Dispatch, Admit, Build, Claim, TurnLost, AttemptEnds, BackoffEnds,
                  CommitSilence, AllAccepted, Delivered
    <3>2. QED BY <1>2, <3>1
  <2>2. CASE AttemptGivenUp(c)
    <3>1. UNCHANGED out /\ NoneBegins
      BY <2>2, AttemptGivenUpKeeps DEF AttemptGivenUp
    <3>2. QED BY <1>3, <3>1
  <2>3. CASE Cancel(c)
    <3>1. UNCHANGED out /\ NoneBegins
      BY <2>3, CancelKeeps DEF Cancel
    <3>2. QED BY <1>3, <3>1
  <2>4. CASE \E v \in Viewers : Output(c, v)
    <3>1. PICK v \in Viewers, w \in {"published", "dropped"} :
            out' = [out EXCEPT ![c][v] = w] /\ UNCHANGED calm
      BY <2>4 DEF Output
    <3>2. out \in [Calls -> [Viewers -> {"none", "queued", "published", "dropped"}]]
      BY RestTyped
    <3>3. ASSUME NEW d \in Batches, NEW u \in Viewers, out'[d][u] = "queued"
          PROVE  out[d][u] = "queued"
      <4>1. d \in Calls
        BY <1>1
      <4>2. CASE d # c
        BY <3>1, <3>2, <3>3, <4>1, <4>2
      <4>3. CASE d = c
        <5>1. out'[c] = [out[c] EXCEPT ![v] = w]
          BY <3>1, <3>2, <4>1, <4>3
        <5>2. out[c] \in [Viewers -> {"none", "queued", "published", "dropped"}]
          BY <3>2, <4>1, <4>3
        <5>3. QED BY <3>1, <3>3, <4>3, <5>1, <5>2
      <4>4. QED BY <4>2, <4>3
    <3>4. \A d \in Batches : call'[d].round = call[d].round
      BY <3>1 DEF calm, callVars
    <3>5. QED BY <3>3, <3>4 DEF Quiet
  <2>5. QED BY <1>8, <2>1, <2>2, <2>3, <2>4 DEF BatchStep
<1>9. QED BY <1>4, <1>5, <1>6, <1>7, <1>8 DEF BatchNext

\* A step starts no batch's waves anew and supersedes none but for the end of the session
\* or its deadline.
Stays ==
    \A d \in Batches :
      /\ work'[d].at = "new" <=> work[d].at = "new"
      /\ work'[d].reason = "superseded" =>
           work[d].reason = "superseded" \/ session = "stopped" \/ d \in late

\* The batches are those of the scenario.
LEMMA BatchesStay ==
  ASSUME BatchNext
  PROVE  Batches' = Batches
<1>1. UNCHANGED scenario
  BY DEF BatchNext, CallStep, Serve, PrepareFails, Prepared, TakeSlot, LookAgain, AnswerGood,
         AnswerMissing, AnswerLimited, AnswerUseless, AnswerNoJsonMode, AnswerBroken, Unwind,
         Invoke, NoteOutput, Abandon, Expire, Crash, Restart, Dispatch, BatchStep, Admit, Build,
         Claim, StartAttempt, TurnLost, AttemptEnds, AttemptGivenUp, BackoffEnds, Accept,
         CommitSilence, AllAccepted, Delivered, Output, Cancel, StopBatches, TimePasses, calm
<1>2. QED BY <1>1 DEF Batches, Known, Kind

\* A batch's own books change and its place in the lane does not.
LEMMA StepStays ==
  ASSUME DispatchInv, NEW c \in Batches, work[c].at # "new", NEW f, Step(c, f),
         f.at # "new", f.reason = work[c].reason
  PROVE  Stays
<1>1. work = [d \in Calls |-> work[d]] /\ c \in Calls /\ Batches \subseteq Calls
  BY BatchFacts DEF WorkShaped
<1>2. work'[c] = f /\ \A d \in Calls \ {c} : work'[d] = work[d]
  BY <1>1 DEF Step
<1>3. QED BY <1>1, <1>2 DEF Stays

\* A batch gives back what it has of the lane, and who waited longest gets it.
LEMMA GiveBackStays ==
  ASSUME DispatchInv, NEW c \in Batches, work[c].at # "new", NEW f, IsWork(f), f.slot = work[c].slot,
         f.at # "new", NEW w, w = [work EXCEPT ![c] = f], GiveBack(c, w),
         f.reason = "superseded" =>
           work[c].reason = "superseded" \/ session = "stopped" \/ c \in late
  PROVE  Stays
<1>1. /\ work = [d \in Calls |-> work[d]] /\ c \in Calls /\ Batches \subseteq Calls
      /\ LaneInv /\ \A d \in Calls : WorkOk(work[d])
  BY BatchFacts DEF WorkShaped
<1>2. w[c] = f /\ \A d \in Calls \ {c} : w[d] = work[d]
  BY <1>1
<1>3. \A d \in Calls : IsWork(w[d]) /\ w[d].slot = work[d].slot /\ w[d].slot \in {"none", "queued", "held"}
  <2>1. TAKE d \in Calls
  <2>2. WorkOk(work[d]) /\ WorkOk(work[c])
    BY <1>1
  <2>3. QED BY <1>2, <2>2 DEF WorkOk
<1>4. work'[c] = [f EXCEPT !.slot = "none"] /\ \A d \in Calls \ {c} : work'[d] = work[d] \/ Promoted(d, work[d])
  BY <1>1, <1>2, <1>3, GiveBackFacts
<1>5. work'[c].at = f.at /\ work'[c].reason = f.reason
  BY <1>4 DEF IsWork
<1>6. ASSUME NEW d \in Batches, d # c, Promoted(d, work[d])
      PROVE  work'[d].at # "new" /\ work[d].at # "new" /\ work'[d].reason = work[d].reason
  <2>1. PICK x : x = work[d]
    OBVIOUS
  <2>2. IsWork(x) /\ x.slot = "queued" /\ work'[d] = [x EXCEPT !.slot = "held", !.at = "ready"]
    BY <1>1, <1>6, <2>1 DEF Promoted, WorkOk
  <2>3. work'[d].at = "ready" /\ work'[d].reason = x.reason
    BY <2>2 DEF IsWork
  <2>4. x.at = "waiting"
    BY <1>6, <2>1, <2>2, BatchFacts DEF StageInv
  <2>5. QED BY <2>1, <2>3, <2>4
<1>7. QED BY <1>1, <1>4, <1>5, <1>6 DEF Stays

\* A batch ends without its answer.
LEMMA InterruptStays ==
  ASSUME DispatchInv, NEW c \in Batches, work[c].at # "new", NEW why, InterruptBatch(c, why),
         why = "superseded" => work[c].reason # "none" \/ session = "stopped" \/ c \in late
  PROVE  Stays
<1>1. WorkShaped /\ c \in Calls /\ WorkOk(work[c])
  BY BatchFacts
<1>2. PICK items : GiveBack(c, [work EXCEPT ![c].at = "returned", ![c].reason = Because(c, why),
                                            ![c].items = items])
  BY DEF InterruptBatch
<1>3. PICK x, r, f : /\ x = work[c] /\ r = Because(c, why)
                     /\ f = [x EXCEPT !.at = "returned", !.reason = r, !.items = items]
  OBVIOUS
<1>4. PICK w : w = [work EXCEPT ![c] = f]
  OBVIOUS
<1>5. GiveBack(c, w)
  <2>1. work = [d \in Calls |-> work[d]]
    BY <1>1 DEF WorkShaped
  <2>2. w = [work EXCEPT ![c].at = "returned", ![c].reason = r, ![c].items = items]
    BY <1>1, <1>3, <1>4, <2>1
  <2>3. QED BY <1>2, <1>3, <2>2
<1>6. IsWork(f) /\ f.at = "returned" /\ f.reason = r /\ f.slot = x.slot
  BY <1>1, <1>3 DEF WorkOk, IsWork
<1>7. r = "superseded" => work[c].reason = "superseded" \/ session = "stopped" \/ c \in late
  BY <1>3 DEF Because
<1>8. QED BY <1>3, <1>4, <1>5, <1>6, <1>7, GiveBackStays

\* A batch ends for its requests alike, or its lines are with the output.
LEMMA ConcludeStays ==
  ASSUME DispatchInv, NEW c \in Batches, work[c].at # "new", NEW at \in {"returned", "delivery"},
         GiveBack(c, [work EXCEPT ![c].at = at])
  PROVE  Stays
<1>1. WorkShaped /\ c \in Calls /\ WorkOk(work[c])
  BY BatchFacts
<1>2. PICK x, f : x = work[c] /\ f = [x EXCEPT !.at = at]
  OBVIOUS
<1>3. PICK w : w = [work EXCEPT ![c] = f]
  OBVIOUS
<1>4. GiveBack(c, w)
  <2>1. work = [d \in Calls |-> work[d]]
    BY <1>1 DEF WorkShaped
  <2>2. w = [work EXCEPT ![c].at = at]
    BY <1>1, <1>2, <1>3, <2>1
  <2>3. QED BY <2>2
<1>5. IsWork(f) /\ f.at = at /\ f.reason = x.reason /\ f.slot = x.slot
  BY <1>1, <1>2 DEF WorkOk, IsWork
<1>6. QED BY <1>2, <1>3, <1>4, <1>5, GiveBackStays

\* The waves are started in their order, and the fence of a live session is at the newest.
WavesInv ==
    /\ \A c, d \in Batches : d < c /\ work[c].at # "new" => work[d].at # "new"
    /\ session = "live" => \A c \in Batches : work[c].at # "new" => c <= fence

\* While the session is live, nothing but its own end makes a batch lose the fence
\* (_wave_matches_current_fence).
LEMMA CurrentWhileLive ==
  ASSUME DispatchInv, WavesInv, NEW c \in Batches, work[c].at \notin {"new", "returned"}, ~Current(c)
  PROVE  session = "stopped"
<1>1. StageInv(c) /\ session \in {"live", "stopped"}
  BY BatchFacts, RestTyped
<1>2. QED BY <1>1 DEF StageInv, WavesInv, Current

\* A step of one batch.
LEMMA BatchStepStays ==
  ASSUME DispatchInv, WavesInv, NEW c \in Batches, BatchStep(c) \/ Cancel(c)
  PROVE  Stays /\ UNCHANGED <<session, fence>>
<1>1. StageInv(c) /\ WorkOk(work[c]) /\ session \in {"live", "stopped"}
  BY BatchFacts, RestTyped
<1>2. ASSUME InterruptBatch(c, "superseded"), work[c].at \notin {"new", "returned"},
             ~Current(c) \/ work[c].reason # "none" \/ c \in late
      PROVE  Stays
  BY <1>2, CurrentWhileLive, InterruptStays
<1>3. ASSUME NEW what, Conclude(c, what), work[c].at # "new" PROVE Stays
  BY <1>3, ConcludeStays DEF Conclude
<1>4. ASSUME NEW f, Step(c, f), f.at # "new", f.reason = work[c].reason, work[c].at # "new" PROVE Stays
  BY <1>4, StepStays
<1>5. UNCHANGED work => Stays
  BY DEF Stays
<1>6. PICK x : x = work[c] /\ IsWork(x)
  BY <1>1 DEF WorkOk
<1>7. CASE Admit(c)
  <2>1. CASE InterruptBatch(c, "capacity")
    BY <1>7, <2>1, InterruptStays DEF Admit
  <2>2. CASE Step(c, [x EXCEPT !.at = "ready", !.slot = "held"])
    <3>1. PICK f : f = [x EXCEPT !.at = "ready", !.slot = "held"] /\ Step(c, f)
      BY <2>2
    <3>2. f.at = "ready" /\ f.reason = x.reason
      BY <1>6, <3>1 DEF IsWork
    <3>3. QED BY <1>4, <1>6, <1>7, <3>1, <3>2 DEF Admit
  <2>3. CASE Step(c, [x EXCEPT !.at = "waiting", !.slot = "queued"])
    <3>1. PICK f : f = [x EXCEPT !.at = "waiting", !.slot = "queued"] /\ Step(c, f)
      BY <2>3
    <3>2. f.at = "waiting" /\ f.reason = x.reason
      BY <1>6, <3>1 DEF IsWork
    <3>3. QED BY <1>4, <1>6, <1>7, <3>1, <3>2 DEF Admit
  <2>4. QED
    <3>1. \/ InterruptBatch(c, "superseded") /\ ~Current(c)
          \/ InterruptBatch(c, "capacity")
          \/ Step(c, [x EXCEPT !.at = "ready", !.slot = "held"])
          \/ Step(c, [x EXCEPT !.at = "waiting", !.slot = "queued"])
      BY <1>6, <1>7 DEF Admit
    <3>2. UNCHANGED <<session, fence>> /\ work[c].at = "admit"
      BY <1>7 DEF Admit
    <3>3. QED BY <1>2, <2>1, <2>2, <2>3, <3>1, <3>2
<1>8. CASE Build(c)
  <2>1. CASE \E items : Step(c, [x EXCEPT !.at = "claim", !.items = items])
    <3>1. PICK items, f : f = [x EXCEPT !.at = "claim", !.items = items] /\ Step(c, f)
      BY <2>1
    <3>2. f.at = "claim" /\ f.reason = x.reason
      BY <1>6, <3>1 DEF IsWork
    <3>3. QED BY <1>4, <1>6, <1>8, <3>1, <3>2 DEF Build
  <2>2. QED BY <1>2, <1>3, <1>6, <1>8, <2>1 DEF Build
<1>9. CASE Claim(c)
  <2>1. CASE Step(c, [x EXCEPT !.at = "turn"])
    <3>1. PICK f : f = [x EXCEPT !.at = "turn"] /\ Step(c, f)
      BY <2>1
    <3>2. f.at = "turn" /\ f.reason = x.reason
      BY <1>6, <3>1 DEF IsWork
    <3>3. QED BY <1>4, <1>6, <1>9, <3>1, <3>2 DEF Claim
  <2>2. CASE \E claimed : Step(c, [x EXCEPT !.claimed = claimed])
    <3>1. PICK claimed, f : f = [x EXCEPT !.claimed = claimed] /\ Step(c, f)
      BY <2>2
    <3>2. f.at = x.at /\ f.reason = x.reason
      BY <1>6, <3>1 DEF IsWork
    <3>3. QED BY <1>4, <1>6, <1>9, <3>1, <3>2 DEF Claim
  <2>3. CASE UNCHANGED work
    BY <1>5, <1>9, <2>3 DEF Claim
  <2>4. QED
    <3>1. \/ Conclude(c, "stale") \/ UNCHANGED work
          \/ Step(c, [x EXCEPT !.at = "turn"])
          \/ InterruptBatch(c, "superseded") /\ work[c].reason # "none"
          \/ \E claimed : Step(c, [x EXCEPT !.claimed = claimed])
      BY <1>6, <1>9 DEF Claim
    <3>2. UNCHANGED <<session, fence>> /\ work[c].at = "claim"
      BY <1>9 DEF Claim
    <3>3. QED BY <1>2, <1>3, <2>1, <2>2, <2>3, <3>1, <3>2
<1>10. CASE StartAttempt(c)
  <2>1. PICK f : f = [x EXCEPT !.at = "attempt", !.sent = TRUE, !.tries = @ + 1] /\ Step(c, f)
    BY <1>6, <1>10 DEF StartAttempt
  <2>2. f.at = "attempt" /\ f.reason = x.reason
    BY <1>6, <2>1 DEF IsWork
  <2>3. QED BY <1>4, <1>6, <1>10, <2>1, <2>2 DEF StartAttempt
<1>11. CASE TurnLost(c)
  BY <1>2, <1>3, <1>11 DEF TurnLost
<1>12. CASE AttemptEnds(c) \/ BackoffEnds(c) \/ CommitSilence(c) \/ Accept(c)
  <2>1. work[c].at \in {"attempt", "backoff", "silence", "accept"} /\ UNCHANGED <<session, fence>>
    BY <1>12 DEF AttemptEnds, BackoffEnds, CommitSilence, Accept
  <2>2. CASE \E at \in {"accept", "backoff", "turn", "silence"} : Step(c, [x EXCEPT !.at = at])
    <3>1. PICK at, f : at \in {"accept", "backoff", "turn", "silence"} /\ f = [x EXCEPT !.at = at] /\ Step(c, f)
      BY <2>2
    <3>2. f.at = at /\ f.reason = x.reason
      BY <1>6, <3>1 DEF IsWork
    <3>3. QED BY <1>4, <1>6, <2>1, <3>1, <3>2
  <2>3. CASE (\E what : Conclude(c, what)) \/ UNCHANGED work
    BY <1>3, <1>5, <2>1, <2>3
  <2>4. CASE InterruptBatch(c, "superseded") /\ ~Current(c)
    BY <1>2, <2>1, <2>4
  <2>5. QED BY <1>6, <1>12, <2>2, <2>3, <2>4 DEF AttemptEnds, BackoffEnds, CommitSilence, Accept, Decide
<1>13. CASE AttemptGivenUp(c)
  BY <1>2, <1>3, <1>13 DEF AttemptGivenUp
<1>14. CASE AllAccepted(c) \/ Delivered(c)
  <2>1. /\ (\E what : Conclude(c, what)) \/ GiveBack(c, [work EXCEPT ![c].at = "delivery"])
        /\ work[c].at # "new" /\ UNCHANGED <<session, fence>>
    BY <1>14 DEF AllAccepted, Delivered
  <2>2. QED BY <1>3, <2>1, ConcludeStays
<1>15. CASE \E v \in Viewers : Output(c, v)
  BY <1>5, <1>15 DEF Output
<1>16. CASE Cancel(c)
  <2>1. CASE InterruptBatch(c, "scheduler")
    BY <1>16, <2>1, InterruptStays DEF Cancel
  <2>2. CASE Step(c, [x EXCEPT !.at = "returned"])
    <3>1. PICK f : f = [x EXCEPT !.at = "returned"] /\ Step(c, f)
      BY <2>2
    <3>2. f.at = "returned" /\ f.reason = x.reason
      BY <1>6, <3>1 DEF IsWork
    <3>3. QED BY <1>4, <1>6, <1>16, <3>1, <3>2 DEF Cancel
  <2>3. QED BY <1>6, <1>16, <2>1, <2>2 DEF Cancel
<1>17. QED BY <1>7, <1>8, <1>9, <1>10, <1>11, <1>12, <1>13, <1>14, <1>15, <1>16 DEF BatchStep

\* Whatever is not the start of a wave supersedes nobody, and the fence stays or the session ends.
LEMMA OthersStart ==
  ASSUME DispatchInv, WavesInv, BatchNext, \A c \in Batches : ~Dispatch(c)
  PROVE  Stays /\ (UNCHANGED <<session, fence>> \/ session' = "stopped")
<1>1. UNCHANGED <<session, fence, work>> => Stays /\ UNCHANGED <<session, fence>>
  BY DEF Stays
<1>2. CASE UNCHANGED batchVars
  BY <1>1, <1>2 DEF batchVars
<1>3. CASE TimePasses
  BY <1>1, <1>3 DEF TimePasses
<1>4. CASE \E c \in Batches : BatchStep(c) \/ Cancel(c)
  BY <1>4, BatchStepStays
<1>5. CASE StopBatches
  <2>1. /\ session' = "stopped"
        /\ work' = [c \in Calls |-> IF c \in Hit THEN Struck(work[c]) ELSE work[c]]
    BY <1>5, StopFacts
  <2>2. ASSUME NEW d \in Batches
        PROVE  /\ work'[d].at = "new" <=> work[d].at = "new"
               /\ work'[d].reason = "superseded" => work[d].reason = "superseded"
    <3>1. d \in Calls /\ WorkOk(work[d])
      BY BatchFacts
    <3>2. CASE d \notin Hit
      BY <2>1, <3>1, <3>2
    <3>3. CASE d \in Hit
      <4>1. PICK x, f : x = work[d] /\ f = Struck(x)
        OBVIOUS
      <4>2. f.reason = "stopped" /\ f.at = IF x.at = "waiting" THEN "ready" ELSE x.at
        BY <3>1, <4>1, StruckFacts
      <4>3. work'[d] = f /\ x.at # "new"
        BY <2>1, <3>1, <3>3, <4>1 DEF Hit
      <4>4. QED BY <4>1, <4>2, <4>3
    <3>4. QED BY <3>2, <3>3
  <2>3. QED BY <2>1, <2>2 DEF Stays
<1>6. QED BY <1>2, <1>3, <1>4, <1>5 DEF BatchNext

\* A wave starts behind all that were started before it (_advance_wave_fence).
LEMMA DispatchStarts ==
  ASSUME DispatchInv, NEW c \in Batches, Dispatch(c)
  PROVE  /\ session' = session /\ session = "live" => fence' = c
         /\ work'[c].at # "new" /\ work'[c].reason = work[c].reason
         /\ \A d \in Batches \ {c} : work'[d] = work[d]
<1>1. WorkShaped /\ c \in Calls /\ Batches \subseteq Calls /\ WorkOk(work[c])
  BY BatchFacts
<1>2. PICK x : x = work[c] /\ IsWork(x)
  BY <1>1 DEF WorkOk
<1>3. PICK at, f : at \in {"admit", "returned"} /\ f = [x EXCEPT !.at = at] /\ Step(c, f)
  BY <1>2 DEF Dispatch
<1>4. f.at = at /\ f.reason = x.reason
  BY <1>2, <1>3 DEF IsWork
<1>5. work'[c] = f /\ \A d \in Calls \ {c} : work'[d] = work[d]
  BY <1>1, <1>3 DEF Step, WorkShaped
<1>6. session' = session /\ session = "live" => fence' = c
  BY DEF Dispatch
<1>7. QED BY <1>1, <1>2, <1>3, <1>4, <1>5, <1>6

\* Each step keeps the waves in order.
LEMMA WavesKeep ==
  ASSUME DispatchInv, WavesInv, BatchNext
  PROVE  WavesInv'
<1>1. Batches' = Batches /\ Batches \subseteq Nat
  BY BatchesStay, BatchFacts, GateAssumption
<1>2. CASE \A c \in Batches : ~Dispatch(c)
  <2>1. Stays /\ (UNCHANGED <<session, fence>> \/ session' = "stopped")
    BY <1>2, OthersStart
  <2>2. QED BY <1>1, <2>1 DEF Stays, WavesInv
<1>3. ASSUME NEW c \in Batches, Dispatch(c) PROVE WavesInv'
  <2>1. /\ session' = session /\ session = "live" => fence' = c
        /\ work'[c].at # "new" /\ \A d \in Batches \ {c} : work'[d] = work[d]
    BY <1>3, DispatchStarts
  <2>2. session' = session /\ work[c].at = "new" /\ \A d \in Batches : d < c => work[d].at # "new"
    BY <1>3 DEF Dispatch
  <2>3. \A d \in Batches \ {c} : work[d].at # "new" => d < c
    BY <1>1, <2>2 DEF WavesInv
  <2>4. ASSUME NEW a \in Batches, NEW b \in Batches, b < a, work'[a].at # "new" PROVE work'[b].at # "new"
    BY <1>1, <2>1, <2>2, <2>3, <2>4 DEF WavesInv
  <2>5. ASSUME session' = "live", NEW d \in Batches, work'[d].at # "new" PROVE d <= fence'
    BY <1>1, <2>1, <2>2, <2>3, <2>5
  <2>6. QED BY <1>1, <2>4, <2>5 DEF WavesInv
<1>4. QED BY <1>2, <1>3

\* Nobody asks, or hands a line to the output, who was ended.
LEMMA QuietStep ==
  ASSUME DispatchInv, DispatchInv', BatchNext, NEW c \in Batches,
         \/ work'[c].tries > work[c].tries
         \/ \E v \in Viewers : out'[c][v] = "queued" /\ out[c][v] = "none"
  PROVE  session = "live" /\ work[c].reason = "none"
<1>1. /\ c \in Calls /\ StageInv(c) /\ CallInv(c) /\ AccountInv(c) /\ WorkOk(work[c]) /\ WorkShaped
  BY BatchFacts
<1>2. work[c].tries \in 0..2
  BY <1>1 DEF WorkOk
<1>3. Batches' = Batches => call'[c].round = work'[c].tries
  BY DEF DispatchInv, BatchesInv, CallInv
<1>4. ASSUME Quiet, Batches' = Batches PROVE FALSE
  <2>1. call'[c].round = call[c].round
    BY <1>4 DEF Quiet
  <2>2. work'[c].tries = work[c].tries
    BY <1>1, <1>3, <1>4, <2>1 DEF CallInv
  <2>3. \E v \in Viewers : out'[c][v] = "queued" /\ out[c][v] = "none"
    BY <1>2, <2>2
  <2>4. QED BY <1>4, <2>3 DEF Quiet
<1>5. ASSUME NEW d \in Batches, StartAttempt(d)
      PROVE  session = "live" /\ work[c].reason = "none"
  <2>1. UNCHANGED out /\ Current(d)
    BY <1>5 DEF StartAttempt
  <2>2. d = c
    <3>1. PICK f : work' = [work EXCEPT ![d] = f]
      BY <1>5 DEF StartAttempt, Step
    <3>2. work = [e \in Calls |-> work[e]]
      BY <1>1 DEF WorkShaped
    <3>3. d # c => work'[c] = work[c]
      BY <1>1, <3>1, <3>2
    <3>4. work'[c] # work[c]
      BY <1>2, <2>1
    <3>5. QED BY <3>3, <3>4
  <2>3. QED BY <1>1, <2>1, <2>2 DEF Current, StageInv
<1>6. ASSUME NEW d \in Batches, Accept(d)
      PROVE  session = "live" /\ work[c].reason = "none"
  <2>1. UNCHANGED calm /\ work[d].at = "accept" /\ Batches' = Batches
    BY <1>6 DEF Accept, calm, Batches, Known, Kind
  <2>2. work'[c].tries = work[c].tries
    BY <1>1, <1>3, <2>1 DEF CallInv, calm, callVars
  <2>3. PICK u \in Viewers : out'[c][u] = "queued" /\ out[c][u] = "none"
    BY <1>2, <2>2
  <2>4. out' # out
    BY <2>3
  <2>5. PICK v : session = "live" /\ out' = [out EXCEPT ![d][v] = "queued"]
    BY <1>6, <2>4 DEF Accept, Decide
  <2>6. d = c
    <3>1. out \in [Calls -> [Viewers -> {"none", "queued", "published", "dropped"}]]
      BY RestTyped
    <3>2. PICK row : out' = [out EXCEPT ![d] = row]
      BY <2>5
    <3>3. d # c => out'[c] = out[c]
      BY <1>1, <3>1, <3>2
    <3>4. QED BY <2>3, <3>3
  <2>7. work[c].reason = "none" /\ work[c].tries >= 1
    BY <1>1, <2>1, <2>5, <2>6 DEF StageInv
  <2>8. QED BY <1>2, <2>5, <2>7
<1>7. Batches' = Batches
  BY BatchesStay
<1>8. QED BY <1>4, <1>5, <1>6, <1>7, OthersAreQuiet

\* OvertakenRunsOn for every number of batches: a batch that waits for the lane, its turn or
\* its retry while newer waves come is superseded by none of them
\* (_window_batch_is_current_locked), and once a batch was ended, neither its retry nor its
\* answer reaches anybody (_wait_for_request_pace, _accept_window_batch_candidate).
THEOREM OvertakenRunsOnAlways == BatchSpec => OvertakenRunsOn
<1>1. BatchInit => WavesInv
  <2>1. SUFFICES ASSUME BatchInit PROVE WavesInv
    OBVIOUS
  <2>2. \A c \in Batches : work[c].at = "new"
    BY <2>1, BatchInitEstablishes, BatchFacts DEF BatchInit, NewWork
  <2>3. QED BY <2>2 DEF WavesInv
<1>2. DispatchInv /\ WavesInv /\ [BatchNext]_dispatchVars => WavesInv'
  <2>1. ASSUME WavesInv, UNCHANGED dispatchVars PROVE WavesInv'
    BY <2>1 DEF WavesInv, dispatchVars, batchVars, Batches, Known, Kind
  <2>2. QED BY <2>1, WavesKeep
<1>3. ASSUME DispatchInv, WavesInv, BatchNext, NEW c \in Batches, work'[c].reason = "superseded"
      PROVE  work[c].reason = "superseded" \/ session = "stopped" \/ c \in late
  <2>1. CASE \A d \in Batches : ~Dispatch(d)
    BY <1>3, <2>1, OthersStart DEF Stays
  <2>2. CASE \E d \in Batches : Dispatch(d)
    BY <1>3, <2>2, DispatchStarts
  <2>3. QED BY <2>1, <2>2
<1>4. DispatchInv /\ DispatchInv' /\ WavesInv /\ [BatchNext]_dispatchVars =>
        [\A c \in Batches :
           /\ work'[c].reason = "superseded" =>
                work[c].reason = "superseded" \/ session = "stopped" \/ c \in late
           /\ \/ work'[c].tries > work[c].tries
              \/ \E v \in Viewers : out'[c][v] = "queued" /\ out[c][v] = "none"
              => session = "live" /\ work[c].reason = "none"]_dispatchVars
  BY <1>3, QuietStep
<1>5. QED BY <1>1, <1>2, <1>4, BooksAgree, PTL DEF BatchSpec, OvertakenRunsOn

---------------------------------------------------------------------------
(* The lines of the log.                                                   *)

\* The order of numbers has no endless descent.
LEMMA LessWF == IsWellFoundedOn(Less, Nat)
BY NatLessThanWellFounded DEF OpToRel, Less

\* Induction: a set of numbers with 0 that is closed under successor is Nat.
LEMMA Inductive ==
  ASSUME NEW T \in SUBSET Nat, 0 \in T, \A n \in T : n + 1 \in T PROVE T = Nat
<1>1. SUFFICES ASSUME T # Nat PROVE FALSE
  OBVIOUS
<1>2. PICK m \in Nat \ T : \A n \in Nat \ T : ~(<<n, m>> \in Less)
  <2>1. Nat \ T \subseteq Nat /\ Nat \ T # {}
    BY <1>1
  <2>2. QED BY <2>1, LessWF, WFMin
<1>3. m - 1 \in Nat /\ m - 1 < m
  BY <1>2
<1>4. m - 1 \in T
  <2>1. <<m - 1, m>> \in Less
    BY <1>3 DEF Less
  <2>2. QED BY <1>2, <1>3, <2>1
<1>5. m - 1 + 1 = m
  BY <1>2
<1>6. QED BY <1>2, <1>4, <1>5

\* What of a call may be in the log.
Statuses == Terminal \cup {"preparing", "sent", "received"}
Records == [id : Calls \X (Nat \ {0}), status : Statuses]

\* A list with one record at most of each call, within the limit.
Book(t) ==
    /\ t \in Seq(Records) /\ Len(t) <= MaxItems
    /\ \A j, k \in DOMAIN t : t[j].id = t[k].id => j = k

\* S once r has taken the place of what it said of its call.
Plus(S, r) == {x \in S : x.id # r.id} \cup {r}

\* A line that cannot be read is not a record.
LEMMA GarbledIsNoRecord == Garbled \notin Records
BY DEF Garbled, Records

\* Memory with one more record is still in order, and says r of its call.
LEMMA KeptFacts ==
  ASSUME NEW t, Book(t), NEW r \in Records
  PROVE  Book(Kept(t, r)) /\ Range(Kept(t, r)) \subseteq Plus(Range(t), r)
<1>1. /\ t \in Seq(Records) /\ Len(t) \in Nat /\ DOMAIN t = 1..Len(t) /\ Len(t) <= MaxItems
      /\ \A j, k \in DOMAIN t : t[j].id = t[k].id => j = k
      /\ \A k \in DOMAIN t : t[k] \in Records
  BY DEF Book
<1>2. MaxItems \in Nat /\ MaxItems > 0
  BY LogAssumption
<1>3. CASE \E k \in DOMAIN t : t[k].id = r.id
  <2>1. PICK u : u = [k \in 1..Len(t) |-> IF t[k].id = r.id THEN r ELSE t[k]]
    OBVIOUS
  <2>2. Kept(t, r) = u
    BY <1>1, <1>3, <2>1 DEF Kept
  <2>3. u \in Seq(Records) /\ Len(u) = Len(t) /\ DOMAIN u = 1..Len(t)
    BY <1>1, <2>1
  <2>4. \A k \in 1..Len(t) : u[k].id = t[k].id
    BY <2>1
  <2>5. Book(u)
    BY <1>1, <2>3, <2>4 DEF Book
  <2>6. \A k \in 1..Len(t) : u[k] \in Plus(Range(t), r)
    BY <1>1, <2>1 DEF Plus, Range
  <2>7. Range(u) \subseteq Plus(Range(t), r)
    BY <2>3, <2>6 DEF Range
  <2>8. QED BY <2>2, <2>5, <2>7
<1>4. CASE ~\E k \in DOMAIN t : t[k].id = r.id
  <2>1. PICK b : b = IF Len(t) < MaxItems THEN t ELSE Tail(t)
    OBVIOUS
  <2>2. Kept(t, r) = Append(b, r)
    BY <1>4, <2>1 DEF Kept
  <2>3. PICK o \in Nat : /\ b \in Seq(Records) /\ Len(b) \in Nat /\ Len(b) < MaxItems
                         /\ Len(b) + o <= Len(t)
                         /\ \A k \in 1..Len(b) : b[k] = t[k + o]
    <3>1. CASE Len(t) < MaxItems
      <4>1. b = t
        BY <2>1, <3>1
      <4>2. \A k \in 1..Len(b) : k + 0 = k
        BY <1>1, <4>1
      <4>3. /\ b \in Seq(Records) /\ Len(b) \in Nat /\ Len(b) < MaxItems /\ Len(b) + 0 <= Len(t)
            /\ \A k \in 1..Len(b) : b[k] = t[k + 0]
        BY <1>1, <3>1, <4>1, <4>2
      <4>4. QED BY <4>3
    <3>2. CASE ~(Len(t) < MaxItems)
      <4>1. b = Tail(t) /\ t # <<>>
        BY <1>1, <1>2, <2>1, <3>2
      <4>2. /\ b \in Seq(Records) /\ Len(b) = Len(t) - 1 /\ \A k \in 1..Len(b) : b[k] = t[k + 1]
        BY <1>1, <4>1
      <4>3. /\ Len(b) \in Nat /\ Len(b) < MaxItems /\ Len(b) + 1 <= Len(t)
        BY <1>1, <1>2, <3>2, <4>2
      <4>4. QED BY <4>2, <4>3
    <3>3. QED BY <3>1, <3>2
  <2>4. PICK u : u = Append(b, r)
    OBVIOUS
  <2>5. /\ u \in Seq(Records) /\ Len(u) = Len(b) + 1 /\ DOMAIN u = 1..(Len(b) + 1)
        /\ \A k \in 1..Len(b) : u[k] = b[k]
        /\ u[Len(b) + 1] = r
    BY <2>3, <2>4
  <2>6. ASSUME NEW k \in 1..Len(b) PROVE u[k] = t[k + o] /\ k + o \in DOMAIN t
    BY <1>1, <2>3, <2>5
  <2>7. ASSUME NEW k \in DOMAIN u
        PROVE \/ k = Len(b) + 1 /\ u[k] = r
              \/ k \in 1..Len(b) /\ u[k] = t[k + o] /\ k + o \in DOMAIN t
    BY <2>3, <2>5, <2>6
  <2>8. ASSUME NEW j \in DOMAIN u, NEW k \in DOMAIN u, u[j].id = u[k].id PROVE j = k
    <3>1. j \in Nat /\ k \in Nat
      BY <2>3, <2>5
    <3>2. CASE j = Len(b) + 1
      BY <1>4, <2>7, <2>8, <3>2
    <3>3. CASE k = Len(b) + 1
      BY <1>4, <2>7, <2>8, <3>3
    <3>4. CASE j # Len(b) + 1 /\ k # Len(b) + 1
      <4>1. u[j] = t[j + o] /\ u[k] = t[k + o] /\ j + o \in DOMAIN t /\ k + o \in DOMAIN t
        BY <2>7, <3>4
      <4>2. j + o = k + o
        BY <1>1, <2>8, <4>1
      <4>3. QED BY <2>3, <3>1, <4>2
    <3>5. QED BY <3>2, <3>3, <3>4
  <2>9. Book(u)
    <3>1. Len(u) <= MaxItems
      BY <1>2, <2>3, <2>5
    <3>2. QED BY <2>5, <2>8, <3>1 DEF Book
  <2>10. ASSUME NEW k \in DOMAIN u PROVE u[k] \in Plus(Range(t), r)
    <3>1. CASE u[k] = r
      BY <3>1 DEF Plus
    <3>2. CASE k + o \in DOMAIN t /\ u[k] = t[k + o]
      BY <1>4, <3>2 DEF Plus, Range
    <3>3. QED BY <2>7, <3>1, <3>2
  <2>11. Range(u) \subseteq Plus(Range(t), r)
    BY <2>10 DEF Range
  <2>12. QED BY <2>2, <2>4, <2>9, <2>11
<1>5. QED BY <1>3, <1>4

\* One line of the file read.
ReadStep(g, file, n) ==
  IF n = 0 THEN <<>> ELSE IF Readable(file[n]) THEN Kept(g[n-1], file[n]) ELSE g[n-1]

\* The recursion of Replay has a solution: extended line by line.
LEMMA ReadExists ==
  ASSUME NEW file, NEW N \in Nat
  PROVE  \E g : g = [n \in 0..N |-> ReadStep(g, file, n)]
<1> DEFINE T == {m \in Nat : \E g : g = [n \in 0..m |-> ReadStep(g, file, n)]}
<1>1. 0 \in T
  <2> DEFINE g == [n \in 0..0 |-> ReadStep(<<>>, file, 0)]
  <2>1. g = [n \in 0..0 |-> ReadStep(g, file, n)]
    BY DEF ReadStep
  <2>2. QED BY <2>1
<1>2. ASSUME NEW m \in T PROVE m + 1 \in T
  <2>1. m \in Nat
    OBVIOUS
  <2>2. PICK g : g = [n \in 0..m |-> ReadStep(g, file, n)]
    OBVIOUS
  <2> DEFINE h == [n \in 0..m+1 |-> IF n <= m THEN g[n] ELSE ReadStep(g, file, n)]
  <2>3. ASSUME NEW n \in 0..m+1 PROVE h[n] = ReadStep(h, file, n)
    <3>1. n = 0 \/ (n - 1 \in 0..m /\ h[n-1] = g[n-1])
      BY <2>1
    <3>2. ReadStep(h, file, n) = ReadStep(g, file, n)
      <4>1. PICK x, y : x = h[n-1] /\ y = g[n-1]
        OBVIOUS
      <4>2. n = 0 \/ x = y
        BY <3>1, <4>1
      <4> HIDE DEF h
      <4>3. QED BY <4>1, <4>2 DEF ReadStep
    <3>3. h[n] = ReadStep(g, file, n)
      <4>1. CASE n <= m
        BY <2>1, <2>2, <4>1
      <4>2. CASE ~(n <= m)
        BY <4>2
      <4>3. QED BY <4>1, <4>2
    <3>4. QED BY <3>2, <3>3
  <2>4. h = [n \in 0..m+1 |-> ReadStep(h, file, n)]
    BY <2>3
  <2> HIDE DEF h
  <2>5. \E x : x = [n \in 0..m+1 |-> ReadStep(x, file, n)]
    BY <2>4
  <2>6. QED BY <2>1, <2>5
<1>3. T \in SUBSET Nat
  OBVIOUS
<1> HIDE DEF T
<1>4. T = Nat
  BY <1>1, <1>2, <1>3, Inductive
<1>5. N \in T
  BY <1>4
<1>6. QED BY <1>5 DEF T

\* And Replay is its last value.
LEMMA ReplaySteps ==
  ASSUME NEW file, Len(file) \in Nat
  PROVE  \E g : g = [n \in 0..Len(file) |-> ReadStep(g, file, n)] /\ Replay(file) = g[Len(file)]
<1> DEFINE g == CHOOSE g : g = [n \in 0..Len(file) |-> ReadStep(g, file, n)]
<1>1. Replay(file) = g[Len(file)]
  BY DEF Replay, ReadStep
<1>2. g = [n \in 0..Len(file) |-> ReadStep(g, file, n)]
  BY ReadExists
<1> HIDE DEF g
<1>3. QED BY <1>1, <1>2

\* Nothing is read from nothing.
LEMMA ReplayNothing == Replay(<<>>) = <<>>
<1>1. Len(<<>>) = 0
  OBVIOUS
<1>2. PICK g : g = [n \in 0..0 |-> ReadStep(g, <<>>, n)] /\ Replay(<<>>) = g[0]
  BY <1>1, ReplaySteps
<1>3. g[0] = ReadStep(g, <<>>, 0)
  BY <1>2
<1>4. QED BY <1>2, <1>3 DEF ReadStep

\* Two files that begin alike read alike so far.
LEMMA ReadAlike ==
  ASSUME NEW a, NEW b, NEW g, NEW h, NEW M \in Nat, NEW N \in Nat, M <= N,
         g = [n \in 0..M |-> ReadStep(g, a, n)], h = [n \in 0..N |-> ReadStep(h, b, n)],
         \A k \in 1..M : a[k] = b[k]
  PROVE  g[M] = h[M]
<1> DEFINE T == {m \in Nat : m <= M => g[m] = h[m]}
<1>1. 0 \in T
  <2>1. 0 \in 0..M /\ 0 \in 0..N
    OBVIOUS
  <2>2. g[0] = ReadStep(g, a, 0) /\ h[0] = ReadStep(h, b, 0)
    BY <2>1
  <2>3. QED BY <2>2 DEF ReadStep
<1>2. ASSUME NEW m \in T PROVE m + 1 \in T
  <2>1. m \in Nat
    OBVIOUS
  <2>2. SUFFICES ASSUME m + 1 <= M PROVE g[m + 1] = h[m + 1]
    BY <2>1
  <2>3. m + 1 \in 0..M /\ m + 1 \in 0..N /\ m + 1 \in 1..M /\ (m + 1) - 1 = m /\ m + 1 # 0
    BY <2>1, <2>2
  <2>4. g[m] = h[m] /\ a[m + 1] = b[m + 1]
    BY <2>1, <2>2, <2>3
  <2>5. g[m + 1] = ReadStep(g, a, m + 1) /\ h[m + 1] = ReadStep(h, b, m + 1)
    BY <2>3
  <2>6. PICK n : n = m + 1
    OBVIOUS
  <2>7. ReadStep(g, a, n) = ReadStep(h, b, n)
    BY <2>3, <2>4, <2>6 DEF ReadStep
  <2>8. QED BY <2>5, <2>6, <2>7
<1>3. T \in SUBSET Nat
  OBVIOUS
<1> HIDE DEF T
<1>4. T = Nat
  BY <1>1, <1>2, <1>3, Inductive
<1>5. M \in T /\ M <= M
  BY <1>4
<1>6. QED BY <1>5 DEF T

\* One more line is kept, if it can be read.
LEMMA ReplayAppend ==
  ASSUME NEW A, NEW file \in Seq(A), NEW x \in A
  PROVE  Replay(Append(file, x)) = IF Readable(x) THEN Kept(Replay(file), x) ELSE Replay(file)
<1>1. PICK N, more : N = Len(file) /\ more = Append(file, x)
  OBVIOUS
<1>2. N \in Nat /\ Len(more) = N + 1 /\ Len(more) \in Nat /\ more[N + 1] = x /\ \A k \in 1..N : file[k] = more[k]
  BY <1>1
<1>3. PICK g : g = [n \in 0..N |-> ReadStep(g, file, n)] /\ Replay(file) = g[N]
  BY <1>1, <1>2, ReplaySteps
<1>4. PICK h : h = [n \in 0..N + 1 |-> ReadStep(h, more, n)] /\ Replay(more) = h[N + 1]
  BY <1>2, ReplaySteps
<1>5. g[N] = h[N]
  <2>1. N + 1 \in Nat /\ N <= N + 1
    BY <1>2
  <2>2. QED BY <1>2, <1>3, <1>4, <2>1, ReadAlike
<1>6. PICK n : n = N + 1
  OBVIOUS
<1>7. n \in 0..N + 1 /\ n # 0 /\ n - 1 = N
  BY <1>2, <1>6
<1>8. h[n] = ReadStep(h, more, n)
  BY <1>4, <1>7
<1>9. h[n] = IF Readable(x) THEN Kept(h[N], x) ELSE h[N]
  BY <1>2, <1>6, <1>7, <1>8 DEF ReadStep
<1>10. QED BY <1>1, <1>3, <1>4, <1>5, <1>6, <1>9

\* What is read is a book, whatever the file holds.
LEMMA ReplayBook ==
  ASSUME NEW file \in Seq(Records \cup {Garbled})
  PROVE  Book(Replay(file))
<1>1. PICK N : N = Len(file)
  OBVIOUS
<1>2. N \in Nat /\ \A k \in 1..N : file[k] \in Records \cup {Garbled}
  BY <1>1
<1>3. PICK g : g = [n \in 0..N |-> ReadStep(g, file, n)] /\ Replay(file) = g[N]
  BY <1>1, <1>2, ReplaySteps
<1> DEFINE T == {m \in Nat : m <= N => Book(g[m])}
<1>4. 0 \in T
  <2>1. 0 \in 0..N
    BY <1>2
  <2>2. g[0] = <<>>
    BY <1>3, <2>1 DEF ReadStep
  <2>3. <<>> \in Seq(Records) /\ Len(<<>>) = 0 /\ DOMAIN <<>> = {} /\ 0 <= MaxItems
    BY LogAssumption
  <2>4. Book(<<>>)
    BY <2>3 DEF Book
  <2>5. QED BY <2>2, <2>4
<1>5. ASSUME NEW m \in T PROVE m + 1 \in T
  <2>1. m \in Nat
    OBVIOUS
  <2>2. SUFFICES ASSUME m + 1 <= N PROVE Book(g[m + 1])
    BY <2>1
  <2>3. PICK n, t, x : n = m + 1 /\ t = g[m] /\ x = file[n]
    OBVIOUS
  <2>4. n \in 0..N /\ n \in 1..N /\ n - 1 = m /\ n # 0
    BY <1>2, <2>1, <2>2, <2>3
  <2>5. Book(t) /\ x \in Records \cup {Garbled}
    BY <1>2, <2>1, <2>2, <2>3, <2>4
  <2>6. g[n] = ReadStep(g, file, n)
    BY <1>3, <2>4
  <2>7. g[n] = IF Readable(x) THEN Kept(t, x) ELSE t
    BY <2>3, <2>4, <2>6 DEF ReadStep
  <2>8. Readable(x) => x \in Records
    BY <2>5 DEF Readable
  <2>9. Book(g[n])
    BY <2>5, <2>7, <2>8, KeptFacts
  <2>10. QED BY <2>3, <2>9
<1>6. T \in SUBSET Nat
  OBVIOUS
<1> HIDE DEF T
<1>7. T = Nat
  BY <1>4, <1>5, <1>6, Inductive
<1>8. N \in T /\ N <= N
  BY <1>2, <1>7
<1>9. Book(g[N])
  BY <1>8 DEF T
<1>10. QED BY <1>3, <1>9

\* A book that was written out reads as it is.
LEMMA ReplayOfBook ==
  ASSUME NEW t, Book(t) PROVE Replay(t) = t
<1>1. PICK N : N = Len(t)
  OBVIOUS
<1>2. /\ t \in Seq(Records) /\ N \in Nat /\ N <= MaxItems /\ DOMAIN t = 1..N
      /\ \A k \in 1..N : t[k] \in Records
      /\ \A j, k \in 1..N : t[j].id = t[k].id => j = k
  BY <1>1 DEF Book
<1>3. PICK g : g = [n \in 0..N |-> ReadStep(g, t, n)] /\ Replay(t) = g[N]
  BY <1>1, <1>2, ReplaySteps
<1> DEFINE upto(m) == [k \in 1..m |-> t[k]]
<1> DEFINE T == {m \in Nat : m <= N => g[m] = upto(m)}
<1>4. 0 \in T
  <2>1. 0 \in 0..N /\ 1..0 = {}
    BY <1>2
  <2>2. g[0] = <<>>
    BY <1>3, <2>1 DEF ReadStep
  <2>3. upto(0) = <<>>
    BY <2>1
  <2>4. QED BY <2>2, <2>3
<1>5. ASSUME NEW m \in T PROVE m + 1 \in T
  <2>1. m \in Nat
    OBVIOUS
  <2>2. SUFFICES ASSUME m + 1 <= N PROVE g[m + 1] = upto(m + 1)
    BY <2>1
  <2>3. PICK n, u, x : n = m + 1 /\ u = upto(m) /\ x = t[n]
    OBVIOUS
  <2>4. n \in 0..N /\ n \in 1..N /\ n - 1 = m /\ n # 0 /\ m < MaxItems /\ 1..m \subseteq 1..N
    BY <1>2, <2>1, <2>2, <2>3, LogAssumption
  <2>5. g[m] = u /\ x \in Records
    BY <1>2, <2>1, <2>2, <2>3, <2>4
  <2>6. Readable(x)
    BY <2>5, GarbledIsNoRecord DEF Readable
  <2>7. g[n] = ReadStep(g, t, n)
    BY <1>3, <2>4
  <2>8. g[n] = Kept(u, x)
    BY <2>3, <2>4, <2>5, <2>6, <2>7 DEF ReadStep
  <2>9. u \in Seq(Records) /\ Len(u) = m /\ DOMAIN u = 1..m /\ \A k \in 1..m : u[k] = t[k]
    BY <1>2, <2>1, <2>3, <2>4
  <2>10. ~\E k \in DOMAIN u : u[k].id = x.id
    <3>1. SUFFICES ASSUME NEW k \in 1..m, t[k].id = t[n].id PROVE FALSE
      BY <2>3, <2>9
    <3>2. k \in 1..N /\ k # n
      BY <2>1, <2>3, <2>4
    <3>3. QED BY <1>2, <2>4, <3>1, <3>2
  <2>11. Kept(u, x) = Append(u, x)
    BY <2>4, <2>9, <2>10 DEF Kept
  <2>12. Append(u, x) = [k \in 1..n |-> IF k <= m THEN u[k] ELSE x]
    BY <2>1, <2>3, <2>5, <2>9
  <2>13. ASSUME NEW k \in 1..n PROVE (IF k <= m THEN u[k] ELSE x) = t[k]
    <3>1. CASE k <= m
      <4>1. k \in 1..m
        BY <2>1, <2>3, <3>1
      <4>2. QED BY <2>9, <3>1, <4>1
    <3>2. CASE ~(k <= m)
      <4>1. k = n
        BY <2>1, <2>3, <3>2
      <4>2. QED BY <2>3, <3>2, <4>1
    <3>3. QED BY <3>1, <3>2
  <2>14. g[n] = [k \in 1..n |-> t[k]]
    BY <2>8, <2>11, <2>12, <2>13
  <2>15. QED BY <2>3, <2>14
<1>6. T \in SUBSET Nat
  OBVIOUS
<1> HIDE DEF T
<1>7. T = Nat
  BY <1>4, <1>5, <1>6, Inductive
<1>8. g[N] = upto(N)
  BY <1>2, <1>7 DEF T
<1>9. upto(N) = t
  BY <1>2
<1>10. QED BY <1>3, <1>8, <1>9

\* One record of several.
AfterStep(g, l, id, statuses, n) ==
  IF n = 0 THEN l ELSE Upsert(g[n-1], [id |-> id, status |-> statuses[n]])

\* Its recursion has a solution, record by record.
LEMMA AfterExists ==
  ASSUME NEW l, NEW id, NEW statuses, NEW N \in Nat
  PROVE  \E g : g = [n \in 0..N |-> AfterStep(g, l, id, statuses, n)]
<1> DEFINE T == {m \in Nat : \E g : g = [n \in 0..m |-> AfterStep(g, l, id, statuses, n)]}
<1>1. 0 \in T
  <2> DEFINE g == [n \in 0..0 |-> AfterStep(<<>>, l, id, statuses, 0)]
  <2>1. g = [n \in 0..0 |-> AfterStep(g, l, id, statuses, n)]
    BY DEF AfterStep
  <2>2. QED BY <2>1
<1>2. ASSUME NEW m \in T PROVE m + 1 \in T
  <2>1. m \in Nat
    OBVIOUS
  <2>2. PICK g : g = [n \in 0..m |-> AfterStep(g, l, id, statuses, n)]
    OBVIOUS
  <2> DEFINE h == [n \in 0..m+1 |-> IF n <= m THEN g[n] ELSE AfterStep(g, l, id, statuses, n)]
  <2>3. ASSUME NEW n \in 0..m+1 PROVE h[n] = AfterStep(h, l, id, statuses, n)
    <3>1. n = 0 \/ (n - 1 \in 0..m /\ h[n-1] = g[n-1])
      BY <2>1
    <3>2. AfterStep(h, l, id, statuses, n) = AfterStep(g, l, id, statuses, n)
      <4>1. PICK x, y : x = h[n-1] /\ y = g[n-1]
        OBVIOUS
      <4>2. n = 0 \/ x = y
        BY <3>1, <4>1
      <4> HIDE DEF h
      <4>3. QED BY <4>1, <4>2 DEF AfterStep
    <3>3. h[n] = AfterStep(g, l, id, statuses, n)
      <4>1. CASE n <= m
        BY <2>1, <2>2, <4>1
      <4>2. CASE ~(n <= m)
        BY <4>2
      <4>3. QED BY <4>1, <4>2
    <3>4. QED BY <3>2, <3>3
  <2>4. h = [n \in 0..m+1 |-> AfterStep(h, l, id, statuses, n)]
    BY <2>3
  <2> HIDE DEF h
  <2>5. \E x : x = [n \in 0..m+1 |-> AfterStep(x, l, id, statuses, n)]
    BY <2>4
  <2>6. QED BY <2>1, <2>5
<1>3. T \in SUBSET Nat
  OBVIOUS
<1> HIDE DEF T
<1>4. T = Nat
  BY <1>1, <1>2, <1>3, Inductive
<1>5. N \in T
  BY <1>4
<1>6. QED BY <1>5 DEF T

\* And UpsertAll is its last value.
LEMMA UpsertAllSteps ==
  ASSUME NEW l, NEW id, NEW statuses, Len(statuses) \in Nat
  PROVE  \E g : /\ g = [n \in 0..Len(statuses) |-> AfterStep(g, l, id, statuses, n)]
                /\ UpsertAll(l, id, statuses) = g[Len(statuses)]
<1> DEFINE g == CHOOSE g : g = [n \in 0..Len(statuses) |-> AfterStep(g, l, id, statuses, n)]
<1>1. UpsertAll(l, id, statuses) = g[Len(statuses)]
  BY DEF UpsertAll, AfterStep
<1>2. g = [n \in 0..Len(statuses) |-> AfterStep(g, l, id, statuses, n)]
  BY AfterExists
<1> HIDE DEF g
<1>3. QED BY <1>1, <1>2

\* A log has its fields and no others.
IsLog(l) == l = [items |-> l.items, file |-> l.file, torn |-> l.torn, writes |-> l.writes]

\* What a log says: in memory it keeps a book of records in M, and a restart would read records in D.
LogHolds(l, M, D) ==
    /\ IsLog(l) /\ Book(l.items) /\ l.file \in Seq(Records \cup {Garbled}) /\ l.torn \in BOOLEAN
    /\ Range(l.items) \subseteq M
    /\ MayLoad(l) => Range(Replay(l.file)) \subseteq D

\* A restart would read what memory holds, unless a line was swallowed.
AllReadable(l) == \A k \in DOMAIN l.file : Readable(l.file[k])
InStep(l) == AllReadable(l) => Replay(l.file) = l.items

\* A file that was written anew holds what memory does.
LEMMA RewrittenHolds ==
  ASSUME NEW l, IsLog(l), Book(l.items), NEW M, NEW D, Range(l.items) \subseteq M, M \subseteq D
  PROVE  LogHolds(Rewritten(l), M, D) /\ InStep(Rewritten(l)) /\ Rewritten(l).torn = FALSE
<1>1. PICK t, k : t = l.items /\ k = Rewritten(l)
  OBVIOUS
<1>2. k = [items |-> t, file |-> t, torn |-> FALSE, writes |-> 0]
  BY <1>1 DEF Rewritten, IsLog
<1>3. Replay(t) = t
  BY <1>1, ReplayOfBook
<1>4. t \in Seq(Records \cup {Garbled})
  BY <1>1 DEF Book
<1>5. IsLog(k)
  BY <1>2 DEF IsLog
<1>6. QED BY <1>1, <1>2, <1>3, <1>4, <1>5 DEF LogHolds, InStep

\* The log once memory keeps r.
WithKept(l, r) == [l EXCEPT !.items = Kept(@, r)]

\* A line that was added: read as it is, or swallowed with the torn one.
LEMMA AppendedHolds ==
  ASSUME NEW l, NEW M, NEW D, M \subseteq D, LogHolds(l, M, D), InStep(l),
         NEW r \in Records, l.torn => \A x \in D : x.id # r.id,
         NEW k, k = WithKept(l, r)
  PROVE  /\ LogHolds(Appended(k, r), Plus(M, r), Plus(D, r))
         /\ InStep(Appended(k, r)) /\ Appended(k, r).torn = FALSE
<1>1. PICK t, f, u, line, o :
        /\ t = l.items /\ f = l.file /\ u = Kept(t, r) /\ o = Appended(k, r)
        /\ line = IF l.torn THEN Garbled ELSE r
  OBVIOUS
<1>2. /\ IsLog(l) /\ Book(t) /\ f \in Seq(Records \cup {Garbled}) /\ l.torn \in BOOLEAN
      /\ Range(t) \subseteq M /\ (MayLoad(l) => Range(Replay(f)) \subseteq D)
  BY <1>1 DEF LogHolds
<1>3. k.items = u /\ k.file = f /\ k.torn = l.torn /\ k.writes = l.writes
  BY <1>1, <1>2 DEF IsLog, WithKept
<1>4. o = [items |-> u, file |-> Append(f, line), torn |-> FALSE, writes |-> l.writes + 1]
  BY <1>1, <1>2, <1>3 DEF Appended, IsLog, WithKept
<1>5. Book(u) /\ Range(u) \subseteq Plus(Range(t), r)
  BY <1>1, <1>2, KeptFacts
<1>6. Range(u) \subseteq Plus(M, r)
  BY <1>2, <1>5 DEF Plus
<1>7. line \in Records \cup {Garbled}
  BY <1>1
<1>8. PICK more : more = Append(f, line)
  OBVIOUS
<1>9. /\ more \in Seq(Records \cup {Garbled}) /\ Len(f) \in Nat /\ Len(more) = Len(f) + 1
      /\ DOMAIN f = 1..Len(f) /\ DOMAIN more = 1..Len(f) + 1
      /\ \A n \in 1..Len(f) : more[n] = f[n]
      /\ more[Len(f) + 1] = line
  BY <1>2, <1>7, <1>8
<1>10. Replay(more) = IF Readable(line) THEN Kept(Replay(f), line) ELSE Replay(f)
  BY <1>2, <1>7, <1>8, ReplayAppend
<1>11. o.items = u /\ o.file = more /\ o.torn = FALSE
  BY <1>4, <1>8
<1>12. Readable(r) /\ ~Readable(Garbled)
  BY GarbledIsNoRecord DEF Readable
<1>13. AllReadable(o) => AllReadable(l) /\ ~l.torn
  BY <1>1, <1>9, <1>11, <1>12 DEF AllReadable
<1>14. MayLoad(o) => AllReadable(l)
  <2>1. SUFFICES ASSUME MayLoad(o), NEW n \in 1..Len(f) PROVE Readable(f[n])
    BY <1>1, <1>9 DEF AllReadable
  <2>2. n \in DOMAIN more /\ n # Len(more) /\ more[n] = f[n]
    BY <1>9
  <2>3. QED BY <1>11, <2>1, <2>2 DEF MayLoad
<1>15. AllReadable(l) => Replay(f) = t
  BY <1>1 DEF InStep
<1>16. InStep(o)
  <2>1. SUFFICES ASSUME AllReadable(o) PROVE Replay(more) = u
    BY <1>11 DEF InStep
  <2>2. line = r /\ Replay(f) = t
    BY <1>1, <1>13, <1>15, <2>1
  <2>3. QED BY <1>1, <1>10, <1>12, <2>2
<1>17. MayLoad(o) => Range(Replay(more)) \subseteq Plus(D, r)
  <2>1. SUFFICES ASSUME MayLoad(o) PROVE Range(Replay(more)) \subseteq Plus(D, r)
    OBVIOUS
  <2>2. Replay(f) = t
    BY <1>14, <1>15, <2>1
  <2>3. CASE l.torn
    <3>1. Replay(more) = t
      BY <1>1, <1>10, <1>12, <2>2, <2>3
    <3>2. QED BY <1>2, <2>3, <3>1 DEF Plus
  <2>4. CASE ~l.torn
    <3>1. Replay(more) = u
      BY <1>1, <1>10, <1>12, <2>2, <2>4
    <3>2. QED BY <1>6, <3>1 DEF Plus
  <2>5. QED BY <2>3, <2>4
<1>18. IsLog(o)
  BY <1>4 DEF IsLog
<1>19. QED BY <1>1, <1>5, <1>6, <1>9, <1>11, <1>16, <1>17, <1>18 DEF LogHolds

\* One record written.
LEMMA UpsertHolds ==
  ASSUME NEW l, NEW M, NEW D, M \subseteq D, LogHolds(l, M, D), InStep(l),
         NEW r \in Records, l.torn => \A x \in D : x.id # r.id
  PROVE  /\ LogHolds(Upsert(l, r), Plus(M, r), Plus(D, r))
         /\ InStep(Upsert(l, r)) /\ Upsert(l, r).torn = FALSE
<1>1. PICK k : k = WithKept(l, r)
  OBVIOUS
<1>2. Upsert(l, r) = IF l.writes >= MaxItems * LinesPerItem THEN Rewritten(k) ELSE Appended(k, r)
  BY <1>1 DEF Upsert, WithKept
<1>3. CASE l.writes >= MaxItems * LinesPerItem
  <2>1. IsLog(l) /\ Book(l.items) /\ Range(l.items) \subseteq M
    BY DEF LogHolds
  <2>2. IsLog(k) /\ k.items = Kept(l.items, r)
    BY <1>1, <2>1 DEF IsLog, WithKept
  <2>3. Book(k.items) /\ Range(k.items) \subseteq Plus(M, r)
    <3>1. Book(Kept(l.items, r)) /\ Range(Kept(l.items, r)) \subseteq Plus(Range(l.items), r)
      BY <2>1, KeptFacts
    <3>2. Plus(Range(l.items), r) \subseteq Plus(M, r)
      BY <2>1 DEF Plus
    <3>3. QED BY <2>2, <3>1, <3>2
  <2>4. Plus(M, r) \subseteq Plus(D, r)
    BY DEF Plus
  <2>5. PICK MM, DD : MM = Plus(M, r) /\ DD = Plus(D, r)
    OBVIOUS
  <2>6. LogHolds(Rewritten(k), MM, DD) /\ InStep(Rewritten(k)) /\ Rewritten(k).torn = FALSE
    BY <2>2, <2>3, <2>4, <2>5, RewrittenHolds
  <2>7. QED BY <1>2, <1>3, <2>5, <2>6
<1>4. CASE ~(l.writes >= MaxItems * LinesPerItem)
  <2>1. /\ LogHolds(Appended(k, r), Plus(M, r), Plus(D, r))
        /\ InStep(Appended(k, r)) /\ Appended(k, r).torn = FALSE
    BY <1>1, AppendedHolds
  <2>2. Upsert(l, r) = Appended(k, r)
    BY <1>2, <1>4
  <2>3. QED BY <2>1, <2>2
<1>5. QED BY <1>3, <1>4

\* Records of one call, of which r is the last.
Telling(id, statuses, r) ==
    /\ id \in Calls \X (Nat \ {0}) /\ statuses \in Seq(Statuses) /\ Len(statuses) > 0
    /\ r = [id |-> id, status |-> Last(statuses)]

\* The file ends with a whole line.
Whole(l) == l.torn = FALSE

\* Several records of one call written, of which the last one stays.
LEMMA UpsertAllHolds ==
  ASSUME NEW l, NEW M, NEW D, M \subseteq D, LogHolds(l, M, D), InStep(l),
         NEW id, NEW statuses, NEW r, Telling(id, statuses, r),
         l.torn => \A x \in D : x.id # id
  PROVE  /\ LogHolds(UpsertAll(l, id, statuses), Plus(M, r), Plus(D, r))
         /\ InStep(UpsertAll(l, id, statuses)) /\ Whole(UpsertAll(l, id, statuses))
<1>1. PICK N : N = Len(statuses)
  OBVIOUS
<1>0. id \in Calls \X (Nat \ {0}) /\ r = [id |-> id, status |-> Last(statuses)]
  BY DEF Telling
<1>2. N \in Nat /\ N > 0 /\ \A n \in 1..N : statuses[n] \in Statuses
  BY <1>1 DEF Telling
<1>3. PICK g : g = [n \in 0..N |-> AfterStep(g, l, id, statuses, n)] /\ UpsertAll(l, id, statuses) = g[N]
  BY <1>1, <1>2, UpsertAllSteps
<1> DEFINE rec(n) == [id |-> id, status |-> statuses[n]]
<1> DEFINE Fine(n) == /\ LogHolds(g[n], Plus(M, rec(n)), Plus(D, rec(n)))
                      /\ InStep(g[n]) /\ g[n].torn = FALSE
<1>4. ASSUME NEW n \in 1..N PROVE rec(n) \in Records /\ g[n] = Upsert(g[n-1], rec(n))
  <2>1. n \in 0..N /\ n # 0
    BY <1>2
  <2>2. g[n] = AfterStep(g, l, id, statuses, n)
    BY <1>3, <2>1
  <2>3. QED BY <1>0, <1>2, <2>1, <2>2 DEF AfterStep, Records
<1> DEFINE T == {m \in Nat : m + 1 <= N => Fine(m + 1)}
<1>5. 0 \in T
  <2>1. 1 \in 1..N /\ 0 \in 0..N /\ 1 - 1 = 0
    BY <1>2
  <2>2. g[0] = l
    BY <1>3, <2>1 DEF AfterStep
  <2>3. PICK x : x = rec(1)
    OBVIOUS
  <2>4. x \in Records /\ x.id = id /\ g[1] = Upsert(l, x)
    BY <1>4, <2>1, <2>2, <2>3
  <2> HIDE DEF rec, Fine
  <2>9. l.torn => \A y \in D : y.id # x.id
    BY <2>4
  <2>5. /\ LogHolds(Upsert(l, x), Plus(M, x), Plus(D, x))
        /\ InStep(Upsert(l, x)) /\ Upsert(l, x).torn = FALSE
    BY <2>4, <2>9, UpsertHolds
  <2>6. Fine(1)
    BY <2>3, <2>4, <2>5 DEF Fine
  <2> HIDE DEF Fine
  <2>7. Fine(0 + 1)
    BY <2>6
  <2>8. QED BY <2>7
<1>6. ASSUME NEW m \in T PROVE m + 1 \in T
  <2> HIDE DEF Fine, rec
  <2>1. m \in Nat /\ m + 1 \in Nat
    OBVIOUS
  <2>2. SUFFICES ASSUME (m + 1) + 1 <= N PROVE Fine((m + 1) + 1)
    BY <2>1
  <2>3. PICK n : n = m + 1
    OBVIOUS
  <2>4. Fine(n)
    BY <1>2, <2>1, <2>2, <2>3
  <2>5. PICK x, y : x = rec(n) /\ y = rec(n + 1)
    OBVIOUS
  <2>6. y \in Records /\ g[n + 1] = Upsert(g[n], y) /\ x.id = id /\ y.id = id
    <3> USE DEF rec
    <3>1. n + 1 \in 1..N /\ (n + 1) - 1 = n
      BY <1>2, <2>1, <2>2, <2>3
    <3>2. QED BY <1>4, <2>5, <3>1
  <2>7. PICK k, MM, DD : k = g[n] /\ MM = Plus(M, x) /\ DD = Plus(D, x)
    OBVIOUS
  <2>8. MM \subseteq DD /\ LogHolds(k, MM, DD) /\ InStep(k) /\ k.torn = FALSE
    BY <2>4, <2>5, <2>7 DEF Plus, Fine
  <2>9. /\ LogHolds(Upsert(k, y), Plus(MM, y), Plus(DD, y))
        /\ InStep(Upsert(k, y)) /\ Upsert(k, y).torn = FALSE
    BY <2>6, <2>8, UpsertHolds
  <2>10. Plus(MM, y) = Plus(M, y) /\ Plus(DD, y) = Plus(D, y)
    BY <2>6, <2>7 DEF Plus
  <2>11. Fine(n + 1)
    BY <2>5, <2>6, <2>7, <2>9, <2>10 DEF Fine
  <2>12. QED BY <2>3, <2>11
<1>7. T \in SUBSET Nat
  OBVIOUS
<1> HIDE DEF T
<1>8. T = Nat
  BY <1>5, <1>6, <1>7, Inductive
<1>9. PICK m \in Nat : m + 1 = N
  <2>1. N - 1 \in Nat /\ (N - 1) + 1 = N
    BY <1>2
  <2>2. QED BY <2>1
<1>10. m \in T /\ m + 1 <= N
  BY <1>2, <1>8, <1>9
<1> HIDE DEF Fine
<1>11. Fine(N)
  BY <1>9, <1>10 DEF T
<1>12. rec(N) = r
  BY <1>0, <1>1, <1>2 DEF Last
<1>13. QED BY <1>3, <1>11, <1>12 DEF Fine, Whole

\* Nothing written changes nothing.
LEMMA NothingSaid ==
  ASSUME NEW l, NEW id PROVE UpsertAll(l, id, <<>>) = l
<1>1. Len(<<>>) = 0
  OBVIOUS
<1>2. PICK g : g = [n \in 0..0 |-> AfterStep(g, l, id, <<>>, n)] /\ UpsertAll(l, id, <<>>) = g[0]
  BY <1>1, UpsertAllSteps
<1>3. g[0] = AfterStep(g, l, id, <<>>, 0)
  BY <1>2
<1>4. QED BY <1>2, <1>3 DEF AfterStep

\* A record as a restart leaves it.
Settles(x) == IF x.status \in Terminal THEN x ELSE [x EXCEPT !.status = "interrupted"]

\* A restart keeps what it reads, settled, and the file says so too.
LEMMA LoadHolds ==
  ASSUME NEW l, NEW M, NEW D, LogHolds(l, M, D), MayLoad(l),
         NEW S, S \subseteq D, \A x \in D \cap Records : Settles(x) \in S
  PROVE  LogHolds(Load(l), S, D) /\ InStep(Load(l)) /\ (Load(l).torn => l.torn)
<1>1. PICK found, seen, loaded :
        /\ found = Replay(l.file) /\ seen = Len(SelectSeq(l.file, Readable))
        /\ loaded = [l EXCEPT !.items = Interrupted(found), !.writes = seen]
  OBVIOUS
<1>2. /\ IsLog(l) /\ l.file \in Seq(Records \cup {Garbled}) /\ l.torn \in BOOLEAN
      /\ Range(found) \subseteq D
  BY <1>1 DEF LogHolds
<1>3. Book(found)
  BY <1>1, <1>2, ReplayBook
<1>4. PICK t : t = Interrupted(found)
  OBVIOUS
<1>5. loaded = [items |-> t, file |-> l.file, torn |-> l.torn, writes |-> seen]
  BY <1>1, <1>2, <1>4 DEF IsLog
<1>6. /\ found \in Seq(Records) /\ Len(found) \in Nat /\ DOMAIN found = 1..Len(found) /\ Len(found) <= MaxItems
      /\ \A j, k \in 1..Len(found) : found[j].id = found[k].id => j = k
      /\ \A k \in 1..Len(found) : found[k] \in Records /\ found[k] \in D
  BY <1>2, <1>3 DEF Book, Range
<1>7. t = [k \in 1..Len(found) |-> Settles(found[k])]
  BY <1>4, <1>6 DEF Interrupted, Settles
<1>8. ASSUME NEW x \in Records PROVE Settles(x) \in Records /\ Settles(x).id = x.id
  <2>1. x = [id |-> x.id, status |-> x.status] /\ x.id \in Calls \X (Nat \ {0}) /\ x.status \in Statuses
    BY DEF Records
  <2>2. CASE x.status \in Terminal
    BY <2>2 DEF Settles
  <2>3. CASE x.status \notin Terminal
    <3>1. PICK i, s : i = x.id /\ s = x.status /\ x = [id |-> i, status |-> s]
      BY <2>1
    <3>4. [x EXCEPT !.status = "interrupted"] = [id |-> i, status |-> "interrupted"]
      BY <3>1
    <3>5. Settles(x) = [id |-> i, status |-> "interrupted"]
      BY <2>3, <3>4 DEF Settles
    <3>2. "interrupted" \in Statuses
      BY DEF Statuses, Terminal
    <3>3. QED BY <2>1, <3>1, <3>2, <3>5 DEF Records
  <2>4. QED BY <2>2, <2>3
<1>9. \A k \in 1..Len(found) : t[k] \in Records /\ t[k].id = found[k].id /\ t[k] \in S
  BY <1>6, <1>7, <1>8
<1>10. t \in Seq(Records) /\ Len(t) = Len(found) /\ DOMAIN t = 1..Len(found)
  BY <1>6, <1>7, <1>9
<1>11. Book(t)
  BY <1>6, <1>9, <1>10 DEF Book
<1>12. Range(t) \subseteq S
  BY <1>9, <1>10 DEF Range
<1>13. Load(l) = IF loaded.items # found \/ loaded.writes >= MaxItems * LinesPerItem
                 THEN Rewritten(loaded) ELSE loaded
  BY <1>1 DEF Load
<1>14. IsLog(loaded) /\ loaded.items = t
  BY <1>5 DEF IsLog
<1>15. CASE Load(l) = Rewritten(loaded)
  BY <1>11, <1>12, <1>14, <1>15, RewrittenHolds
<1>16. CASE Load(l) = loaded /\ t = found
  <2>0. found = Replay(l.file)
    BY <1>1
  <2>1. InStep(loaded)
    BY <1>5, <1>16, <2>0 DEF InStep
  <2>2. Range(Replay(loaded.file)) \subseteq D
    BY <1>2, <1>5, <2>0
  <2>3. LogHolds(loaded, S, D)
    BY <1>2, <1>5, <1>11, <1>12, <1>14, <2>2 DEF LogHolds
  <2>4. QED BY <1>5, <1>16, <2>1, <2>3
<1>17. QED BY <1>13, <1>14, <1>15, <1>16

---------------------------------------------------------------------------
(* What the log says of the calls.                                         *)

\* What the record of a call's latest invocation says.
Tells(x, s) ==
    /\ x.at \in Waiting => s \notin Terminal
    /\ x.at \in {"ended", "past"} => s = x.outcome
    /\ x.at = "lost" => s \notin Terminal \/ s = "interrupted"

\* What the log may say of invocation n of a call: earlier ones are decided.
May(x, n, s) == n <= x.round /\ (n < x.round => s \in Terminal) /\ (n = x.round => Tells(x, s))

\* The records a file may hold, and those memory does: a restart settles what a crash left.
Allowed == {r \in Records : May(call[r.id[1]], r.id[2], r.status)}
Settled == {r \in Allowed : call[r.id[1]].at = "lost" => r.status \in Terminal}

\* A call that is at work or ended did so in this process, which wrote a line of it.
StoryInv ==
    /\ \A c \in Calls :
         /\ call[c].at \in Waiting \cup {"ended"} => up /\ (scenario.logged => log.torn = FALSE)
         /\ call[c].at \in {"ended", "past"} => call[c].outcome \in Terminal
         /\ call[c].at = "idle" <=> call[c].round = 0
         /\ call[c].at \in {"past", "lost"} => Batches = {}
    /\ ~up => Batches = {}

\* Memory and the file hold what they may, and a restart would read what memory holds.
BookInv ==
    scenario.logged =>
      /\ LogHolds(log, Settled, Allowed)
      /\ up => InStep(log)
      /\ ~up => log.items = <<>>

LogInv == StoryInv /\ BookInv

\* A record that memory holds is one the file may hold.
LEMMA SettledAreAllowed == Settled \subseteq Allowed
BY DEF Settled

\* A record names a call, one of its invocations and what came of it.
LEMMA RecordFacts ==
  ASSUME NEW r \in Records
  PROVE  /\ r = [id |-> r.id, status |-> r.status] /\ r.id \in Calls \X (Nat \ {0}) /\ r.status \in Statuses
         /\ r.id[1] \in Calls /\ r.id[2] \in Nat /\ r.id[2] > 0 /\ r.id = <<r.id[1], r.id[2]>>
BY DEF Records

\* More may be said than is.
LEMMA HoldsMore ==
  ASSUME NEW l, NEW M, NEW D, LogHolds(l, M, D), NEW S, NEW E, M \subseteq S, D \subseteq E
  PROVE  LogHolds(l, S, E)
BY DEF LogHolds

\* The log says of every call what came of it.
LEMMA LogInvAgrees ==
  ASSUME CallsShaped, LogInv
  PROVE  LogAgrees
<1>1. SUFFICES ASSUME scenario.logged, up PROVE LogAgrees
  BY DEF LogAgrees
<1>2. LogHolds(log, Settled, Allowed) /\ InStep(log) /\ StoryInv
  BY <1>1 DEF LogInv, BookInv
<1>3. InStep(log) => ((\A k \in DOMAIN log.file : Readable(log.file[k])) => Replay(log.file) = log.items)
  BY DEF InStep, AllReadable
<1>4. ASSUME NEW k \in DOMAIN log.items, NEW c, c = log.items[k].id[1], NEW s, s = log.items[k].status
      PROVE  IF Live(c) /\ log.items[k].id[2] = call[c].round THEN s \notin Terminal
             ELSE /\ s \in Terminal
                  /\ call[c].at \in {"ended", "past"} /\ log.items[k].id[2] = call[c].round =>
                       s = call[c].outcome
                  /\ call[c].at = "lost" /\ log.items[k].id[2] = call[c].round =>
                       s = "interrupted"
  <2>1. PICK r, n, x : r = log.items[k] /\ n = r.id[2] /\ x = call[c]
    OBVIOUS
  <2>2. r \in Settled
    BY <1>2, <2>1 DEF LogHolds, Range
  <2>3. r \in Records /\ May(x, n, s) /\ (x.at = "lost" => s \in Terminal)
    BY <1>4, <2>1, <2>2 DEF Settled, Allowed
  <2>4. c \in Calls /\ n \in Nat /\ n > 0
    BY <1>4, <2>1, <2>3, RecordFacts
  <2>5. /\ x.at \in Waiting \cup {"idle", "ended", "past", "lost"} /\ x.round \in Nat
        /\ x.at \in {"ended", "past"} => x.outcome \in Terminal
        /\ x.at = "idle" <=> x.round = 0
    BY <1>2, <2>1, <2>4 DEF CallsShaped, StoryInv
  <2>6. CASE n < x.round
    BY <1>4, <2>1, <2>3, <2>4, <2>5, <2>6 DEF May
  <2>7. CASE n = x.round
    <3>1. Tells(x, s) /\ x.at # "idle"
      BY <2>3, <2>4, <2>5, <2>7 DEF May
    <3>2. CASE x.at \in Waiting
      BY <2>1, <2>7, <3>1, <3>2 DEF Tells, Live
    <3>3. CASE x.at \in {"ended", "past"}
      BY <2>1, <2>5, <2>7, <3>1, <3>3 DEF Tells, Live, Waiting
    <3>4. CASE x.at = "lost"
      BY <2>1, <2>3, <2>7, <3>1, <3>4 DEF Tells, Live, Waiting
    <3>5. QED BY <2>5, <3>1, <3>2, <3>3, <3>4
  <2>8. QED BY <2>3, <2>4, <2>5, <2>6, <2>7 DEF May
<1>5. QED BY <1>2, <1>3, <1>4 DEF LogAgrees

\* A call's story goes on as it was: it stays where it is, or at work.
Same(c) ==
    /\ call'[c].round = call[c].round
    /\ \/ call'[c].at = call[c].at /\ call'[c].outcome = call[c].outcome
       \/ call[c].at \in Waiting /\ call'[c].at \in Waiting

\* What is said of a call is as true after a step that leaves its story alone.
LEMMA SameSays ==
  ASSUME NEW c \in Calls, Same(c), NEW n, NEW s, May(call[c], n, s)
  PROVE  May(call'[c], n, s)
<1>1. PICK x, y : x = call[c] /\ y = call'[c]
  OBVIOUS
<1>2. /\ y.round = x.round /\ May(x, n, s)
      /\ \/ y.at = x.at /\ y.outcome = x.outcome
         \/ x.at \in Waiting /\ y.at \in Waiting
  BY <1>1 DEF Same
<1>3. Tells(x, s) => Tells(y, s)
  BY <1>2 DEF Tells, Waiting
<1>4. QED BY <1>1, <1>2, <1>3 DEF May

\* A step that writes nothing and leaves every call's story alone.
LEMMA RestSays ==
  ASSUME LogInv, UNCHANGED <<scenario, log, up>>, \A c \in Calls : Same(c)
  PROVE  LogInv'
<1>1. Batches' = Batches
  BY DEF Batches, Known, Kind
<1>2. ASSUME NEW c \in Calls
      PROVE  /\ call'[c].at \in Waiting \cup {"ended"} => up' /\ (scenario'.logged => log'.torn = FALSE)
             /\ call'[c].at \in {"ended", "past"} => call'[c].outcome \in Terminal
             /\ call'[c].at = "idle" <=> call'[c].round = 0
             /\ call'[c].at \in {"past", "lost"} => Batches' = {}
  <2>1. PICK x, y : x = call[c] /\ y = call'[c]
    OBVIOUS
  <2>2. /\ y.round = x.round
        /\ \/ y.at = x.at /\ y.outcome = x.outcome
           \/ x.at \in Waiting /\ y.at \in Waiting
    BY <2>1 DEF Same
  <2>3. /\ x.at \in Waiting \cup {"ended"} => up /\ (scenario.logged => log.torn = FALSE)
        /\ x.at \in {"ended", "past"} => x.outcome \in Terminal
        /\ x.at = "idle" <=> x.round = 0
        /\ x.at \in {"past", "lost"} => Batches = {}
    BY <2>1 DEF LogInv, StoryInv
  <2>4. QED BY <1>1, <2>1, <2>2, <2>3 DEF Waiting
<1>3. StoryInv'
  BY <1>1, <1>2 DEF LogInv, StoryInv
<1>4. Allowed \subseteq Allowed'
  <2>1. SUFFICES ASSUME NEW r \in Allowed PROVE r \in Allowed'
    OBVIOUS
  <2>2. r \in Records /\ May(call[r.id[1]], r.id[2], r.status) /\ r.id[1] \in Calls
    BY RecordFacts DEF Allowed
  <2>3. May(call'[r.id[1]], r.id[2], r.status)
    BY <2>2, SameSays
  <2>4. QED BY <2>2, <2>3 DEF Allowed
<1>5. Settled \subseteq Settled'
  <2>1. SUFFICES ASSUME NEW r \in Settled PROVE r \in Settled'
    OBVIOUS
  <2>2. r \in Allowed /\ r \in Allowed' /\ r.id[1] \in Calls
    BY <1>4, RecordFacts DEF Settled, Allowed
  <2>3. call'[r.id[1]].at = "lost" => call[r.id[1]].at = "lost"
    BY <2>2 DEF Same, Waiting
  <2>4. call'[r.id[1]].at = "lost" => r.status \in Terminal
    BY <2>3 DEF Settled
  <2>5. QED BY <2>2, <2>4 DEF Settled
<1>6. BookInv'
  <2>1. SUFFICES ASSUME scenario.logged PROVE BookInv'
    BY DEF BookInv
  <2>2. LogHolds(log, Settled, Allowed) /\ (up => InStep(log)) /\ (~up => log.items = <<>>)
    BY <2>1 DEF LogInv, BookInv
  <2>3. LogHolds(log, Settled', Allowed')
    BY <1>4, <1>5, <2>2, HoldsMore
  <2>4. log' = log /\ up' = up
    OBVIOUS
  <2>5. LogHolds(log', Settled', Allowed') /\ (up' => InStep(log')) /\ (~up' => log'.items = <<>>)
    BY <2>2, <2>3, <2>4
  <2>6. QED BY <2>5 DEF BookInv
<1>7. QED BY <1>3, <1>6 DEF LogInv

\* Something is written of a call's invocation n, which is its latest now, and what was
\* said of the earlier ones is decided.
LEMMA SaidKeeps ==
  ASSUME LogInv, up, UNCHANGED <<scenario, up>>,
         NEW c \in Calls, NEW n \in Nat \ {0}, NEW statuses \in Seq(Statuses), Len(statuses) > 0,
         Logged(c, n, statuses),
         \A d \in Calls \ {c} : call'[d] = call[d],
         call'[c].at \in Waiting \cup {"ended"}, call'[c].round = n, Tells(call'[c], Last(statuses)),
         call'[c].at = "ended" => call'[c].outcome \in Terminal,
         \A m \in Nat \ {0} : \A s : May(call[c], m, s) => m = n \/ (m < n /\ s \in Terminal),
         scenario.logged /\ log.torn => call[c].round \in Nat /\ call[c].round < n
  PROVE  LogInv'
<1>1. Batches' = Batches
  BY DEF Batches, Known, Kind
<1>2. PICK id, last, r, y :
        id = <<c, n>> /\ last = Last(statuses) /\ r = [id |-> id, status |-> last] /\ y = call'[c]
  OBVIOUS
<1>3. /\ id \in Calls \X (Nat \ {0}) /\ id[1] = c /\ id[2] = n /\ r.id = id /\ r.status = last
      /\ last \in Statuses /\ r \in Records
  <2>1. last \in Statuses
    BY <1>2 DEF Last
  <2>2. QED BY <1>2, <2>1 DEF Records
<1>4. n \in Nat /\ n > 0
  OBVIOUS
<1>5. Plus(Allowed, r) \subseteq Allowed'
  <2>1. SUFFICES ASSUME NEW x \in Plus(Allowed, r) PROVE x \in Allowed'
    OBVIOUS
  <2>2. CASE x = r
    <3>1. May(y, n, last)
      BY <1>2, <1>4 DEF May
    <3>2. QED BY <1>2, <1>3, <2>2, <3>1 DEF Allowed
  <2>3. CASE x \in Allowed /\ x.id # id
    <3>1. /\ x \in Records /\ May(call[x.id[1]], x.id[2], x.status)
          /\ x.id[1] \in Calls /\ x.id[2] \in Nat \ {0} /\ x.id = <<x.id[1], x.id[2]>>
      BY <2>3, RecordFacts DEF Allowed
    <3>2. CASE x.id[1] # c
      BY <3>1, <3>2 DEF Allowed
    <3>3. CASE x.id[1] = c
      <4>1. x.id[2] # n
        BY <1>2, <2>3, <3>1, <3>3
      <4>2. x.id[2] < n /\ x.status \in Terminal
        BY <3>1, <3>3, <4>1
      <4>3. May(y, x.id[2], x.status)
        <5>1. PICK m : m = x.id[2]
          OBVIOUS
        <5>2. m \in Nat /\ m < n /\ y.round = n
          BY <1>2, <3>1, <4>2, <5>1
        <5>3. QED BY <1>4, <4>2, <5>1, <5>2 DEF May
      <4>4. QED BY <1>2, <3>1, <3>3, <4>3 DEF Allowed
    <3>4. QED BY <3>2, <3>3
  <2>4. QED BY <1>3, <2>2, <2>3 DEF Plus
<1>6. Plus(Settled, r) \subseteq Settled'
  <2>1. SUFFICES ASSUME NEW x \in Plus(Settled, r) PROVE x \in Settled'
    OBVIOUS
  <2>2. x \in Plus(Allowed, r)
    BY SettledAreAllowed DEF Plus
  <2>3. x \in Allowed' /\ x.id[1] \in Calls
    BY <1>5, <2>2, RecordFacts DEF Allowed
  <2>4. call'[x.id[1]].at = "lost" => x.status \in Terminal
    <3>1. CASE x.id[1] = c
      BY <3>1 DEF Waiting
    <3>2. CASE x.id[1] # c
      <4>1. x \in Settled /\ call'[x.id[1]] = call[x.id[1]]
        BY <1>3, <2>3, <3>2 DEF Plus
      <4>2. QED BY <4>1 DEF Settled
    <3>3. QED BY <3>1, <3>2
  <2>5. QED BY <2>3, <2>4 DEF Settled
<1>7. scenario.logged => /\ LogHolds(log', Settled', Allowed')
                         /\ InStep(log') /\ log'.torn = FALSE
  <2>1. SUFFICES ASSUME scenario.logged
                 PROVE  LogHolds(log', Settled', Allowed') /\ InStep(log') /\ log'.torn = FALSE
    OBVIOUS
  <2>2. LogHolds(log, Settled, Allowed) /\ InStep(log)
    BY <2>1 DEF LogInv, BookInv
  <2>3. log' = UpsertAll(log, id, statuses)
    BY <1>2, <2>1 DEF Logged
  <2>4. ASSUME log.torn, NEW x \in Allowed PROVE x.id # id
    <3>1. May(call[x.id[1]], x.id[2], x.status) /\ x.id[2] \in Nat
      BY RecordFacts DEF Allowed
    <3>2. CASE x.id[1] = c
      BY <1>3, <1>4, <2>1, <2>4, <3>1, <3>2 DEF May
    <3>3. QED BY <1>3, <3>2
  <2>5. PICK l, M, D : l = log /\ M = Settled /\ D = Allowed
    OBVIOUS
  <2>6. /\ M \subseteq D /\ LogHolds(l, M, D) /\ InStep(l)
        /\ l.torn => \A x \in D : x.id # id
    BY <2>2, <2>4, <2>5, SettledAreAllowed
  <2>7. Telling(id, statuses, r)
    BY <1>2, <1>3 DEF Telling
  <2>8. /\ LogHolds(UpsertAll(l, id, statuses), Plus(M, r), Plus(D, r))
        /\ InStep(UpsertAll(l, id, statuses)) /\ Whole(UpsertAll(l, id, statuses))
    <3>1. LogHolds(UpsertAll(l, id, statuses), Plus(M, r), Plus(D, r))
      BY <2>6, <2>7, UpsertAllHolds
    <3>2. InStep(UpsertAll(l, id, statuses))
      BY <2>6, <2>7, UpsertAllHolds
    <3>3. Whole(UpsertAll(l, id, statuses))
      BY <2>6, <2>7, UpsertAllHolds
    <3>4. QED BY <3>1, <3>2, <3>3
  <2>9. LogHolds(log', Plus(Settled, r), Plus(Allowed, r)) /\ InStep(log') /\ log'.torn = FALSE
    BY <2>3, <2>5, <2>8 DEF Whole
  <2>10. PICK P, Q : P = Plus(Settled, r) /\ Q = Plus(Allowed, r)
    OBVIOUS
  <2>11. LogHolds(log', Settled', Allowed')
    BY <1>5, <1>6, <2>9, <2>10, HoldsMore
  <2>12. QED BY <2>9, <2>11
<1>8. BookInv'
  BY <1>7 DEF BookInv
<1>9. ASSUME NEW d \in Calls
      PROVE  /\ call'[d].at \in Waiting \cup {"ended"} => up' /\ (scenario'.logged => log'.torn = FALSE)
             /\ call'[d].at \in {"ended", "past"} => call'[d].outcome \in Terminal
             /\ call'[d].at = "idle" <=> call'[d].round = 0
             /\ call'[d].at \in {"past", "lost"} => Batches' = {}
  <2>1. up' /\ (scenario'.logged => log'.torn = FALSE)
    BY <1>7
  <2>2. CASE d = c
    BY <1>4, <2>1, <2>2 DEF Waiting
  <2>3. CASE d # c
    <3>1. PICK x : x = call[d]
      OBVIOUS
    <3>2. /\ x.at \in {"ended", "past"} => x.outcome \in Terminal
          /\ x.at = "idle" <=> x.round = 0
          /\ x.at \in {"past", "lost"} => Batches = {}
      BY <3>1 DEF LogInv, StoryInv
    <3>3. QED BY <1>1, <2>1, <2>3, <3>1, <3>2
  <2>4. QED BY <2>2, <2>3
<1>10. StoryInv'
  BY <1>9 DEF StoryInv
<1>11. QED BY <1>8, <1>10 DEF LogInv

\* A step of a call that writes statuses of its invocation: it is at work, or it ended so.
Says(c, statuses) ==
    /\ \A d \in Calls \ {c} : call'[d] = call[d]
    /\ call'[c].round = call[c].round
    /\ statuses \in Seq(Statuses) /\ Len(statuses) > 0 /\ Logged(c, call[c].round, statuses)
    /\ \/ call'[c].at \in Waiting /\ Last(statuses) \notin Terminal
       \/ call'[c].at = "ended" /\ call'[c].outcome = Last(statuses) /\ Last(statuses) \in Terminal

\* A step of a call that writes nothing.
Silent(c) == log' = log /\ \A d \in Calls : Same(d)

\* What is written in one step: at most that the answer came, and one more status.
LEMMA SaidLists ==
  ASSUME NEW s \in Statuses
  PROVE  /\ <<s>> \in Seq(Statuses) /\ Len(<<s>>) > 0 /\ Last(<<s>>) = s
         /\ <<"received", s>> \in Seq(Statuses) /\ Len(<<"received", s>>) > 0 /\ Last(<<"received", s>>) = s
         /\ <<>> \o <<s>> = <<s>> /\ <<"received">> \o <<s>> = <<"received", s>>
<1>1. "received" \in Statuses
  BY DEF Statuses
<1>2. <<s>> \in Seq(Statuses) /\ Len(<<s>>) = 1 /\ <<s>>[1] = s
  OBVIOUS
<1>3. <<"received", s>> \in Seq(Statuses) /\ Len(<<"received", s>>) = 2 /\ <<"received", s>>[2] = s
  BY <1>1
<1>4. Last(<<s>>) = s /\ Last(<<"received", s>>) = s
  BY <1>2, <1>3 DEF Last
<1>5. <<>> \o <<s>> = <<s>>
  BY <1>2, ConcatEmptySeq
<1>7. <<"received">> \o <<s>> = <<"received", s>>
  <2>1. PICK u, v, w : u = <<"received">> /\ v = <<s>> /\ w = u \o v
    OBVIOUS
  <2>2. u \in Seq(Statuses) /\ v \in Seq(Statuses) /\ Len(u) = 1 /\ Len(v) = 1 /\ u[1] = "received" /\ v[1] = s
    BY <1>1, <1>2, <2>1
  <2>3. w \in Seq(Statuses) /\ Len(w) = 2 /\ w[1] = "received" /\ w[2] = s
    BY <2>1, <2>2
  <2>4. w = <<"received", s>>
    BY <1>3, <2>3
  <2>5. QED BY <2>1, <2>4
<1>6. QED BY <1>2, <1>3, <1>4, <1>5, <1>7

\* The end of a call is written.
LEMMA EndSays ==
  ASSUME CallsShaped, NEW c \in Calls, NEW g, NEW retryable \in BOOLEAN,
         NEW statuses \in Seq(Statuses), Len(statuses) > 0, Last(statuses) \in Terminal,
         End(c, g, statuses, retryable)
  PROVE  Says(c, statuses)
<1>1. Moves(c) /\ call'[c].at = "ended"
  BY EndFacts
<1>2. PICK o : o = Last(statuses)
  OBVIOUS
<1>3. call' = [call EXCEPT ![c].at = "ended", ![c].doomed = FALSE,
                           ![c].retryable = retryable, ![c].outcome = o]
  BY <1>2 DEF End
<1>4. call = [d \in Calls |-> call[d]] /\ IsCall(call[c])
  BY DEF CallsShaped
<1>5. call'[c] = [call[c] EXCEPT !.at = "ended", !.doomed = FALSE, !.retryable = retryable, !.outcome = o]
  BY <1>3, <1>4
<1>6. call'[c].outcome = o
  BY <1>4, <1>5 DEF IsCall
<1>7. Logged(c, call[c].round, statuses)
  BY DEF End
<1>8. QED BY <1>1, <1>2, <1>6, <1>7 DEF Says, Moves

\* A call that looks at the gate writes that it sent, or what it had to say before.
LEMMA StartSays ==
  ASSUME CallsShaped, NEW c \in Calls, Live(c), NEW g, NEW b, NEW said \in {<<>>, <<"received">>},
         Start(c, g, b, said)
  PROVE  Silent(c) \/ \E statuses : Says(c, statuses)
<1>1. Moves(c)
  BY StartFacts
<1>2. CASE g.stance[c] = "lease" /\ c \in late /\ Kind(c) \in {"viewer", "batch"}
  <2>1. PICK statuses, h : statuses = said \o <<"failed">> /\ h = Release(g, c)
    OBVIOUS
  <2>2. End(c, h, statuses, FALSE)
    BY <1>2, <2>1 DEF Start
  <2>3. statuses \in Seq(Statuses) /\ Len(statuses) > 0 /\ Last(statuses) = "failed"
    <3>1. "failed" \in Statuses
      BY DEF Statuses, Terminal
    <3>2. statuses = <<"failed">> \/ statuses = <<"received", "failed">>
      BY <2>1, <3>1, SaidLists
    <3>3. QED BY <3>1, <3>2, SaidLists
  <2>4. Last(statuses) \in Terminal
    BY <2>3 DEF Terminal
  <2>5. QED BY <2>2, <2>3, <2>4, EndSays
<1>3. CASE ~(g.stance[c] = "lease" /\ c \in late /\ Kind(c) \in {"viewer", "batch"})
           /\ g.stance[c] = "lease"
  <2>1. PICK statuses : statuses = said \o <<"sent">>
    OBVIOUS
  <2>2. Logged(c, call[c].round, statuses) /\ call'[c].at \in Waiting
    <3>1. call' = [call EXCEPT ![c].at = "server", ![c].repair = @ \/ said # <<>>]
          /\ Logged(c, call[c].round, statuses)
      BY <1>3, <2>1 DEF Start
    <3>2. call = [d \in Calls |-> call[d]] /\ IsCall(call[c])
      BY DEF CallsShaped
    <3>3. PICK o : o = (call[c].repair \/ said # <<>>)
      OBVIOUS
    <3>4. call'[c] = [call[c] EXCEPT !.at = "server", !.repair = o]
      BY <3>1, <3>2, <3>3
    <3>5. call'[c].at = "server"
      BY <3>2, <3>4 DEF IsCall
    <3>6. QED BY <3>1, <3>5 DEF Waiting
  <2>3. statuses \in Seq(Statuses) /\ Len(statuses) > 0 /\ Last(statuses) = "sent"
    <3>1. "sent" \in Statuses
      BY DEF Statuses
    <3>2. statuses = <<"sent">> \/ statuses = <<"received", "sent">>
      BY <2>1, <3>1, SaidLists
    <3>3. QED BY <3>1, <3>2, SaidLists
  <2>4. Last(statuses) \notin Terminal
    BY <2>3 DEF Terminal
  <2>5. QED BY <1>1, <2>2, <2>3, <2>4 DEF Says, Moves
<1>4. CASE g.stance[c] # "lease"
  <2>1. Logged(c, call[c].round, said) /\ call'[c].at \in Waiting
    BY <1>4, StartFacts DEF Start, Waiting
  <2>2. CASE said = <<>>
    <3>1. PICK id, k : id = <<c, call[c].round>> /\ k = log
      OBVIOUS
    <3>2. UpsertAll(k, id, <<>>) = k
      BY NothingSaid
    <3>3. log' = log
      BY <2>1, <2>2, <3>1, <3>2 DEF Logged
    <3>4. \A d \in Calls : Same(d)
      BY <1>1, <2>1 DEF Same, Moves, Live
    <3>5. QED BY <3>3, <3>4 DEF Silent
  <2>3. CASE said = <<"received">>
    <3>1. "received" \in Statuses /\ "received" \notin Terminal
      BY DEF Statuses, Terminal
    <3>2. said \in Seq(Statuses) /\ Len(said) > 0 /\ Last(said) = "received"
      BY <2>3, <3>1, SaidLists
    <3>3. QED BY <1>1, <2>1, <3>1, <3>2 DEF Says, Moves
  <2>4. QED BY <2>2, <2>3
<1>5. QED BY <1>2, <1>3, <1>4

\* The statuses a call may end with.
LEMMA EndsWith ==
  ASSUME CallsShaped, NEW c \in Calls, NEW g, NEW retryable \in BOOLEAN, NEW s \in Terminal,
         NEW statuses \in {<<s>>, <<"received", s>>}, End(c, g, statuses, retryable)
  PROVE  \E x : Says(c, x)
<1>1. s \in Statuses
  BY DEF Statuses
<1>2. statuses \in Seq(Statuses) /\ Len(statuses) > 0 /\ Last(statuses) \in Terminal
  BY <1>1, SaidLists
<1>3. QED BY <1>2, EndSays

\* Whatever a call does by itself, it says so.
LEMMA ServeSays ==
  ASSUME CallsShaped, NEW c \in Calls, Serve(c)
  PROVE  Silent(c) \/ \E statuses : Says(c, statuses)
<1>0. /\ Live(c) /\ Moves(c) /\ call = [d \in Calls |-> call[d]] /\ IsCall(call[c])
      /\ {"failed", "blocked", "succeeded", "cancelled"} \subseteq Terminal
  BY ServeMoves DEF CallsShaped, Terminal
<1>1. CASE PrepareFails(c)
  <2>1. PICK s \in {"failed", "blocked"} : End(c, gate, <<s>>, FALSE)
    BY <1>1 DEF PrepareFails
  <2>2. QED BY <1>0, <2>1, EndsWith
<1>2. CASE Prepared(c)
  <2>2. CASE call' = [call EXCEPT ![c].at = "slot"] /\ log' = log
    <3>1. call'[c] = [call[c] EXCEPT !.at = "slot"]
      BY <1>0, <2>2
    <3>2. call'[c].at = "slot"
      BY <1>0, <3>1 DEF IsCall
    <3>3. QED BY <1>0, <2>2, <3>2 DEF Silent, Same, Moves, Live, Waiting
  <2>3. CASE Start(c, Look(Join(gate, c), c), Spent(c), <<>>)
    BY <1>0, <2>3, StartSays
  <2>4. CASE End(c, gate, <<"failed">>, FALSE)
    BY <1>0, <2>4, EndsWith
  <2>5. QED BY <1>2, <2>2, <2>3, <2>4 DEF Prepared
<1>3. CASE TakeSlot(c)
  BY <1>0, <1>3, StartSays DEF TakeSlot
<1>4. CASE LookAgain(c)
  BY <1>0, <1>4, StartSays DEF LookAgain
<1>5. CASE AnswerGood(c)
  <2>1. End(c, Release(Praise(gate, c), c), <<"received", "succeeded">>, FALSE)
    BY <1>5 DEF AnswerGood
  <2>2. QED BY <1>0, <2>1, EndsWith
<1>6. CASE AnswerMissing(c)
  <2>1. PICK said \in {<<>>, <<"received">>} : End(c, Release(gate, c), said \o <<"failed">>, TRUE)
    BY <1>6 DEF AnswerMissing
  <2>2. "failed" \in Statuses
    BY <1>0 DEF Statuses
  <2>3. said \o <<"failed">> \in {<<"failed">>, <<"received", "failed">>}
    BY <2>2, SaidLists
  <2>4. QED BY <1>0, <2>1, <2>3, EndsWith
<1>7. CASE AnswerLimited(c)
  <2>1. PICK r : End(c, Release(Defer(gate, r), c), <<"received", "failed">>, TRUE)
    BY <1>7 DEF AnswerLimited
  <2>2. QED BY <1>0, <2>1, EndsWith
<1>8. CASE AnswerUseless(c)
  <2>1. PICK g : End(c, Release(g, c), <<"received", "failed">>, FALSE)
    BY <1>8 DEF AnswerUseless
  <2>2. QED BY <1>0, <2>1, EndsWith
<1>9. CASE AnswerNoJsonMode(c)
  <2>1. call' = [call EXCEPT ![c].plain = TRUE] /\ log' = log
    BY <1>9 DEF AnswerNoJsonMode
  <2>2. call'[c] = [call[c] EXCEPT !.plain = TRUE]
    BY <1>0, <2>1
  <2>3. call'[c].at = call[c].at
    BY <1>0, <2>2 DEF IsCall
  <2>4. QED BY <1>0, <2>1, <2>3 DEF Silent, Same, Moves, Live
<1>10. CASE AnswerBroken(c)
  <2>2. CASE Repair(c)
    BY <1>0, <2>2, StartSays DEF Repair
  <2>3. CASE End(c, Release(Praise(gate, c), c), <<"received", "failed">>, FALSE)
    BY <1>0, <2>3, EndsWith
  <2>4. QED BY <1>10, <2>2, <2>3 DEF AnswerBroken
<1>11. CASE Unwind(c)
  <2>1. PICK g : End(c, g, <<"cancelled">>, FALSE)
    BY <1>11 DEF Unwind
  <2>2. QED BY <1>0, <2>1, EndsWith
<1>12. QED
  BY <1>1, <1>2, <1>3, <1>4, <1>5, <1>6, <1>7, <1>8, <1>9, <1>10, <1>11 DEF Serve

\* Whatever a call does by itself keeps the log.
LEMMA ServeKeepsLog ==
  ASSUME CallsShaped, LogInv, NEW c \in Calls, Serve(c)
  PROVE  LogInv'
<1>1. UNCHANGED <<scenario, up>>
  BY DEF Serve, PrepareFails, Prepared, TakeSlot, LookAgain, AnswerGood, AnswerMissing,
         AnswerLimited, AnswerUseless, AnswerNoJsonMode, AnswerBroken, Unwind
<1>2. CASE Silent(c)
  BY <1>1, <1>2, RestSays DEF Silent
<1>3. CASE \E statuses : Says(c, statuses)
  <2>1. PICK statuses : Says(c, statuses)
    BY <1>3
  <2>2. call[c].at \in Waiting
    BY ServeMoves DEF Live
  <2>3. PICK n : n = call[c].round
    OBVIOUS
  <2>4. up /\ (scenario.logged => log.torn = FALSE) /\ n \in Nat \ {0}
    BY <2>2, <2>3 DEF LogInv, StoryInv, CallsShaped, Waiting
  <2>5. /\ \A d \in Calls \ {c} : call'[d] = call[d]
        /\ call'[c].round = n
        /\ statuses \in Seq(Statuses) /\ Len(statuses) > 0 /\ Logged(c, n, statuses)
        /\ \/ call'[c].at \in Waiting /\ Last(statuses) \notin Terminal
           \/ call'[c].at = "ended" /\ call'[c].outcome = Last(statuses) /\ Last(statuses) \in Terminal
    BY <2>1, <2>3 DEF Says
  <2>6. Tells(call'[c], Last(statuses))
    BY <2>5 DEF Tells, Waiting
  <2>7. \A m \in Nat \ {0} : \A s : May(call[c], m, s) => m = n \/ (m < n /\ s \in Terminal)
    BY <2>3, <2>4 DEF May
  <2>8. /\ call'[c].at \in Waiting \cup {"ended"}
        /\ call'[c].at = "ended" => call'[c].outcome \in Terminal
        /\ scenario.logged /\ log.torn => call[c].round \in Nat /\ call[c].round < n
    BY <2>4, <2>5 DEF Waiting
  <2>9. QED BY <1>1, <2>4, <2>5, <2>6, <2>7, <2>8, SaidKeeps
<1>4. QED BY <1>2, <1>3, ServeSays

\* A new invocation keeps the log: the one before is decided.
LEMMA InvokedKeepsLog ==
  ASSUME CallsShaped, LogInv, up, UNCHANGED <<scenario, up>>,
         NEW c \in Calls, call[c].at \in {"idle", "ended"}, Invoked(c)
  PROVE  LogInv'
<1>1. PICK x, n, y, statuses :
        /\ x = call[c] /\ n = x.round + 1 /\ y = [NoCall EXCEPT !.at = "prepare", !.round = n]
        /\ statuses = <<"preparing">>
  OBVIOUS
<1>2. /\ call = [d \in Calls |-> call[d]] /\ x.round \in Nat /\ x.at \in {"idle", "ended"}
      /\ x.at = "idle" <=> x.round = 0
      /\ x.at = "ended" => x.outcome \in Terminal
  BY <1>1 DEF CallsShaped, LogInv, StoryInv
<1>3. call' = [call EXCEPT ![c] = y] /\ Logged(c, n, statuses)
  BY <1>1 DEF Invoked
<1>4. call'[c] = y /\ \A d \in Calls \ {c} : call'[d] = call[d]
  BY <1>2, <1>3
<1>5. n \in Nat \ {0} /\ y.at = "prepare" /\ y.round = n
  BY <1>1, <1>2 DEF NoCall
<1>6. "preparing" \in Statuses /\ "preparing" \notin Terminal
  BY DEF Statuses, Terminal
<1>7. statuses \in Seq(Statuses) /\ Len(statuses) > 0 /\ Last(statuses) = "preparing"
  BY <1>1, <1>6, SaidLists
<1>8. Tells(call'[c], Last(statuses))
  BY <1>4, <1>5, <1>6, <1>7 DEF Tells
<1>9. \A m \in Nat \ {0} : \A s : May(call[c], m, s) => m = n \/ (m < n /\ s \in Terminal)
  <2>1. SUFFICES ASSUME NEW m \in Nat \ {0}, NEW s, May(x, m, s)
                 PROVE  m < n /\ s \in Terminal
    BY <1>1
  <2>2. CASE m = x.round
    <3>1. x.at = "ended" /\ Tells(x, s)
      BY <1>2, <2>1, <2>2 DEF May
    <3>2. s \in Terminal
      BY <1>2, <3>1 DEF Tells
    <3>3. QED BY <1>1, <1>2, <2>2, <3>2
  <2>3. CASE m # x.round
    BY <1>1, <1>2, <2>1, <2>3 DEF May
  <2>4. QED BY <2>2, <2>3
<1>10. /\ call'[c].at \in Waiting \cup {"ended"} /\ call'[c].round = n
       /\ call'[c].at = "ended" => call'[c].outcome \in Terminal
       /\ scenario.logged /\ log.torn => call[c].round \in Nat /\ call[c].round < n
  BY <1>1, <1>2, <1>4, <1>5 DEF Waiting
<1>11. QED BY <1>3, <1>4, <1>5, <1>7, <1>8, <1>9, <1>10, SaidKeeps

\* One of the records of a call is the latest.
LEMMA LatestExists ==
  ASSUME CallsShaped, LogInv, scenario.logged, NEW c \in Calls, Noted(c) # {}
  PROVE  \E k \in Noted(c) : \A j \in Noted(c) : log.items[j].id[2] <= log.items[k].id[2]
<1>1. PICK B, t : B = call[c].round /\ t = log.items
  OBVIOUS
<1>2. ASSUME NEW k \in Noted(c) PROVE t[k].id[2] \in Nat /\ t[k].id[2] <= B
  <2>1. k \in DOMAIN t /\ t[k].id[1] = c
    BY <1>1 DEF Noted
  <2>2. t[k] \in Allowed
    BY <1>1, <2>1, SettledAreAllowed DEF LogInv, BookInv, LogHolds, Range
  <2>3. t[k] \in Records /\ May(call[c], t[k].id[2], t[k].status)
    BY <2>1, <2>2 DEF Allowed
  <2>4. QED BY <1>1, <2>3, RecordFacts DEF May
<1>3. PICK T : T = {n \in Nat : \E k \in Noted(c) : n + t[k].id[2] = B}
  OBVIOUS
<1>4. B \in Nat
  BY <1>1 DEF CallsShaped
<1>5. \A k \in Noted(c) : B - t[k].id[2] \in T
  BY <1>2, <1>3, <1>4
<1>6. T \in SUBSET Nat /\ T # {}
  BY <1>3, <1>5
<1>7. PICK m \in T : \A n \in T : ~(<<n, m>> \in Less)
  BY <1>6, LessWF, WFMin
<1>8. PICK k \in Noted(c) : m + t[k].id[2] = B
  BY <1>3, <1>7
<1>9. ASSUME NEW j \in Noted(c) PROVE t[j].id[2] <= t[k].id[2]
  <2>1. PICK n, a, b : n = B - a /\ a = t[j].id[2] /\ b = t[k].id[2]
    OBVIOUS
  <2>2. n \in T /\ n \in Nat /\ m \in Nat /\ a \in Nat /\ b \in Nat /\ m + b = B
    BY <1>2, <1>5, <1>6, <1>8, <2>1
  <2>3. ~(n < m)
    BY <1>7, <2>2 DEF Less
  <2>4. a <= b
    BY <1>4, <2>1, <2>2, <2>3
  <2>5. QED BY <2>1, <2>4
<1>10. QED BY <1>1, <1>9

\* News of a viewer's lines is written into the record it belongs to, and nothing else changes.
LEMMA NoteOutputKeepsLog ==
  ASSUME CallsShaped, LogInv, NEW c \in Calls, NoteOutput(c)
  PROVE  LogInv'
<1>1. /\ scenario.logged /\ Noted(c) # {} /\ call[c].at = "ended"
      /\ UNCHANGED <<scenario, call, up>>
  BY DEF NoteOutput
<1>2. PICK k : k = CHOOSE i \in Noted(c) : \A j \in Noted(c) : log.items[j].id[2] <= log.items[i].id[2]
  OBVIOUS
<1>3. k \in Noted(c)
  BY <1>1, <1>2, LatestExists
<1>4. PICK l, M, D, r : l = log /\ M = Settled /\ D = Allowed /\ r = log.items[k]
  OBVIOUS
<1>5. log' = Upsert(l, r)
  BY <1>2, <1>4 DEF NoteOutput
<1>6. up /\ log.torn = FALSE
  BY <1>1 DEF LogInv, StoryInv
<1>7. LogHolds(l, M, D) /\ InStep(l) /\ M \subseteq D /\ l.torn = FALSE
  BY <1>1, <1>4, <1>6, SettledAreAllowed DEF LogInv, BookInv
<1>8. r \in M /\ r \in Records
  <2>1. k \in DOMAIN l.items /\ r = l.items[k]
    BY <1>3, <1>4 DEF Noted
  <2>2. r \in M
    BY <1>7, <2>1 DEF LogHolds, Range
  <2>3. QED BY <1>4, <2>2 DEF Settled, Allowed
<1>9. PICK k2, P, Q : k2 = Upsert(l, r) /\ P = Plus(M, r) /\ Q = Plus(D, r)
  OBVIOUS
<1>10. LogHolds(k2, P, Q) /\ InStep(k2) /\ k2.torn = FALSE
  BY <1>7, <1>8, <1>9, UpsertHolds
<1>11. P \subseteq M /\ Q \subseteq D
  BY <1>7, <1>8, <1>9 DEF Plus
<1>12. LogHolds(k2, M, D)
  BY <1>10, <1>11, HoldsMore
<1>13. Settled' = Settled /\ Allowed' = Allowed /\ Batches' = Batches
  BY <1>1 DEF Settled, Allowed, Batches, Known, Kind
<1>14. log' = k2
  BY <1>5, <1>9
<1>15. BookInv'
  BY <1>1, <1>4, <1>6, <1>10, <1>12, <1>13, <1>14 DEF BookInv
<1>16. StoryInv'
  BY <1>1, <1>10, <1>13, <1>14 DEF LogInv, StoryInv
<1>17. QED BY <1>15, <1>16 DEF LogInv

\* Where the end of the process leaves a call.
LEMMA CrashedFacts ==
  ASSUME CallsShaped, Crash, NEW c \in Calls
  PROVE  /\ call'[c].round = call[c].round /\ call'[c].outcome = call[c].outcome
         /\ call'[c].at = IF call[c].at \in Waiting THEN "lost"
                          ELSE IF call[c].at = "ended" THEN "past" ELSE call[c].at
<1>1. PICK x, a : x = call[c] /\ a = IF Live(c) THEN "lost" ELSE IF x.at = "ended" THEN "past" ELSE x.at
  OBVIOUS
<1>2. call'[c] = [x EXCEPT !.at = a, !.retryable = FALSE, !.doomed = FALSE] /\ IsCall(x)
  BY <1>1 DEF Crash, CallsShaped
<1>3. call'[c].round = x.round /\ call'[c].outcome = x.outcome /\ call'[c].at = a
  BY <1>2 DEF IsCall
<1>4. QED BY <1>1, <1>3 DEF Live

\* The end of the process loses what memory held and may tear the last line.
LEMMA CrashKeepsLog ==
  ASSUME CallsShaped, LogInv, Batches = {}, Crash
  PROVE  LogInv'
<1>1. UNCHANGED scenario /\ up' = FALSE /\ up
  BY DEF Crash
<1>2. Batches' = {}
  BY <1>1 DEF Batches, Known, Kind
<1>3. ASSUME NEW c \in Calls
      PROVE  /\ call'[c].at \notin Waiting \cup {"ended"}
             /\ call'[c].at \in {"ended", "past"} => call'[c].outcome \in Terminal
             /\ call'[c].at = "idle" <=> call'[c].round = 0
  <2>1. PICK x, y : x = call[c] /\ y = call'[c]
    OBVIOUS
  <2>2. /\ y.round = x.round /\ y.outcome = x.outcome
        /\ y.at = IF x.at \in Waiting THEN "lost" ELSE IF x.at = "ended" THEN "past" ELSE x.at
    BY <2>1, CrashedFacts
  <2>3. /\ x.at \in Waiting \cup {"idle", "ended", "past", "lost"}
        /\ x.at \in {"ended", "past"} => x.outcome \in Terminal
        /\ x.at = "idle" <=> x.round = 0
    BY <2>1 DEF CallsShaped, LogInv, StoryInv
  <2>4. QED BY <2>1, <2>2, <2>3 DEF Waiting
<1>4. StoryInv'
  BY <1>2, <1>3 DEF StoryInv
<1>5. Allowed \subseteq Allowed'
  <2>1. SUFFICES ASSUME NEW r \in Allowed PROVE r \in Allowed'
    OBVIOUS
  <2>2. PICK x, y, n, s : x = call[r.id[1]] /\ y = call'[r.id[1]] /\ n = r.id[2] /\ s = r.status
    OBVIOUS
  <2>3. r \in Records /\ r.id[1] \in Calls /\ May(x, n, s)
    BY <2>2, RecordFacts DEF Allowed
  <2>4. /\ y.round = x.round /\ y.outcome = x.outcome
        /\ y.at = IF x.at \in Waiting THEN "lost" ELSE IF x.at = "ended" THEN "past" ELSE x.at
    BY <2>2, <2>3, CrashedFacts
  <2>5. Tells(x, s) => Tells(y, s)
    BY <2>4 DEF Tells, Waiting
  <2>6. May(y, n, s)
    BY <2>3, <2>4, <2>5 DEF May
  <2>7. QED BY <2>2, <2>3, <2>6 DEF Allowed
<1>6. BookInv'
  <2>1. SUFFICES ASSUME scenario.logged PROVE LogHolds(log', Settled', Allowed') /\ log'.items = <<>>
    BY <1>1 DEF BookInv
  <2>2. PICK torn \in BOOLEAN : log' = Lost(log, torn)
    BY DEF Crash
  <2>3. PICK l, k, M, D, b : l = log /\ k = log' /\ M = Settled /\ D = Allowed /\ b = (l.torn \/ torn)
    OBVIOUS
  <2>4. LogHolds(l, M, D)
    BY <2>1, <2>3 DEF LogInv, BookInv
  <2>5. k = [items |-> <<>>, file |-> l.file, torn |-> b, writes |-> 0]
    BY <2>2, <2>3, <2>4 DEF Lost, LogHolds, IsLog
  <2>6. IsLog(k) /\ k.items = <<>> /\ k.file = l.file /\ k.torn = b /\ b \in BOOLEAN
    BY <2>3, <2>5 DEF IsLog
  <2>7. Book(<<>>) /\ Range(<<>>) = {}
    BY LogAssumption DEF Book, Range
  <2>8. MayLoad(k) => MayLoad(l)
    BY <2>3, <2>6 DEF MayLoad
  <2>9. LogHolds(k, {}, D)
    BY <2>4, <2>6, <2>7, <2>8 DEF LogHolds
  <2>10. LogHolds(k, Settled', Allowed')
    BY <1>5, <2>3, <2>9, HoldsMore
  <2>11. QED BY <2>3, <2>6, <2>10
<1>7. QED BY <1>4, <1>6 DEF LogInv

\* A restart reads the file, and calls what the crash left undecided interrupted.
LEMMA RestartKeepsLog ==
  ASSUME CallsShaped, LogInv, Restart
  PROVE  LogInv'
<1>1. UNCHANGED <<scenario, call>> /\ up' = TRUE /\ ~up /\ MayLoad(log) /\ log' = Load(log)
  BY DEF Restart
<1>2. Batches' = Batches /\ Allowed' = Allowed /\ Settled' = Settled
  BY <1>1 DEF Batches, Known, Kind, Allowed, Settled
<1>3. \A c \in Calls : call[c].at \notin Waiting \cup {"ended"}
  BY <1>1 DEF LogInv, StoryInv
<1>4. StoryInv'
  BY <1>1, <1>2, <1>3 DEF LogInv, StoryInv
<1>5. ASSUME NEW r \in Allowed PROVE Settles(r) \in Settled
  <2>1. PICK c, n, s, x : c = r.id[1] /\ n = r.id[2] /\ s = r.status /\ x = call[c]
    OBVIOUS
  <2>2. /\ r \in Records /\ May(x, n, s) /\ c \in Calls /\ n \in Nat /\ n > 0
        /\ r = [id |-> r.id, status |-> s] /\ r.id \in Calls \X (Nat \ {0}) /\ s \in Statuses
    BY <2>1, RecordFacts DEF Allowed
  <2>3. CASE s \in Terminal
    BY <2>1, <2>2, <2>3 DEF Settles, Settled
  <2>4. CASE s \notin Terminal
    <3>1. x.at \in {"idle", "past", "lost"} /\ x.round \in Nat /\ (x.at = "idle" <=> x.round = 0)
          /\ (x.at = "past" => x.outcome \in Terminal)
      BY <1>3, <2>1, <2>2 DEF CallsShaped, LogInv, StoryInv
    <3>2. n = x.round /\ x.at = "lost"
      BY <2>2, <2>4, <3>1 DEF May, Tells
    <3>3. "interrupted" \in Statuses /\ "interrupted" \in Terminal
      BY DEF Statuses, Terminal
    <3>4. PICK i, q : i = r.id /\ q = [id |-> i, status |-> "interrupted"]
      OBVIOUS
    <3>5. r = [id |-> i, status |-> s]
      BY <2>2, <3>4
    <3>6. [r EXCEPT !.status = "interrupted"] = q
      BY <3>4, <3>5
    <3>7. Settles(r) = q
      BY <2>1, <2>4, <3>6 DEF Settles
    <3>8. q \in Records /\ q.id = i /\ q.status = "interrupted"
      BY <2>2, <3>3, <3>4 DEF Records
    <3>9. May(x, n, "interrupted")
      BY <2>2, <3>2, <3>3 DEF May, Tells, Waiting
    <3>10. q \in Settled
      BY <2>1, <3>3, <3>4, <3>8, <3>9 DEF Settled, Allowed
    <3>11. QED BY <3>7, <3>10
  <2>5. QED BY <2>3, <2>4
<1>6. BookInv'
  <2>1. SUFFICES ASSUME scenario.logged PROVE LogHolds(log', Settled', Allowed') /\ InStep(log')
    BY <1>1 DEF BookInv
  <2>2. PICK l, M, D : l = log /\ M = Settled /\ D = Allowed
    OBVIOUS
  <2>3. LogHolds(l, M, D) /\ MayLoad(l) /\ M \subseteq D /\ \A x \in D \cap Records : Settles(x) \in M
    BY <1>1, <1>5, <2>1, <2>2, SettledAreAllowed DEF LogInv, BookInv
  <2>4. LogHolds(Load(l), M, D)
    BY <2>3, LoadHolds
  <2>5. InStep(Load(l))
    BY <2>3, LoadHolds
  <2>6. QED BY <1>1, <1>2, <2>2, <2>4, <2>5
<1>7. QED BY <1>4, <1>6 DEF LogInv

\* A step that leaves the log, the process and every call's place alone.
LEMMA StillKeepsLog ==
  ASSUME LogInv, UNCHANGED <<scenario, log, up>>,
         \A c \in Calls : /\ call'[c].at = call[c].at /\ call'[c].round = call[c].round
                          /\ call'[c].outcome = call[c].outcome
  PROVE  LogInv'
BY RestSays DEF Same

\* To be told to stop is written nowhere.
LEMMA DoomKeepsLog ==
  ASSUME CallsShaped, LogInv, UNCHANGED <<scenario, log, up>>,
         NEW c \in Calls, NEW b, call' = [call EXCEPT ![c].doomed = b]
  PROVE  LogInv'
<1>1. call = [d \in Calls |-> call[d]] /\ \A d \in Calls : IsCall(call[d])
  BY DEF CallsShaped
<1>2. ASSUME NEW d \in Calls
      PROVE  call'[d].at = call[d].at /\ call'[d].round = call[d].round /\ call'[d].outcome = call[d].outcome
  <2>1. CASE d # c
    BY <1>1, <2>1
  <2>2. CASE d = c
    <3>1. PICK x : x = call[c]
      OBVIOUS
    <3>2. call'[c] = [x EXCEPT !.doomed = b] /\ IsCall(x)
      BY <1>1, <3>1
    <3>3. QED BY <2>2, <3>1, <3>2 DEF IsCall
  <2>3. QED BY <2>1, <2>2
<1>3. QED BY <1>2, StillKeepsLog

\* What a call or its caller does keeps the log.
LEMMA CallStepKeepsLog ==
  ASSUME CallsShaped, LogInv, NEW c \in Calls, CallStep(c)
  PROVE  LogInv'
<1>1. CASE Serve(c)
  BY <1>1, ServeKeepsLog
<1>2. CASE Invoke(c)
  BY <1>2, InvokedKeepsLog DEF Invoke
<1>3. CASE NoteOutput(c)
  BY <1>3, NoteOutputKeepsLog
<1>4. CASE Abandon(c)
  BY <1>4, DoomKeepsLog DEF Abandon
<1>5. CASE Expire(c)
  BY <1>5, StillKeepsLog DEF Expire, callVars
<1>6. QED BY <1>1, <1>2, <1>3, <1>4, <1>5 DEF CallStep

\* What a batch does keeps the log: it asks while the process runs, and not before its
\* last call ended.
LEMMA BatchKeepsLog ==
  ASSUME DispatchInv, LogInv, NEW c \in Batches, Dispatch(c) \/ BatchStep(c) \/ Cancel(c)
  PROVE  LogInv'
<1>1. CallsShaped /\ c \in Calls /\ BatchesInv
  BY BatchFacts DEF DispatchInv, CallsInv
<1>2. CASE UNCHANGED calm
  BY <1>2, StillKeepsLog DEF calm, callVars
<1>3. CASE StartAttempt(c)
  <2>1. up /\ call[c].at \notin {"past", "lost"}
    BY <1>1 DEF LogInv, StoryInv
  <2>2. call[c].at \in {"idle", "ended"}
    BY <1>1, <1>3, <2>1 DEF StartAttempt, BatchesInv, CallInv, Live, CallsShaped
  <2>3. QED BY <1>1, <1>3, <2>1, <2>2, InvokedKeepsLog DEF StartAttempt
<1>4. CASE AttemptGivenUp(c)
  <2>1. PICK b : b = Live(c)
    OBVIOUS
  <2>2. call' = [call EXCEPT ![c].doomed = b] /\ UNCHANGED <<scenario, log, up>>
    BY <1>4, <2>1 DEF AttemptGivenUp, Doomed
  <2>3. QED BY <1>1, <2>2, DoomKeepsLog
<1>5. CASE Cancel(c)
  <2>1. PICK b : b = Live(c)
    OBVIOUS
  <2>2. /\ call' = call \/ call' = [call EXCEPT ![c].doomed = b]
        /\ UNCHANGED <<scenario, log, up>>
    BY <1>5, <2>1 DEF Cancel, Doomed
  <2>3. QED BY <1>1, <2>2, DoomKeepsLog, StillKeepsLog
<1>6. UNCHANGED calm \/ StartAttempt(c) \/ AttemptGivenUp(c) \/ Cancel(c)
  BY DEF BatchStep, Dispatch, Admit, Build, Claim, TurnLost, AttemptEnds, BackoffEnds, Accept,
         CommitSilence, AllAccepted, Delivered, Output
<1>7. QED BY <1>2, <1>3, <1>4, <1>5, <1>6

\* The end of the session and time are written nowhere.
LEMMA StopKeepsLog ==
  ASSUME CallsShaped, LogInv, StopBatches \/ TimePasses
  PROVE  LogInv'
<1>1. CASE TimePasses
  BY <1>1, StillKeepsLog DEF TimePasses
<1>2. CASE StopBatches
  <2>1. UNCHANGED <<scenario, log, up>>
    BY <1>2 DEF StopBatches
  <2>2. ASSUME NEW d \in Calls
        PROVE  /\ call'[d].at = call[d].at /\ call'[d].round = call[d].round
               /\ call'[d].outcome = call[d].outcome
    <3>1. PICK x, hit, b : /\ x = call[d] /\ b = (x.doomed \/ (d \in hit /\ Live(d)))
                           /\ hit = {c \in Batches : work[c].at \notin {"new", "admit", "delivery", "returned"}}
      OBVIOUS
    <3>2. call'[d] = [x EXCEPT !.doomed = b] /\ IsCall(x)
      BY <1>2, <3>1 DEF StopBatches, CallsShaped
    <3>3. QED BY <3>1, <3>2 DEF IsCall
  <2>3. QED BY <2>1, <2>2, StillKeepsLog
<1>3. QED BY <1>1, <1>2

\* At first there is nothing to say.
LEMMA LogInitEstablishes == BatchInit => LogInv
<1>1. SUFFICES ASSUME BatchInit PROVE LogInv
  OBVIOUS
<1>2. /\ log = EmptyLog /\ up = TRUE
      /\ call = [c \in Calls |-> NoCall]
  BY <1>1 DEF BatchInit, CallsInit
<1>3. \A c \in Calls : call[c].at = "idle" /\ call[c].round = 0
  BY <1>2 DEF NoCall
<1>4. StoryInv
  BY <1>2, <1>3 DEF StoryInv, Waiting
<1>5. IsLog(log) /\ log.items = <<>> /\ log.file = <<>> /\ log.torn = FALSE
  BY <1>2 DEF EmptyLog, IsLog
<1>6. Replay(<<>>) = <<>>
  BY ReplayNothing
<1>7. Book(<<>>) /\ Range(<<>>) = {} /\ <<>> \in Seq(Records \cup {Garbled})
  BY LogAssumption DEF Book, Range
<1>8. LogHolds(log, Settled, Allowed) /\ InStep(log)
  BY <1>5, <1>6, <1>7 DEF LogHolds, InStep
<1>9. QED BY <1>2, <1>4, <1>8 DEF LogInv, BookInv

\* Whatever happens keeps the log.
LEMMA NextKeepsLog ==
  ASSUME DispatchInv, LogInv, [BatchNext]_dispatchVars
  PROVE  LogInv'
<1>1. CallsShaped
  BY DEF DispatchInv, CallsInv
<1>2. CASE \E c \in Known : CallStep(c) /\ UNCHANGED batchVars
  BY <1>1, <1>2, KnownAreCalls, CallStepKeepsLog
<1>3. CASE Batches = {} /\ (Crash \/ Restart)
  BY <1>1, <1>3, CrashKeepsLog, RestartKeepsLog
<1>4. CASE \E c \in Batches : Dispatch(c) \/ BatchStep(c) \/ Cancel(c)
  BY <1>4, BatchKeepsLog
<1>5. CASE StopBatches \/ TimePasses
  BY <1>1, <1>5, StopKeepsLog
<1>6. CASE UNCHANGED dispatchVars
  BY <1>6, StillKeepsLog DEF dispatchVars, callVars
<1>7. QED BY <1>2, <1>3, <1>4, <1>5, <1>6 DEF BatchNext

\* LogAgrees: the log says of every call what came of it, however the calls end and the
\* process dies, and a restart reads what memory held.  For any calls and any limits of the
\* log and its file.
THEOREM LogAgreesAlways == BatchSpec => []LogAgrees
<1>1. BatchInit => LogInv
  BY LogInitEstablishes
<1>2. DispatchInv /\ LogInv /\ [BatchNext]_dispatchVars => LogInv'
  BY NextKeepsLog
<1>3. DispatchInv /\ LogInv => LogAgrees
  BY LogInvAgrees DEF DispatchInv, CallsInv
<1>4. QED BY <1>1, <1>2, <1>3, BooksAgree, PTL DEF BatchSpec
=============================================================================
