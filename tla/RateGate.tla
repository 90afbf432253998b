------------------------------ MODULE RateGate ------------------------------
(***************************************************************************)
(* providers/model/provider_rate_gate.py: the model roles share a bounded  *)
(* number of leases, given in the order they are asked for, never during   *)
(* the cooldown that a 429 answer starts.                                  *)
(*                                                                         *)
(* The gate is a value and every critical section of its condition an      *)
(* operator on it: the condition's lock is never held across a wait, so    *)
(* taking it does not suspend.  Moments are kept as the ticks left until   *)
(* they come.                                                              *)
(***************************************************************************)
EXTENDS SequencesExt

CONSTANTS Calls,       \* the calls that ask for a lease
          Interval,    \* min_start_interval_seconds
          Fallback,    \* fallback_429_backoff_seconds
          MaxBackoff,  \* max_429_backoff_seconds
          MaxStreak    \* the 429 answers in a row that still lengthen the backoff

ValidPolicy ==
    /\ Interval \in Nat /\ Fallback \in Nat \ {0}
    /\ MaxBackoff \in Nat /\ MaxBackoff >= Fallback

ASSUME GateAssumption == Calls \subseteq Nat /\ ValidPolicy /\ MaxStreak \in Nat \ {0}
ASSUME CallsFinite == IsFiniteSet(Calls)

VARIABLE gate

\* What a call does at the gate: it looks, waits to be notified, sleeps, or holds a lease.
Stances == {"out", "look", "wait", "sleep", "lease"}

Least(a, b) == IF a < b THEN a ELSE b
Most(a, b) == IF a > b THEN a ELSE b
Before(n) == IF n = 0 THEN 0 ELSE n - 1

OpenGate(limit) ==
    [limit |-> limit, line |-> <<>>, stance |-> [c \in Calls |-> "out"], active |-> 0,
     ready |-> 0, cool |-> 0, alarm |-> 0, streak |-> 0, current |-> {}]

Notify(g) ==
    [g EXCEPT !.stance = [c \in Calls |-> IF g.stance[c] = "wait" THEN "look" ELSE g.stance[c]]]

Join(g, c) == Notify([g EXCEPT !.line = Append(@, c), !.stance[c] = "look"])

\* Fault: a start is told to nobody.
LookSilently(g, c) ==
    IF g.line[1] # c \/ g.active >= g.limit THEN [g EXCEPT !.stance[c] = "wait"]
    ELSE IF g.ready > 0 THEN [g EXCEPT !.stance[c] = "sleep", !.alarm = g.ready]
    ELSE [g EXCEPT !.line = Tail(@), !.stance[c] = "lease", !.active = @ + 1,
                   !.ready = Interval, !.current = @ \cup {c}]

\* One turn of the loop in _acquire.  Only the head of the line starts or sleeps; a start
\* tells the next one to look.
Look(g, c) ==
    IF g.line[1] # c \/ g.active >= g.limit THEN [g EXCEPT !.stance[c] = "wait"]
    ELSE IF g.ready > 0 THEN [g EXCEPT !.stance[c] = "sleep", !.alarm = g.ready]
    ELSE Notify([g EXCEPT !.line = Tail(@), !.stance[c] = "lease", !.active = @ + 1,
                          !.ready = Interval, !.current = @ \cup {c}])

MayLook(g, c) == g.stance[c] = "look" \/ (g.stance[c] = "sleep" /\ g.alarm = 0)

\* A waiter that is cancelled gives up its place.
Leave(g, c) ==
    Notify([g EXCEPT !.line = RemoveFirst(@, c), !.stance[c] = "out"])

Release(g, c) ==
    Notify([g EXCEPT !.active = @ - 1, !.stance[c] = "out", !.current = @ \ {c}])

\* defer_for_rate_limit: the server's own delay is taken as it is.
Defer(g, retryAfter) ==
    LET streak == Least(g.streak + 1, MaxStreak)
        delay == IF retryAfter = {} THEN Least(Fallback * 2 ^ (streak - 1), MaxBackoff)
                 ELSE CHOOSE n \in retryAfter : TRUE
        cool == Most(g.cool, delay)
    IN Notify([g EXCEPT !.streak = streak, !.cool = cool, !.ready = Most(@, cool),
                        !.current = {}])

\* record_success: an answer to a call older than the last 429 proves nothing.
Praise(g, c) ==
    IF c \in g.current /\ g.cool = 0 THEN [g EXCEPT !.streak = 0] ELSE g

Later(g) == [g EXCEPT !.ready = Before(@), !.cool = Before(@), !.alarm = Before(@)]

MayPass(g) == g.ready > 0 \/ g.cool > 0 \/ g.alarm > 0

=============================================================================
