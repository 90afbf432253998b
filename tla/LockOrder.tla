------------------------------- MODULE LockOrder -------------------------------
(***************************************************************************)
(* The two asyncio locks around a viewer's result: ViewerRuntime._lock     *)
(* ("runtime") and the effect lock of RuntimeStateStore ("effect").  A     *)
(* sequence claim takes the runtime lock and then the effect lock; a       *)
(* commit takes the effect lock and then the runtime lock; an update of    *)
(* the audience, a hot update or a memory commit takes the effect lock     *)
(* alone, a dispatch or the stop of the session the runtime lock alone.    *)
(*                                                                         *)
(* asyncio.Lock is first come, first served, and taking a free lock does   *)
(* not suspend: a step of a task goes on until the task has to wait, or is *)
(* inside all its locks and awaits the database, or has ended.             *)
(***************************************************************************)
EXTENDS Naturals, Sequences

CONSTANTS
    Claims,     \* work items about to claim their sequence
    Commits,    \* barrages, behaviours and silences about to be made durable
    Updates,    \* writers of the runtime state
    Dispatches, \* short critical sections of ViewerRuntime
    Stop        \* ViewerRuntime.stop_session

Tasks == Claims \cup Commits \cup Updates \cup Dispatches \cup {Stop}
Locks == {"runtime", "effect"}

VARIABLES
    queue,   \* of each lock: its holder, then those waiting, in order
    asked,   \* how many locks each task has asked for
    stopped  \* the session was stopped

vars == <<queue, asked, stopped>>

\* The locks a task takes, outermost first.
Order(t) ==
    IF t \in Claims THEN <<"runtime", "effect">>
    ELSE IF t \in Commits THEN <<"effect", "runtime">>
    ELSE IF t \in Updates THEN <<"effect">>
    ELSE <<"runtime">>

\* Who awaits the database inside its locks.
Persists(t) == t \in Commits \cup Updates

\* The locks a task has asked for: it stands once in the queue of each, and in no other.
Wants(t) == {Order(t)[k] : k \in 1..asked[t]}

Init ==
    /\ queue = [l \in Locks |-> <<>>]
    /\ asked = [t \in Tasks |-> 0]
    /\ stopped = FALSE

\* The last lock the task asked for is its own.
Granted(t) == asked[t] > 0 /\ Head(queue[Order(t)[asked[t]]]) = t

\* The locks are released one after the other, with no suspension in between.
Release(t) ==
    /\ queue' = [l \in Locks |-> IF l \in Wants(t) THEN Tail(queue[l]) ELSE queue[l]]
    /\ asked' = [asked EXCEPT ![t] = 0]
    /\ stopped' = (stopped \/ t = Stop)

\* Take the locks that are still missing, up to the first that is not free.
Advance(t) ==
    LET missing == (asked[t] + 1)..Len(Order(t))
        busy == {k \in missing : queue[Order(t)[k]] # <<>>}
        reach == IF busy = {} THEN Len(Order(t)) ELSE CHOOSE k \in busy : \A j \in busy : k <= j
    IN IF busy = {} /\ ~Persists(t)
       THEN Release(t)
       ELSE /\ asked' = [asked EXCEPT ![t] = reach]
            /\ queue' = [l \in Locks |-> IF \E k \in missing : k <= reach /\ Order(t)[k] = l
                                         THEN Append(queue[l], t) ELSE queue[l]]
            /\ UNCHANGED stopped

Start(t) ==
    /\ asked[t] = 0 /\ ~stopped
    /\ Advance(t)

\* A task that waited goes on.
Resume(t) ==
    /\ Granted(t) /\ asked[t] < Len(Order(t))
    /\ Advance(t)

\* The critical section ends, or a check in it fails: the fence refuses a commit before
\* it asks for the runtime lock, a batch is no longer current, the database answers.
Finish(t) ==
    /\ Granted(t)
    /\ Release(t)

Next == \E t \in Tasks : Start(t) \/ Resume(t) \/ Finish(t)

\* A task that can go on does so; nothing forces a task to begin, except the stop.
Fairness ==
    /\ \A t \in Tasks : WF_vars(Resume(t) \/ Finish(t))
    /\ WF_vars(Start(Stop))

Spec == Init /\ [][Next]_vars /\ Fairness

\* The stop of the session goes through, which is what makes capture and asynchronous
\* work really end after the user stopped.
StopEnds == <>stopped

================================================================================
