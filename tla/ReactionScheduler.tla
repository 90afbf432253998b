---------------------------- MODULE ReactionScheduler ----------------------------
(***************************************************************************)
(* application/reaction_scheduler.py for one session: user observations    *)
(* each run in a task of their own, all others share one worker, one       *)
(* running and one pending reaction chosen by priority.                    *)
(*                                                                         *)
(* The scheduler's lock is never held across a suspension while the        *)
(* session runs, so every critical section is one step.  Time is left      *)
(* out: whether two observations fall into one merge window, how long the  *)
(* worker sleeps before taking one and whether one expired are choices.    *)
(***************************************************************************)
EXTENDS Naturals, Sequences

CONSTANTS Obs,         \* observations that may be submitted
          MaxPending,  \* max_pending_observations_per_session
          None         \* Python's None

ASSUME PendingLimit == MaxPending \in Nat \ {0}

VARIABLES
    life,        \* what SessionService says of the session
    kind,        \* what triggered each observation, None before it is submitted
    completion,  \* the future returned for each observation
    tracked,     \* the session has an entry in _sessions
    pending,     \* _SessionSchedule.pending
    running,     \* _SessionSchedule.running
    worker,      \* the task in _SessionSchedule.worker
    preserved,   \* the tasks in _SessionSchedule.preserved, by observation
    beaten       \* history: observations that were superseded while running

vars == <<life, kind, completion, tracked, pending, running, worker, preserved, beaten>>

ScheduledRec == [id : Obs, members : Seq(Obs), superseded : BOOLEAN]

\* The worker sleeps out the merge window of `item', waits for the execution
\* task, or was woken by its end with `got'.  `doomed': SessionService has
\* detached it and will cancel it; `killed': cancelled, not yet delivered.
WorkerRec == [at : {"sleeping", "executing", "woken"}, item : Obs,
              exec : {"running", "cancelling"}, got : {"result", "none", "cancelled"},
              doomed : BOOLEAN, killed : BOOLEAN]
PreservedRec == [exec : {"running", "cancelling"}, doomed : BOOLEAN]

Members(item) == {item.members[i] : i \in DOMAIN item.members}

Kinds == {"user", "sound", "screen", "ambient"}

ASSUME NoneAssumption ==
    None \notin ScheduledRec /\ None \notin WorkerRec /\ None \notin PreservedRec /\ None \notin Kinds

Priority(k) == CASE k = "user" -> 3 [] k = "sound" -> 2 [] k = "screen" -> 2 [] k = "ambient" -> 1

\* A purely visual trigger gives way to everything else.
YieldsTo(k, other) == k = "screen" /\ other # "screen"

Init ==
    /\ life = "running"
    /\ kind = [o \in Obs |-> None]
    /\ completion = [o \in Obs |-> None]
    /\ tracked = FALSE
    /\ pending = None /\ running = None /\ worker = None
    /\ preserved = [o \in Obs |-> None]
    /\ beaten = {}

Resolved(S, value) ==
    [o \in Obs |-> IF o \in S /\ completion[o] = "open" THEN value ELSE completion[o]]

NothingPreserved(p) == \A o \in Obs : p[o] = None

---------------------------------------------------------------------------
(* submit                                                                  *)

Fresh(o, k) == kind[o] = None /\ kind' = [kind EXCEPT ![o] = k]

\* A user observation runs beside everything else, unless the session takes no tasks.
SubmitUser(o) ==
    /\ Fresh(o, "user")
    /\ IF life = "running"
       THEN /\ preserved' = [preserved EXCEPT ![o] = [exec |-> "running", doomed |-> FALSE]]
            /\ completion' = [completion EXCEPT ![o] = "open"]
            /\ tracked' = TRUE
       ELSE /\ completion' = [completion EXCEPT ![o] = "none"]
            /\ UNCHANGED <<preserved, tracked>>
    /\ UNCHANGED <<life, pending, running, worker, beaten>>

RunningKind == kind[running.id]
PendingKind == kind[pending.id]

\* Refused because of what runs: a visual trigger beside anything else, or a lower
\* priority that is neither an ambient tick nor better than what already waits.
RunningRefuses(k) ==
    /\ running # None
    /\ \/ YieldsTo(k, RunningKind)
       \/ /\ ~YieldsTo(RunningKind, k) /\ Priority(k) < Priority(RunningKind)
          /\ k # "ambient"
          /\ pending = None \/ Priority(k) <= Priority(PendingKind)

QueuesBehind(k) ==
    running # None /\ ~YieldsTo(RunningKind, k) /\ Priority(k) <= Priority(RunningKind)

Supersedes(k) == running # None /\ ~QueuesBehind(k)

\* Fault: the execution task is cancelled but the reaction not marked.
SupersedeUnmarked(k) ==
    IF Supersedes(k)
    THEN /\ beaten' = beaten \cup Members(running)
         /\ worker' = IF worker.at = "executing" THEN [worker EXCEPT !.exec = "cancelling"]
                      ELSE worker
         /\ UNCHANGED running
    ELSE UNCHANGED <<running, worker, beaten>>

\* A superseded reaction is marked and its execution task cancelled.
Supersede(k) ==
    IF Supersedes(k)
    THEN /\ running' = [running EXCEPT !.superseded = TRUE]
         /\ beaten' = beaten \cup Members(running)
         /\ worker' = IF worker.at = "executing" THEN [worker EXCEPT !.exec = "cancelling"]
                      ELSE worker
    ELSE UNCHANGED <<running, worker, beaten>>

PendingRefuses(k) ==
    /\ pending # None
    /\ \/ YieldsTo(k, PendingKind)
       \/ ~YieldsTo(PendingKind, k) /\ Priority(k) < Priority(PendingKind)

SubmitRefused(o, k) ==
    /\ Fresh(o, k)
    /\ \/ RunningRefuses(k) /\ UNCHANGED <<running, worker, beaten>>
       \/ ~RunningRefuses(k) /\ PendingRefuses(k) /\ Supersede(k)
    /\ completion' = [completion EXCEPT ![o] = "none"]
    /\ UNCHANGED <<life, tracked, pending, preserved>>

\* The same kind within the merge window joins the pending reaction; at the limit
\* the oldest observation in it is given up.
SubmitMerged(o, k) ==
    /\ Fresh(o, k)
    /\ ~RunningRefuses(k) /\ pending # None /\ PendingKind = k
    /\ Supersede(k)
    /\ LET kept == IF Len(pending.members) >= MaxPending
                   THEN Tail(pending.members) ELSE pending.members
       IN /\ pending' = [pending EXCEPT !.members = Append(kept, o)]
          /\ completion' = [Resolved(Members(pending) \ Members([members |-> kept]), "none")
                               EXCEPT ![o] = "open"]
    /\ UNCHANGED <<life, tracked, preserved>>

\* Otherwise the newcomer replaces what waits, and a worker is started if there is
\* none: the session may refuse it.
SubmitPending(o, k) ==
    /\ Fresh(o, k)
    /\ ~RunningRefuses(k) /\ ~PendingRefuses(k)
    /\ LET dropped == IF pending = None THEN {} ELSE Members(pending)
           item == [id |-> o, members |-> <<o>>, superseded |-> FALSE]
       IN IF worker = None /\ life # "running"
          THEN /\ completion' = [Resolved(dropped, "none") EXCEPT ![o] = "none"]
               /\ pending' = None
               /\ UNCHANGED <<tracked, running, worker, beaten>>
          ELSE /\ completion' = [Resolved(dropped, "none") EXCEPT ![o] = "open"]
               /\ pending' = item
               /\ tracked' = TRUE
               /\ IF worker = None
                  THEN /\ worker' = [at |-> "sleeping", item |-> o, exec |-> "running",
                                     got |-> "none", doomed |-> FALSE, killed |-> FALSE]
                       /\ UNCHANGED <<running, beaten>>
                  ELSE Supersede(k)
    /\ UNCHANGED <<life, preserved>>

---------------------------------------------------------------------------
(* _run_session                                                            *)

\* After its sleep the worker takes the pending reaction, unless it was replaced.
WorkerTakes ==
    /\ worker # None /\ worker.at = "sleeping" /\ ~worker.killed
    /\ IF pending.id = worker.item
       THEN /\ running' = pending /\ pending' = None
            /\ worker' = [worker EXCEPT !.at = "executing", !.exec = "running"]
       ELSE /\ worker' = [worker EXCEPT !.item = pending.id]
            /\ UNCHANGED <<running, pending>>
    /\ UNCHANGED <<life, kind, completion, tracked, preserved, beaten>>

\* The execution task ends; only while the session accepts results does it have
\* one, and an execution that was cancelled may end in any way.
ExecutionEnds ==
    /\ worker # None /\ worker.at = "executing"
    /\ \E got \in {"result", "none", "cancelled"} :
          /\ got = "result" => life = "running"
          /\ got = "cancelled" => worker.exec = "cancelling"
          /\ worker' = [worker EXCEPT !.at = "woken", !.got = got]
    /\ UNCHANGED <<life, kind, completion, tracked, pending, running, preserved, beaten>>

\* A cancellation ends the worker, unless the reaction had been superseded.
Dying ==
    \/ worker.at = "sleeping" /\ worker.killed
    \/ worker.at = "woken" /\ (worker.killed \/ worker.got = "cancelled") /\ ~running.superseded

\* Back at the top of the loop: the next pending reaction, or the end.
LoopTop ==
    IF pending = None
    THEN /\ worker' = None
         /\ tracked' = (tracked /\ ~NothingPreserved(preserved))
    ELSE /\ worker' = [worker EXCEPT !.at = "sleeping", !.item = pending.id, !.killed = FALSE]
         /\ UNCHANGED tracked

WorkerResolves ==
    /\ worker # None /\ worker.at = "woken" /\ ~Dying
    /\ completion' = Resolved(Members(running),
          IF worker.got = "result" /\ ~worker.killed /\ ~running.superseded
          THEN "result" ELSE "none")
    /\ running' = None
    /\ LoopTop
    /\ UNCHANGED <<life, kind, pending, preserved, beaten>>

\* Fault: the finally clause leaves the entry of the session behind.
WorkerDiesTracked ==
    /\ worker # None /\ Dying
    /\ completion' = Resolved((IF running = None THEN {} ELSE Members(running))
                              \cup (IF pending = None THEN {} ELSE Members(pending)), "none")
    /\ running' = None /\ pending' = None /\ worker' = None
    /\ UNCHANGED <<life, kind, tracked, preserved, beaten>>

\* Fault: the finally clause gives up what runs and forgets what waits.
WorkerDiesForgetting ==
    /\ worker # None /\ Dying
    /\ completion' = Resolved((IF running = None THEN {} ELSE Members(running)), "none")
    /\ running' = None /\ pending' = None /\ worker' = None
    /\ tracked' = (tracked /\ ~NothingPreserved(preserved))
    /\ UNCHANGED <<life, kind, preserved, beaten>>

\* The worker's finally clause gives up whatever runs and waits.
WorkerDies ==
    /\ worker # None /\ Dying
    /\ completion' = Resolved((IF running = None THEN {} ELSE Members(running))
                              \cup (IF pending = None THEN {} ELSE Members(pending)), "none")
    /\ running' = None /\ pending' = None /\ worker' = None
    /\ tracked' = (tracked /\ ~NothingPreserved(preserved))
    /\ UNCHANGED <<life, kind, preserved, beaten>>

---------------------------------------------------------------------------
(* _run_preserved                                                          *)

\* A cancelled preserved task leaves its completion alone.
PreservedEnds(o) ==
    /\ preserved[o] # None
    /\ \E got \in {"result", "none", "cancelled"} :
          /\ got = "result" => life = "running"
          /\ got = "cancelled" => preserved[o].exec = "cancelling"
          /\ completion' = IF got = "cancelled" THEN completion ELSE Resolved({o}, got)
    /\ preserved' = [preserved EXCEPT ![o] = None]
    /\ tracked' = (tracked /\ (worker # None \/ \E q \in Obs \ {o} : preserved[q] # None))
    /\ UNCHANGED <<life, kind, pending, running, worker, beaten>>

---------------------------------------------------------------------------
(* What the session does to its tasks.                                     *)

\* pause, mark_error and stop detach every task of the session ...
Interrupt(next) ==
    /\ life' = next
    /\ worker' = IF worker = None THEN None ELSE [worker EXCEPT !.doomed = TRUE]
    /\ preserved' = [o \in Obs |-> IF preserved[o] = None THEN None
                                   ELSE [preserved[o] EXCEPT !.doomed = TRUE]]
    /\ UNCHANGED <<kind, completion, tracked, pending, running, beaten>>

Pause == life = "running" /\ Interrupt("paused")
Stop == life \in {"running", "paused"} /\ Interrupt("stopped")

Resume ==
    /\ life = "paused" /\ life' = "running"
    /\ UNCHANGED <<kind, completion, tracked, pending, running, worker, preserved, beaten>>

\* ... and cancel them later.  Cancelling a task that awaits another cancels that one.
CancelWorker ==
    /\ worker # None /\ worker.doomed
    /\ worker' = IF worker.at = "executing"
                 THEN [worker EXCEPT !.doomed = FALSE, !.exec = "cancelling"]
                 ELSE [worker EXCEPT !.doomed = FALSE, !.killed = TRUE]
    /\ UNCHANGED <<life, kind, completion, tracked, pending, running, preserved, beaten>>

CancelPreserved(o) ==
    /\ preserved[o] # None /\ preserved[o].doomed
    /\ preserved' = [preserved EXCEPT ![o] = [exec |-> "cancelling", doomed |-> FALSE]]
    /\ UNCHANGED <<life, kind, completion, tracked, pending, running, worker, beaten>>

\* cancel_session drops the schedule; what its tasks still do touches nothing.
CancelSession ==
    /\ tracked /\ tracked' = FALSE
    /\ completion' = Resolved((IF running = None THEN {} ELSE Members(running))
                              \cup (IF pending = None THEN {} ELSE Members(pending))
                              \cup {o \in Obs : preserved[o] # None}, "none")
    /\ pending' = None /\ running' = None /\ worker' = None
    /\ preserved' = [o \in Obs |-> None]
    /\ UNCHANGED <<life, kind, beaten>>

---------------------------------------------------------------------------
Submit(o, k) == SubmitRefused(o, k) \/ SubmitMerged(o, k) \/ SubmitPending(o, k)

Next ==
    \/ \E o \in Obs : SubmitUser(o)
    \/ \E o \in Obs, k \in Kinds \ {"user"} : Submit(o, k)
    \/ WorkerTakes \/ ExecutionEnds \/ WorkerResolves \/ WorkerDies
    \/ \E o \in Obs : PreservedEnds(o) \/ CancelPreserved(o)
    \/ CancelWorker \/ Pause \/ Resume \/ Stop \/ CancelSession

\* The event loop runs every ready task, the executor answers within its provider's
\* timeouts, and detached tasks are cancelled.
Fairness ==
    /\ WF_vars(WorkerTakes) /\ WF_vars(ExecutionEnds)
    /\ WF_vars(WorkerResolves) /\ WF_vars(WorkerDies) /\ WF_vars(CancelWorker)
    /\ \A o \in Obs : WF_vars(PreservedEnds(o)) /\ WF_vars(CancelPreserved(o))

Spec == Init /\ [][Next]_vars /\ Fairness

---------------------------------------------------------------------------
TypeOK ==
    /\ life \in {"running", "paused", "stopped"}
    /\ kind \in [Obs -> Kinds \cup {None}]
    /\ completion \in [Obs -> {None, "open", "result", "none"}]
    /\ tracked \in BOOLEAN
    /\ pending \in ScheduledRec \cup {None} /\ running \in ScheduledRec \cup {None}
    /\ \A item \in {pending, running} \ {None} : Len(item.members) \in 1..MaxPending
    /\ worker \in WorkerRec \cup {None}
    /\ preserved \in [Obs -> PreservedRec \cup {None}]
    /\ (running # None) <=> (worker # None /\ worker.at \in {"executing", "woken"})

\* A reaction superseded while it ran never counts, even if its executor ignores the
\* cancellation and returns a result, whoever else is cancelled meanwhile.
SupersededHasNoResult == \A o \in beaten : completion[o] # "result"

\* An idle session keeps no entry: entries are bounded by max_tracked_sessions, after
\* which every observation of every other session is refused.
NoIdleEntry == tracked => worker # None \/ ~NothingPreserved(preserved)

\* The entry of a session is sound, and gone when there is nothing to do.
EntrySound == TypeOK /\ NoIdleEntry

\* The future of every observation that is not the user's is settled, whatever is
\* superseded, merged, paused, cancelled or stopped.
AutomaticObservationsSettle ==
    \A o \in Obs : (completion[o] = "open" /\ kind[o] # "user") ~> (completion[o] # "open")

=============================================================================
