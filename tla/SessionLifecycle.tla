---------------------------- MODULE SessionLifecycle ----------------------------
(***************************************************************************)
(* The single-session state machine of application/session_service.py      *)
(* together with the resource aggregator of                                *)
(* application/session_resources.py.                                       *)
(*                                                                         *)
(* The event loop is single threaded, so a step of the model is the code   *)
(* between two suspension points.  SessionService._lock is held across     *)
(* awaits only while a session is being launched; `launch' is that         *)
(* critical section, and it is only ever open while the state is IDLE.     *)
(***************************************************************************)
EXTENDS Naturals, FiniteSets

CONSTANTS Sessions,      \* session ids the generator may hand out
          Tasks,         \* asyncio tasks created through start_task
          NumResources,  \* registered session resources, in order
          None           \* Python's None

ASSUME ResourcesAssumption == NumResources \in Nat \ {0}
Resources == 1..NumResources

VARIABLES
    state,       \* SessionService._state
    current,     \* SessionService._session_id
    launch,      \* the start or activation holding _lock, or None
    halt,        \* the stop or abandonment after its first critical section, or None
    attached,    \* SessionService._tasks
    cancellers,  \* shielded _cancel_tasks calls of pause and mark_error not yet run
    task,        \* life of each task
    owner,       \* SessionResources._active_session_id
    res,         \* what each resource was last told
    record,      \* durable row of each session
    quit         \* progress of the application's shutdown, or the session it is about to stop

vars == <<state, current, launch, halt, attached, cancellers, task, owner, res,
          record, quit>>

States == {"IDLE", "RUNNING", "PAUSED", "STOPPING", "ERROR"}

CanStop == state \notin {"IDLE", "STOPPING"}

\* `at' is the resource being started, or the next one to roll back.
LaunchRec ==
    {l \in [sid : Sessions, adopted : BOOLEAN,
            phase : {"record", "start", "rollback", "close"}, at : 0..NumResources] :
        l.phase \in {"record", "start"} => l.at > 0}

HaltRec == [sid : Sessions, abandon : BOOLEAN, failed : BOOLEAN,
            tasks : SUBSET Tasks, phase : {"cancel", "join", "release", "record", "finish"},
            at : Resources]

TaskRec == [sid : Sessions \cup {None},
            life : {"unborn", "running", "cancelling", "done"}]

Quits == {"no", "stopping", "waiting", "done", "raised"}

ASSUME NoneAssumption == None \notin Sessions /\ None \notin LaunchRec /\ None \notin HaltRec
ASSUME QuitAssumption == Quits \cap Sessions = {}

TypeOK ==
    /\ state \in States
    /\ current \in Sessions \cup {None}
    /\ (current = None) <=> (state = "IDLE")
    /\ launch \in LaunchRec \cup {None}
    /\ halt \in HaltRec \cup {None}
    /\ attached \subseteq Tasks
    /\ cancellers \subseteq SUBSET Tasks
    /\ task \in [Tasks -> TaskRec]
    /\ owner \in Sessions \cup {None}
    /\ res \in [Resources -> {"off", "on", "stuck"}]
    /\ record \in [Sessions -> {"none", "open", "completed", "error"}]
    /\ quit \in Quits \cup Sessions

Init ==
    /\ state = "IDLE" /\ current = None
    /\ launch = None /\ halt = None
    /\ attached = {} /\ cancellers = {}
    /\ task = [t \in Tasks |-> [sid |-> None, life |-> "unborn"]]
    /\ owner = None
    /\ res = [r \in Resources |-> "off"]
    /\ record = [s \in Sessions |-> "none"]
    /\ quit = "no"

---------------------------------------------------------------------------
(* Launching: start and activate_runtime_session.                          *)

\* start: only from IDLE; the durable row is written first.
Start(s) ==
    /\ state = "IDLE" /\ launch = None /\ record[s] = "none"
    /\ launch' = [sid |-> s, adopted |-> FALSE, phase |-> "record", at |-> 1]
    /\ UNCHANGED <<state, current, halt, attached, cancellers, task, owner, res, record, quit>>

\* activate_runtime_session adopts a row another service has written; it inserts none.
Adopt(s) ==
    /\ state = "IDLE" /\ launch = None /\ record[s] \in {"none", "open"}
    /\ launch' = [sid |-> s, adopted |-> TRUE, phase |-> "start", at |-> 1]
    /\ record' = [record EXCEPT ![s] = "open"]
    /\ UNCHANGED <<state, current, halt, attached, cancellers, task, owner, res, quit>>

\* record_started commits, fails, or is cancelled with the row already committed:
\* only the first carries on, and a cancellation leaves the row as it is.
RecordStarted ==
    /\ launch # None /\ launch.phase = "record"
    /\ \/ /\ launch' = [launch EXCEPT !.phase = "start"]
          /\ record' = [record EXCEPT ![launch.sid] = "open"]
       \/ /\ launch' = None
          /\ record' \in {record, [record EXCEPT ![launch.sid] = "open"]}
    /\ UNCHANGED <<state, current, halt, attached, cancellers, task, owner, res, quit>>

\* One resource's start_session returns; after the last one the session is RUNNING.
ResourceStarts ==
    /\ launch # None /\ launch.phase = "start" /\ owner = None
    /\ res' = [res EXCEPT ![launch.at] = "on"]
    /\ IF launch.at < NumResources
       THEN /\ launch' = [launch EXCEPT !.at = @ + 1]
            /\ UNCHANGED <<state, current, owner>>
       ELSE /\ launch' = None
            /\ owner' = launch.sid
            /\ current' = launch.sid
            /\ state' = "RUNNING"
    /\ UNCHANGED <<halt, attached, cancellers, task, record, quit>>

\* A resource refuses or the request is cancelled: those already started are
\* rolled back in reverse.
ResourceRefuses ==
    /\ launch # None /\ launch.phase = "start"
    /\ launch' = [launch EXCEPT !.phase = "rollback", !.at = @ - 1]
    /\ UNCHANGED <<state, current, halt, attached, cancellers, task, owner, res, record, quit>>

\* _stop_resources carries on past a resource whose stop_session raises.
RollBackResource ==
    /\ launch # None /\ launch.phase = "rollback"
    /\ IF launch.at > 0
       THEN /\ \E outcome \in {"off", "stuck"} : res' = [res EXCEPT ![launch.at] = outcome]
            /\ launch' = [launch EXCEPT !.at = @ - 1]
       ELSE /\ launch' = IF launch.adopted THEN None ELSE [launch EXCEPT !.phase = "close"]
            /\ UNCHANGED res
    /\ UNCHANGED <<state, current, halt, attached, cancellers, task, owner, record, quit>>

\* _cleanup_failed_start closes the row it opened; a failing store leaves it open.
CloseFailedStart ==
    /\ launch # None /\ launch.phase = "close"
    /\ launch' = None
    /\ record' \in {record, [record EXCEPT ![launch.sid] = "error"]}
    /\ UNCHANGED <<state, current, halt, attached, cancellers, task, owner, res, quit>>

---------------------------------------------------------------------------
(* Work inside a session.                                                  *)

\* Fault: start_task checks for a session but not for RUNNING.
StartTaskUnchecked(t) ==
    /\ current # None /\ task[t].life = "unborn"
    /\ task' = [task EXCEPT ![t] = [sid |-> current, life |-> "running"]]
    /\ attached' = attached \cup {t}
    /\ UNCHANGED <<state, current, launch, halt, cancellers, owner, res, record, quit>>

StartTask(t) ==
    /\ state = "RUNNING" /\ task[t].life = "unborn"
    /\ task' = [task EXCEPT ![t] = [sid |-> current, life |-> "running"]]
    /\ attached' = attached \cup {t}
    /\ UNCHANGED <<state, current, launch, halt, cancellers, owner, res, record, quit>>

\* A task returns, raises, or finishes unwinding its cancellation.
TaskDone(t) ==
    /\ task[t].life \in {"running", "cancelling"}
    /\ task' = [task EXCEPT ![t].life = "done"]
    /\ attached' = attached \ {t}
    /\ UNCHANGED <<state, current, launch, halt, cancellers, owner, res, record, quit>>

Cancelled(ts) ==
    [t \in Tasks |-> IF t \in ts /\ task[t].life = "running"
                     THEN [task[t] EXCEPT !.life = "cancelling"] ELSE task[t]]

\* pause and mark_error detach the tasks under the lock; the shielded
\* _cancel_tasks runs as a task of its own, in a later step.
Interrupt(from, to) ==
    /\ state \in from
    /\ state' = to
    /\ cancellers' = cancellers \cup ({attached} \ {{}})
    /\ attached' = {}
    /\ UNCHANGED <<current, launch, halt, task, owner, res, record, quit>>

Pause == Interrupt({"RUNNING"}, "PAUSED")

MarkError == Interrupt({"RUNNING", "PAUSED"}, "ERROR")

CancelDetached(ts) ==
    /\ ts \in cancellers
    /\ cancellers' = cancellers \ {ts}
    /\ task' = Cancelled(ts)
    /\ UNCHANGED <<state, current, launch, halt, attached, owner, res, record, quit>>

Resume ==
    /\ state = "PAUSED"
    /\ state' = "RUNNING"
    /\ UNCHANGED <<current, launch, halt, attached, cancellers, task, owner, res, record, quit>>

---------------------------------------------------------------------------
(* Ending a session: stop, abandon_runtime_session and shutdown.           *)

HaltOf(abandon, phase) ==
    [sid |-> current, abandon |-> abandon, failed |-> state = "ERROR",
     tasks |-> attached, phase |-> phase, at |-> NumResources]

\* stop: _complete_stop is shielded, so the cancellation of the tasks is a later step.
BeginStop ==
    /\ CanStop
    /\ state' = "STOPPING"
    /\ halt' = HaltOf(FALSE, "cancel")
    /\ attached' = {}
    /\ UNCHANGED <<current, launch, cancellers, task, owner, res, record>>

Stop == BeginStop /\ UNCHANGED quit

\* abandon_runtime_session cancels the tasks in the step that detaches them.
Abandon ==
    /\ CanStop
    /\ state' = "STOPPING"
    /\ halt' = HaltOf(TRUE, "join")
    /\ attached' = {}
    /\ task' = Cancelled(attached)
    /\ UNCHANGED <<current, launch, cancellers, owner, res, record, quit>>

HaltCancels ==
    /\ halt # None /\ halt.phase = "cancel"
    /\ task' = Cancelled(halt.tasks)
    /\ halt' = [halt EXCEPT !.phase = "join"]
    /\ UNCHANGED <<state, current, launch, attached, cancellers, owner, res, record, quit>>

\* gather(*joinable) returns: SessionResources gives up its owner, then stops the resources.
HaltJoined ==
    /\ halt # None /\ halt.phase = "join"
    /\ \A t \in halt.tasks : task[t].life = "done"
    /\ IF owner = halt.sid
       THEN halt' = [halt EXCEPT !.phase = "release"] /\ owner' = None
       ELSE halt' = [halt EXCEPT !.phase = "record"] /\ UNCHANGED owner
    /\ UNCHANGED <<state, current, launch, attached, cancellers, task, res, record, quit>>

\* Fault: the first resource that raises ends the loop over the resources.
HaltReleasesUntilError ==
    /\ halt # None /\ halt.phase = "release"
    /\ \E outcome \in {"off", "stuck"} :
        /\ res' = [res EXCEPT ![halt.at] = outcome]
        /\ halt' = IF halt.at > 1 /\ outcome = "off" THEN [halt EXCEPT !.at = @ - 1]
                                                     ELSE [halt EXCEPT !.phase = "record"]
    /\ UNCHANGED <<state, current, launch, attached, cancellers, task, owner, record, quit>>

\* Fault: a resource that raises makes _complete_stop itself raise.
HaltReleasesRaises ==
    /\ halt # None /\ halt.phase = "release"
    /\ \E outcome \in {"off", "stuck"} :
        /\ res' = [res EXCEPT ![halt.at] = outcome]
        /\ halt' = CASE outcome = "stuck" -> None
                     [] outcome = "off" /\ halt.at > 1 -> [halt EXCEPT !.at = @ - 1]
                     [] OTHER -> [halt EXCEPT !.phase = "record"]
    /\ UNCHANGED <<state, current, launch, attached, cancellers, task, owner, record, quit>>

HaltReleases ==
    /\ halt # None /\ halt.phase = "release"
    /\ \E outcome \in {"off", "stuck"} : res' = [res EXCEPT ![halt.at] = outcome]
    /\ halt' = IF halt.at > 1 THEN [halt EXCEPT !.at = @ - 1]
                              ELSE [halt EXCEPT !.phase = "record"]
    /\ UNCHANGED <<state, current, launch, attached, cancellers, task, owner, record, quit>>

\* stop closes the durable row, a failing store leaves it open; abandon never touches it.
HaltRecords ==
    /\ halt # None /\ halt.phase = "record"
    /\ halt' = [halt EXCEPT !.phase = "finish"]
    /\ LET outcome == IF halt.failed THEN "error" ELSE "completed"
       IN  \/ ~halt.abandon /\ record' = [record EXCEPT ![halt.sid] = outcome]
           \/ UNCHANGED record
    /\ UNCHANGED <<state, current, launch, attached, cancellers, task, owner, res, quit>>

\* _idle.set() resolves the future a waiting shutdown sleeps on, so the shutdown
\* returns even if the next session clears the event first.
HaltFinishes ==
    /\ halt # None /\ halt.phase = "finish"
    /\ current = halt.sid /\ state = "STOPPING"
    /\ state' = "IDLE" /\ current' = None /\ halt' = None
    /\ quit' = IF quit \in {"stopping", "waiting"} THEN "done" ELSE quit
    /\ UNCHANGED <<launch, attached, cancellers, task, owner, res, record>>

\* shutdown reads id and state under the lock and acts on them after releasing it.
ShutdownLooks ==
    /\ quit = "no" /\ launch = None
    /\ quit' = CASE state = "STOPPING" -> "waiting" [] state = "IDLE" -> "done"
                 [] OTHER -> current
    /\ UNCHANGED <<state, current, launch, halt, attached, cancellers, task, owner, res, record>>

\* Its stop raises when that session is stopping or gone meanwhile.
ShutdownStops ==
    /\ quit \in Sessions
    /\ IF CanStop /\ current = quit
       THEN BeginStop /\ quit' = "stopping"
       ELSE quit' = "raised"
            /\ UNCHANGED <<state, current, launch, halt, attached, cancellers, task, owner,
                           res, record>>

---------------------------------------------------------------------------
HaltStep == HaltCancels \/ HaltJoined \/ HaltReleases \/ HaltRecords \/ HaltFinishes

LaunchStep == RecordStarted \/ ResourceStarts \/ ResourceRefuses \/ RollBackResource
              \/ CloseFailedStart

Next ==
    \/ \E s \in Sessions : Start(s) \/ Adopt(s)
    \/ LaunchStep
    \/ \E t \in Tasks : StartTask(t) \/ TaskDone(t)
    \/ \E ts \in cancellers : CancelDetached(ts)
    \/ Pause \/ MarkError \/ Resume \/ Stop \/ Abandon
    \/ HaltStep
    \/ ShutdownLooks \/ ShutdownStops

Spec == Init /\ [][Next]_vars

\* The loop runs every ready coroutine, and a cancelled task eventually unwinds.
Fairness ==
    /\ WF_vars(HaltStep) /\ WF_vars(LaunchStep)
    /\ \A ts \in SUBSET Tasks : WF_vars(CancelDetached(ts))
    /\ \A t \in Tasks : WF_vars(task[t].life = "cancelling" /\ TaskDone(t))
    /\ WF_vars(ShutdownStops)

FairSpec == Spec /\ Fairness

---------------------------------------------------------------------------
(* Properties.                                                             *)

\* A task is on the books only while its own session is RUNNING: start_task racing
\* pause, stop or mark_error never registers work with a session that has moved on.
AttachedTasksAreCurrent ==
    attached # {} => /\ state = "RUNNING"
                     /\ \A t \in attached : task[t] = [sid |-> current, life |-> "running"]

\* Every task that still runs uncancelled is on the books or in the hands of a
\* pause, error or stop that is about to cancel it: none escapes both.
NoTaskEscapes ==
    \A t \in Tasks : task[t].life = "running" =>
        \/ t \in attached
        \/ \E ts \in cancellers : t \in ts
        \/ halt # None /\ halt.phase = "cancel" /\ t \in halt.tasks

\* No work is lost sight of, on the books or off them, and the books are well formed.
TasksAccounted == TypeOK /\ AttachedTasksAreCurrent /\ NoTaskEscapes

\* When no session is up and none is being launched, every resource has been told
\* to stop, also after a launch that failed half way or a resource that refused to.
IdleHoldsNothing ==
    state = "IDLE" /\ launch = None =>
        /\ owner = None /\ attached = {} /\ halt = None
        /\ \A r \in Resources : res[r] # "on"

\* A live session owns every resource until its stop begins to release them.
LiveSessionOwnsResources ==
    state \in {"RUNNING", "PAUSED", "ERROR"} =>
        owner = current /\ \A r \in Resources : res[r] = "on"

\* The resources run exactly for the session that is up.
ResourcesFollowSession == IdleHoldsNothing /\ LiveSessionOwnsResources

\* A stop, once begun, ends in IDLE, whatever the resources and the store answer.
StopCompletes == state = "STOPPING" ~> state = "IDLE"

\* Work of a session that is over or interrupted always ends.
DetachedWorkEnds ==
    \A t \in Tasks : (task[t].life = "running" /\ t \notin attached) ~> (task[t].life = "done")

\* An application shutdown that found a session up or stopping terminates.
ShutdownTerminates == quit \in Sessions \cup {"stopping", "waiting"} ~> quit \in {"done", "raised"}

\* Whatever is to end does: stops, the work they detach, and the application's shutdown.
StopsEnd == StopCompletes /\ DetachedWorkEnds /\ ShutdownTerminates
=================================================================================
