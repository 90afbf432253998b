---------------------------- MODULE ViewerDispatch ----------------------------
(***************************************************************************)
(* application/viewer_runtime.py in per-Viewer mode: every request has a   *)
(* mailbox task, requests share the slots of a lane, and one worker per    *)
(* session publishes their output in the order it was scheduled.           *)
(*                                                                         *)
(* Every critical section of ViewerRuntime._lock is one step: what it      *)
(* awaits inside, nobody else can see half done (LockOrder checks how the  *)
(* lock nests with the fence's).  Provider, Room and fence are inputs, and *)
(* time is left out: any request may expire, any pause may end.  The trace *)
(* and the future of a request are always decided together, the first      *)
(* decision stands; `verdict' is both.                                     *)
(***************************************************************************)
EXTENDS ListEdits, FiniteSets

CONSTANTS Items,          \* generation requests
          Viewers,
          ViewerOf,       \* the viewer each request is for
          MaxInFlight,    \* max_in_flight_viewer_requests
          QueueCapacity,  \* viewer_queue_capacity
          Lines,          \* barrages in one validated response
          MaxSession,     \* bound: sessions started one after another
          None            \* Python's None

ASSUME LimitsAssumption ==
    /\ MaxInFlight \in Nat \ {0} /\ QueueCapacity \in Nat \ {0}
    /\ Lines \in Nat \ {0} /\ MaxSession \in Nat \ {0}
ASSUME ViewerAssumption == ViewerOf \in [Items -> Viewers] /\ None \notin Items

VARIABLES
    session,    \* the session last started; _generation moves with it
    phase,      \* of stop_session
    awaited,    \* the mailbox tasks stop_session gathers
    viewer,     \* "leaving": the fence is closed, cancel_viewer has not run yet
    home,       \* the session a request was dispatched in
    pc,         \* where the request's mailbox task is
    mailed,     \* requests with an entry in _mailboxes
    slot,       \* slot_reserved, queued
    lane,       \* _RuntimeLane of each session
    scheduled,  \* output_scheduled
    queue,      \* _OutputPaceState.queue
    active,     \* _OutputPaceState.active
    worker,     \* where the output worker is
    reason,     \* interruption_reason
    durable,    \* barrages appended to the Room
    sent,       \* published_events
    behavior,   \* what was committed to the viewer's behaviour
    verdict     \* the request's trace and the result of its future

control == <<session, phase, awaited, viewer>>
mailbox == <<home, pc, mailed, slot, lane>>
output  == <<scheduled, queue, active, worker, reason>>
effects == <<durable, sent, behavior>>
vars == <<control, mailbox, output, effects, verdict>>

Sessions == 1 .. MaxSession
Phases == {"idle", "live", "stopping"}
Points == {"new", "waiting", "attempt", "fence", "silence", "schedule",
           "release", "unwind", "gone"}
Reasons == {"session_stopped", "viewer_gone", "not_accepted"}

\* "dropped" is every end on the request's own account: stale, expired, rejected, failed.
Verdicts == {"cancelled", "dropped", "silenced", "published"}
ASSUME NoneAssumption == None \notin Reasons \cup Verdicts

WorkerPoints == {"none", "take", "check", "commit", "deliver", "finish"}

EmptyLane == [active |-> 0, queued |-> 0, eligible |-> <<>>]

Init ==
    /\ session = 0 /\ phase = "idle" /\ awaited = {}
    /\ viewer = [v \in Viewers |-> "present"]
    /\ home = [i \in Items |-> 0]
    /\ pc = [i \in Items |-> "new"]
    /\ mailed = {} /\ scheduled = {}
    /\ slot = [i \in Items |-> "none"]
    /\ lane = [s \in Sessions |-> EmptyLane]
    /\ queue = <<>> /\ active = None /\ worker = "none"
    /\ reason = [i \in Items |-> None]
    /\ durable = [i \in Items |-> 0] /\ sent = [i \in Items |-> 0]
    /\ behavior = [i \in Items |-> None]
    /\ verdict = [i \in Items |-> None]

\* _is_current, _output_item_is_current_locked
Current(i) == phase = "live" /\ home[i] = session

\* What the fence says of a request built before the viewer changed.
Accepts(i) == viewer[ViewerOf[i]] = "present"

\* _record_trace and _resolve: the first decision stands.
Settled(S, what) ==
    [i \in Items |-> IF i \in S /\ verdict[i] = None THEN what ELSE verdict[i]]
Settle(S, what) == verdict' = Settled(S, what)

----------------------------------------------------------------------------
(* Lanes *)

\* How many of a lane's eligible requests _promote_locked gives a slot.
Room(l) == LET free == MaxInFlight - l.active
           IN IF free < Len(l.eligible) THEN free ELSE Len(l.eligible)

Promoted(l) == {l.eligible[k] : k \in 1 .. Room(l)}
Promote(l) == [active |-> l.active + Room(l), queued |-> l.queued - Room(l),
               eligible |-> SubSeq(l.eligible, Room(l) + 1, Len(l.eligible))]

\* Fault: a request that gives up its place stays in the list of eligible ones.
WithoutRemoving(l, S) ==
    [l EXCEPT !.active = @ - Cardinality({i \in S : slot[i] = "held"}),
              !.queued = @ - Cardinality({i \in S : slot[i] = "queued"})]

\* The lane once the requests of S have given up their slots and places in the queue.
Without(l, S) ==
    [active |-> l.active - Cardinality({i \in S : slot[i] = "held"}),
     queued |-> l.queued - Cardinality({i \in S : slot[i] = "queued"}),
     eligible |-> Excluding(l.eligible, S)]

\* _discard_item_locked for every request of S, all of session s: a freed slot goes to
\* the first request that waits.
Discard(S, s) ==
    LET rest == Without(lane[s], S) IN
    /\ lane' = [lane EXCEPT ![s] = Promote(rest)]
    /\ slot' = [i \in Items |-> IF i \in S THEN "none"
                                ELSE IF i \in Promoted(rest) THEN "held" ELSE slot[i]]

----------------------------------------------------------------------------
(* The session and its viewers *)

\* start_session
StartSession ==
    /\ phase = "idle" /\ session < MaxSession
    /\ phase' = "live" /\ session' = session + 1
    /\ UNCHANGED <<awaited, viewer, mailbox, output, effects, verdict>>

\* Task.cancel() reaching the mailbox tasks of S; the shielded silence commit runs to its
\* end and even forgets that it was cancelled.
Struck(S) ==
    pc' = [i \in Items |-> IF i \in S /\ pc[i] # "silence" THEN "unwind" ELSE pc[i]]

\* The cancelled output worker.  While the append is shielded it goes on; when it has
\* learnt of a finished append but must wait for _lock again, the cancellation may make
\* it forget that append.
WorkerStruck ==
    \/ /\ worker = "take"
       /\ worker' = "none"
    \/ /\ worker \in {"check", "deliver"}
       /\ worker' = "finish"
    \/ /\ worker \notin {"take", "check"}
       /\ UNCHANGED worker

\* The outputs in Q are cancelled, the active one is told why it may not go on.
Interrupt(Q, why, hit) ==
    reason' = [i \in Items |-> IF i \in Q \/ (i = active /\ hit) THEN why ELSE reason[i]]

Queued == {queue[k] : k \in DOMAIN queue}

\* Fault: outputs that wait are forgotten, not cancelled.
StopForgetting ==
    /\ phase = "live"
    /\ phase' = "stopping" /\ awaited' = mailed
    /\ Settle({i \in mailed : slot[i] = "queued" /\ i \notin scheduled}, "cancelled")
    /\ Interrupt({}, "session_stopped", TRUE)
    /\ Struck(mailed) /\ WorkerStruck
    /\ mailed' = {} /\ queue' = <<>>
    /\ UNCHANGED <<session, viewer, home, slot, lane, scheduled, active, effects>>

\* stop_session, up to its gather.
Stop ==
    /\ phase = "live"
    /\ phase' = "stopping" /\ awaited' = mailed
    /\ Settle({i \in mailed : slot[i] = "queued" /\ i \notin scheduled} \cup Queued, "cancelled")
    /\ Interrupt(Queued, "session_stopped", TRUE)
    /\ Struck(mailed) /\ WorkerStruck
    /\ mailed' = {} /\ queue' = <<>>
    /\ UNCHANGED <<session, viewer, home, slot, lane, scheduled, active, effects>>

StopEnds ==
    /\ phase = "stopping" /\ worker = "none"
    /\ \A i \in awaited : pc[i] = "gone"
    /\ phase' = "idle" /\ awaited' = {}
    /\ UNCHANGED <<session, viewer, mailbox, output, effects, verdict>>

\* The viewer leaves, is muted or kicked: the pool's revisions have moved.
ViewerChanges(v) ==
    /\ phase = "live" /\ viewer[v] = "present"
    /\ viewer' = [viewer EXCEPT ![v] = "leaving"]
    /\ UNCHANGED <<session, phase, awaited, mailbox, output, effects, verdict>>

\* cancel_viewer.  stop_session has already taken the output worker out of its sight.
CancelViewer(v) ==
    LET mine == {i \in mailed : ViewerOf[i] = v}
        cut  == {i \in Queued : ViewerOf[i] = v}
    IN /\ viewer[v] = "leaving"
       /\ viewer' = [viewer EXCEPT ![v] = "gone"]
       /\ mailed' = mailed \ mine
       /\ Settle((mine \ scheduled) \cup cut, "cancelled")
       /\ IF mine = {} THEN UNCHANGED <<lane, slot>> ELSE Discard(mine, session)
       /\ queue' = Excluding(queue, cut)
       /\ Interrupt(cut, "viewer_gone", phase = "live" /\ active # None /\ ViewerOf[active] = v)
       /\ Struck(mine)
       /\ UNCHANGED <<session, phase, awaited, home, scheduled, active, worker, effects>>

----------------------------------------------------------------------------
(* Mailboxes *)

\* _enqueue: a slot, a place in the queue, or a refusal.  One that comes after the stop, having
\* waited for the lock, is left out: it finds no session and ends without a request.
Enqueue(i) ==
    LET l == lane[session] IN
    /\ phase = "live" /\ pc[i] = "new"
    /\ home' = [home EXCEPT ![i] = session]
    /\ \/ /\ l.active < MaxInFlight
          /\ lane' = [lane EXCEPT ![session].active = @ + 1]
          /\ slot' = [slot EXCEPT ![i] = "held"]
          /\ pc' = [pc EXCEPT ![i] = "waiting"]
          /\ mailed' = mailed \cup {i} /\ UNCHANGED verdict
       \/ /\ l.active >= MaxInFlight /\ l.queued < QueueCapacity
          /\ lane' = [lane EXCEPT ![session] = [active |-> l.active, queued |-> l.queued + 1,
                                                eligible |-> Append(l.eligible, i)]]
          /\ slot' = [slot EXCEPT ![i] = "queued"]
          /\ pc' = [pc EXCEPT ![i] = "waiting"]
          /\ mailed' = mailed \cup {i} /\ UNCHANGED verdict
       \/ /\ l.active >= MaxInFlight /\ l.queued >= QueueCapacity
          /\ Settle({i}, "cancelled")
          /\ pc' = [pc EXCEPT ![i] = "gone"]
          /\ UNCHANGED <<lane, slot, mailed>>
    /\ UNCHANGED <<control, output, effects>>

\* The mailbox task goes on to `at'.
Goes(i, at) == pc' = [pc EXCEPT ![i] = at]

\* The request ends with `what' and its slot is still to be given back.
Ends(i, what) == Goes(i, "release") /\ Settle({i}, what)

Elsewhere == UNCHANGED <<control, home, mailed, slot, lane, output>>

\* _run_mailbox has its slot: the checks before dispatch and the claim of a sequence,
\* which may be refused.  The claim is shielded; a cancellation meanwhile is raised after
\* it and changes nothing else, as if it had come first.
Begin(i) ==
    /\ pc[i] = "waiting" /\ slot[i] = "held"
    /\ \/ Goes(i, "attempt") /\ UNCHANGED verdict
       \/ Ends(i, "dropped")
    /\ UNCHANGED effects /\ Elsewhere

\* Overtaken or expired meanwhile, blocked, refused or failed at the provider, with the
\* retry failing too: one exception or another ends the request.
AttemptFails(i) == Ends(i, "dropped")

\* The provider's turn, its attempt with at most one retry, and the validation.
Attempt(i) ==
    /\ pc[i] = "attempt"
    /\ \/ \E next \in {"fence", "silence"} : Goes(i, next) /\ UNCHANGED verdict
       \/ AttemptFails(i)
    /\ UNCHANGED effects /\ Elsewhere

\* _final_fence_outcome of a barrage, which may also have expired; a response that
\* validates to no line at all completes here.
Fence(i) ==
    /\ pc[i] = "fence"
    /\ \/ Accepts(i) /\ Goes(i, "schedule") /\ UNCHANGED verdict
       \/ Accepts(i) /\ Ends(i, "silenced")
       \/ Ends(i, "dropped")
    /\ UNCHANGED effects /\ Elsewhere

\* _final_fence_outcome and _commit_silence.
Silence(i) ==
    /\ pc[i] = "silence"
    /\ \/ /\ Accepts(i) /\ Current(i)
          /\ behavior' = [behavior EXCEPT ![i] = "silence"]
          /\ Ends(i, "silenced")
       \/ UNCHANGED behavior /\ Ends(i, "dropped")
    /\ UNCHANGED <<durable, sent>> /\ Elsewhere

\* _schedule_output_batch, which starts the worker if there is none.
Schedule(i) ==
    /\ pc[i] = "schedule"
    /\ IF Current(i)
       THEN /\ scheduled' = scheduled \cup {i}
            /\ queue' = Append(queue, i)
            /\ worker' = IF worker = "none" THEN "take" ELSE worker
            /\ Goes(i, "release")
            /\ UNCHANGED <<reason, verdict>>
       ELSE /\ reason' = [reason EXCEPT ![i] = "not_accepted"]
            /\ Ends(i, "cancelled")
            /\ UNCHANGED <<scheduled, queue, worker>>
    /\ UNCHANGED <<control, home, mailed, slot, lane, active, effects>>

\* The end of _run_mailbox.
Release(i) ==
    /\ pc[i] = "release"
    /\ Discard({i}, home[i])
    /\ mailed' = mailed \ {i} /\ Goes(i, "gone")
    /\ UNCHANGED <<control, home, output, effects, verdict>>

\* Its CancelledError branch.
Unwind(i) ==
    /\ pc[i] = "unwind"
    /\ Settle({i} \ scheduled, "cancelled")
    /\ Discard({i}, home[i])
    /\ mailed' = mailed \ {i} /\ Goes(i, "gone")
    /\ UNCHANGED <<control, home, output, effects>>

----------------------------------------------------------------------------
(* The output worker *)

\* _output_batch_is_current_locked for the active batch
ActiveIsCurrent == active # None /\ Current(active) /\ reason[active] = None

Because(why) == reason' = [reason EXCEPT ![active] = IF @ = None THEN why ELSE @]

Take ==
    /\ worker = "take"
    /\ IF queue = <<>>
       THEN worker' = "none" /\ UNCHANGED <<queue, active>>
       ELSE worker' = "check" /\ active' = Head(queue) /\ queue' = Tail(queue)
    /\ UNCHANGED <<control, mailbox, scheduled, reason, effects, verdict>>

\* _wait_for_output_turn and _output_fence_accepts
Check ==
    /\ worker = "check"
    /\ IF Accepts(active) /\ ActiveIsCurrent
       THEN worker' = "commit" /\ UNCHANGED reason
       ELSE worker' = "finish" /\ Because("not_accepted")
    /\ UNCHANGED <<control, mailbox, scheduled, queue, active, effects, verdict>>

\* Fault: the append relies on the check before it.
CommitUnchecked ==
    /\ worker = "commit"
    /\ \/ /\ durable' = [durable EXCEPT ![active] = @ + 1]
          /\ worker' = "deliver" /\ UNCHANGED reason
       \/ /\ worker' = "finish" /\ Because("not_accepted")
          /\ UNCHANGED durable
    /\ UNCHANGED <<control, mailbox, scheduled, queue, active, sent, behavior, verdict>>

\* commit_with_fence: the fence and the batch are checked again under the locks that
\* the append holds.  The append may fail.
Commit ==
    /\ worker = "commit"
    /\ \/ /\ Accepts(active) /\ ActiveIsCurrent
          /\ durable' = [durable EXCEPT ![active] = @ + 1]
          /\ worker' = "deliver" /\ UNCHANGED reason
       \/ /\ worker' = "finish" /\ Because("not_accepted")
          /\ UNCHANGED durable
    /\ UNCHANGED <<control, mailbox, scheduled, queue, active, sent, behavior, verdict>>

\* The rest of _commit_output_event and the bookkeeping after it.
Deliver ==
    /\ worker = "deliver"
    /\ sent' = [sent EXCEPT ![active] = @ + 1]
    /\ worker' = IF sent'[active] < Lines THEN "check" ELSE "finish"
    /\ UNCHANGED <<control, mailbox, scheduled, queue, active, reason, durable, behavior, verdict>>

\* Fault: an interrupted output is reported as cancelled whatever was published.
FinishByReason ==
    /\ worker = "finish"
    /\ Settle({active}, IF reason[active] = None THEN "published" ELSE "cancelled")
    /\ active' = None
    /\ worker' = IF phase = "live" THEN "take" ELSE "none"
    /\ UNCHANGED <<control, mailbox, scheduled, queue, reason, effects>>

\* _finish_output_batch: what was published decides the verdict, before anything that
\* interrupted it, and is committed to the behaviour unless the session stopped.  What
\* happens while that commit is awaited only adds a reason to the trace.
Finish ==
    /\ worker = "finish"
    /\ Settle({active}, IF sent[active] > 0 THEN "published" ELSE "cancelled")
    /\ behavior' = IF sent[active] > 0 /\ reason[active] # "session_stopped" /\ Accepts(active)
                   THEN [behavior EXCEPT ![active] = "published"] ELSE behavior
    /\ active' = None
    /\ worker' = IF phase = "live" THEN "take" ELSE "none"
    /\ UNCHANGED <<control, mailbox, scheduled, queue, reason, durable, sent>>

----------------------------------------------------------------------------

Mail(i) == Begin(i) \/ Attempt(i) \/ Fence(i) \/ Silence(i) \/ Schedule(i)
           \/ Release(i) \/ Unwind(i)
Work == Take \/ Check \/ Commit \/ Deliver \/ Finish

Next ==
    \/ StartSession \/ Stop \/ StopEnds
    \/ \E v \in Viewers : ViewerChanges(v) \/ CancelViewer(v)
    \/ \E i \in Items : Enqueue(i) \/ Mail(i)
    \/ Work

\* The event loop is never idle while a task can run; provider attempts, waits and
\* appends end, since each has a deadline.
Fairness == WF_vars(StopEnds \/ Work \/ \E i \in Items : Mail(i))

Spec == Init /\ [][Next]_vars
FairSpec == Spec /\ Fairness

----------------------------------------------------------------------------
(* Properties *)

TypeOK ==
    /\ session \in 0 .. MaxSession /\ phase \in Phases /\ awaited \subseteq Items
    /\ viewer \in [Viewers -> {"present", "leaving", "gone"}]
    /\ home \in [Items -> 0 .. MaxSession] /\ pc \in [Items -> Points]
    /\ mailed \subseteq Items /\ scheduled \subseteq Items
    /\ slot \in [Items -> {"none", "queued", "held"}]
    /\ lane \in [Sessions -> [active : Nat, queued : Nat, eligible : Seq(Items)]]
    /\ queue \in Seq(Items) /\ active \in Items \cup {None} /\ worker \in WorkerPoints
    /\ reason \in [Items -> Reasons \cup {None}]
    /\ durable \in [Items -> 0 .. Lines] /\ sent \in [Items -> 0 .. Lines]
    /\ behavior \in [Items -> {None, "silence", "published"}]
    /\ verdict \in [Items -> Verdicts \cup {None}]

\* The counters of a lane say what its requests hold, within the limits of the Mode,
\* however cancellation, stop and the end of a task share the work of giving back.
LaneCountsSlots ==
    \A s \in Sessions :
        LET held == {i \in Items : home[i] = s /\ slot[i] = "held"}
            waiting == {i \in Items : home[i] = s /\ slot[i] = "queued"}
            l == lane[s]
        IN /\ l.active = Cardinality(held) /\ l.active <= MaxInFlight
           /\ l.queued = Cardinality(waiting) /\ l.queued <= QueueCapacity
           /\ {l.eligible[k] : k \in DOMAIN l.eligible} = waiting
           /\ Len(l.eligible) = l.queued

\* No request waits while its lane has a free slot.
NoIdleSlot == \A s \in Sessions : lane[s].queued > 0 => lane[s].active = MaxInFlight

\* The lanes are kept: what is held is counted, and nothing waits beside a free slot.
LanesKept == TypeOK /\ LaneCountsSlots /\ NoIdleSlot

\* A request is reported as published only if something of it is in the Room, and what
\* is in the Room is reported otherwise only when the session stopped meanwhile.
ReportMatchesRoom ==
    \A i \in Items :
        /\ verdict[i] = "published" => durable[i] > 0
        /\ verdict[i] \notin {None, "published"} /\ durable[i] > 0 => reason[i] = "session_stopped"

\* Once stop_session has begun, or cancel_viewer has run, nothing more of the session or
\* of the viewer enters the Room, and no silence is committed for it.
QuietAfterCancel ==
    [][\A i \in Items :
          \/ durable'[i] > durable[i]
          \/ behavior'[i] = "silence" /\ behavior[i] # "silence"
          => phase = "live" /\ home[i] = session /\ viewer[ViewerOf[i]] # "gone"]_vars

\* Every request is decided and every stop ends: again and again the runtime owes nobody
\* an answer.
EverythingSettles ==
    []<>(/\ \A i \in Items : pc[i] = "new" \/ verdict[i] # None
         /\ phase # "stopping")

==============================================================================
