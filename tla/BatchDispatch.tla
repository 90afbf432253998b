---------------------------- MODULE BatchDispatch ----------------------------
(***************************************************************************)
(* application/viewer_runtime.py with one model call for all viewers of a  *)
(* wave: the batch waits for a slot of its lane, claims a sequence for     *)
(* each viewer, asks the model at most twice and hands every viewer's part *)
(* of the answer to the output.  Batches of later waves run beside it; the *)
(* scheduler, the end of the session, a full lane or its own deadline may  *)
(* end it.                                                                 *)
(*                                                                         *)
(* A batch is named by its call.  Each critical section of the runtime's   *)
(* lock is one step.  What the output does with the lines it was given is  *)
(* ViewerDispatch; here it publishes or drops them.                        *)
(***************************************************************************)
EXTENDS ModelCalls

CONSTANTS Viewers,       \* numbers, in the order the decision names them
          LaneSlots,     \* max_in_flight_viewer_requests
          LaneQueue,     \* viewer_queue_capacity
          RequestPace    \* viewer_request_start_interval_ms, in ticks

ASSUME LaneAssumption ==
    /\ Viewers \subseteq Nat \ {0}
    /\ LaneSlots \in Nat \ {0} /\ LaneQueue \in Nat \ {0} /\ RequestPace \in Nat
ASSUME ChosenAssumption == \A s \in Scenarios : s.viewers \subseteq Viewers

VARIABLES
    session,  \* "live" or "stopped"
    fence,    \* the batch of the newest wave
    lane,     \* its batches: active is a set's size, eligible the queue
    pace,     \* ticks until the session's next request may start
    work,     \* _WindowBatchWork
    trace,    \* each viewer's trace
    out,      \* what the output made of a viewer's lines
    report    \* the summary the dispatch returned

batchVars == <<session, fence, lane, pace, work, trace, out, report>>
dispatchVars == <<scenario, callVars, late, up, batchVars>>

Batches == {c \in Known : Kind(c) = "batch"}
NoTrace == "none"

\* items: viewers with a request; claimed: those whose sequence was claimed.
NewWork == [at |-> "new", slot |-> "none", reason |-> "none", sent |-> FALSE,
            tries |-> 0, items |-> {}, claimed |-> {}]

BatchInit ==
    /\ CallsInit
    /\ session = "live" /\ fence = 0 /\ pace = 0
    /\ lane = [active |-> 0, eligible |-> <<>>]
    /\ work = [c \in Calls |-> NewWork]
    /\ trace = [c \in Calls |-> [v \in Viewers |-> NoTrace]]
    /\ out = [c \in Calls |-> [v \in Viewers |-> "none"]]
    /\ report = [c \in Calls |-> [v \in Viewers |-> "none"]]

calm == <<scenario, callVars, late, up>>

-----------------------------------------------------------------------------
(* The lane *)

\* _finish_window_batch for batch c of w: its slot or its place in the queue, whichever it
\* has, is given back, and a freed slot goes to the batch that waits longest.
GiveBack(c, w) ==
    LET rest == RemoveFirst(lane.eligible, c)
        active == lane.active - (IF w[c].slot = "held" THEN 1 ELSE 0)
        promote == active < LaneSlots /\ rest # <<>>
    IN /\ lane' = [active |-> IF promote THEN active + 1 ELSE active,
                   eligible |-> IF promote THEN Tail(rest) ELSE rest]
       /\ work' = [d \in Calls |->
                     IF d = c THEN [w[d] EXCEPT !.slot = "none"]
                     ELSE IF promote /\ d = Head(rest)
                       THEN [w[d] EXCEPT !.slot = "held", !.at = "ready"]
                     ELSE w[d]]

\* Fault: only the newest wave matches the fence.
CurrentOnlyNewest(c) ==
    /\ work[c].reason = "none" /\ session = "live"
    /\ c = fence \/ work[c].sent

\* _window_batch_is_current_locked: every wave up to the newest matches the fence
\* (_wave_matches_current_fence), so that a newer one takes nothing from it.
Current(c) ==
    /\ work[c].reason = "none" /\ session = "live"
    /\ c <= fence \/ work[c].sent

Because(c, why) == IF work[c].reason = "none" THEN why ELSE work[c].reason

-----------------------------------------------------------------------------
(* What a dispatch returns *)

Chosen == scenario.viewers

\* The traces of batch c once those of the viewers in S that have none say `what'.
Traced(c, S, what) ==
    [trace EXCEPT ![c] = [v \in Viewers |-> IF v \in S /\ @[v] = NoTrace THEN what ELSE @[v]]]

\* A summary: the traces of what this dispatch decided, and the viewers without a request.
Summary(c, decided, items) ==
    [v \in Viewers |-> IF v \in Chosen \ items \/ trace'[c][v] = "stale" THEN "stale"
                       ELSE IF v \in decided THEN trace'[c][v] ELSE "none"]

\* The requests an interrupted batch speaks of: those it has, or those it would have had.
Ensured(c) == IF work[c].items # {} THEN {work[c].items} ELSE SUBSET Chosen

\* The batch ends without its answer (_window_batch_interrupted_summary).  The summary
\* counts the requests nothing was said of yet, and the stale ones.
InterruptBatch(c, why) ==
    \E items \in Ensured(c) :
      /\ trace' = Traced(c, items, "cancelled")
      /\ report' = [report EXCEPT ![c] = Summary(c, {v \in items : trace[c][v] = NoTrace}, items)]
      /\ GiveBack(c, [work EXCEPT ![c].at = "returned", ![c].reason = Because(c, why),
                                  ![c].items = items])

\* The batch ends for every claimed request alike, or with what each of them came to.
Conclude(c, what) ==
    /\ trace' = Traced(c, work[c].claimed, what)
    /\ report' = [report EXCEPT ![c] = Summary(c, work[c].claimed, work[c].items)]
    /\ GiveBack(c, [work EXCEPT ![c].at = "returned"])

Doomed(c) == [call EXCEPT ![c].doomed = Live(c)]

Step(c, f) == work' = [work EXCEPT ![c] = f]

-----------------------------------------------------------------------------
(* One dispatch *)

\* _advance_wave_fence.  A decision for a session that ended is stale at once.
Dispatch(c) ==
    /\ work[c].at = "new" /\ \A d \in Batches : d < c => work[d].at # "new"
    /\ IF session = "live"
         THEN /\ fence' = c /\ Step(c, [work[c] EXCEPT !.at = "admit"])
              /\ UNCHANGED report
         ELSE /\ Step(c, [work[c] EXCEPT !.at = "returned"])
              /\ report' = [report EXCEPT ![c] = [v \in Viewers |-> IF v \in Chosen THEN "stale"
                                                                    ELSE "none"]]
              /\ UNCHANGED fence
    /\ UNCHANGED <<session, lane, pace, trace, out, calm>>

\* _admit_window_batch
Admit(c) ==
    /\ work[c].at = "admit"
    /\ IF ~Current(c) THEN InterruptBatch(c, "superseded")
       ELSE IF lane.active < LaneSlots
         THEN /\ lane' = [lane EXCEPT !.active = @ + 1]
              /\ Step(c, [work[c] EXCEPT !.at = "ready", !.slot = "held"])
              /\ UNCHANGED <<trace, report>>
       ELSE IF Len(lane.eligible) >= LaneQueue THEN InterruptBatch(c, "capacity")
       ELSE /\ lane' = [lane EXCEPT !.eligible = Append(@, c)]
            /\ Step(c, [work[c] EXCEPT !.at = "waiting", !.slot = "queued"])
            /\ UNCHANGED <<trace, report>>
    /\ UNCHANGED <<session, fence, pace, out, calm>>

\* The requests of the viewers that are still in the pool.
Build(c) ==
    /\ work[c].at = "ready"
    /\ IF ~Current(c) THEN InterruptBatch(c, "superseded")
       ELSE \E items \in SUBSET Chosen :
              IF items = {} THEN Conclude(c, "stale")
              ELSE /\ Step(c, [work[c] EXCEPT !.at = "claim", !.items = items])
                   /\ UNCHANGED <<lane, trace, report>>
    /\ UNCHANGED <<session, fence, pace, out, calm>>

Unclaimed(c) == {v \in work[c].items \ work[c].claimed : trace[c][v] = NoTrace}

\* _claim_item_sequence for one viewer after the other.
Claim(c) ==
    /\ work[c].at = "claim"
    /\ IF Unclaimed(c) = {}
         THEN IF work[c].claimed = {} THEN Conclude(c, "stale")
              ELSE /\ Step(c, [work[c] EXCEPT !.at = "turn"])
                   /\ UNCHANGED <<lane, trace, report>>
       ELSE IF work[c].reason # "none" THEN InterruptBatch(c, "superseded")
       ELSE LET v == Min(Unclaimed(c)) IN
            \/ /\ Step(c, [work[c] EXCEPT !.claimed = @ \cup {v}])
               /\ UNCHANGED <<lane, trace, report>>
            \/ /\ trace' = Traced(c, {v}, "stale")
               /\ UNCHANGED <<lane, work, report>>
    /\ UNCHANGED <<session, fence, pace, out, calm>>

\* The session's next request may start: the provider is asked.
StartAttempt(c) ==
    /\ work[c].at = "turn" /\ pace = 0 /\ Current(c) /\ c \notin late
    /\ Invoked(c)
    /\ pace' = RequestPace
    /\ Step(c, [work[c] EXCEPT !.at = "attempt", !.sent = TRUE, !.tries = @ + 1])
    /\ UNCHANGED <<session, fence, lane, trace, out, report, scenario, late, up>>

\* _wait_for_request_pace gives up, or the deadline passed before the wait.
TurnLost(c) ==
    /\ work[c].at = "turn"
    /\ \/ (~Current(c) \/ c \in late) /\ InterruptBatch(c, "superseded")
       \/ c \in late /\ Conclude(c, "expired")
    /\ UNCHANGED <<session, fence, pace, out, calm>>

\* The attempt ended by itself: one more when the failure is transient and time is left.
AttemptEnds(c) ==
    /\ work[c].at = "attempt" /\ ~Live(c) /\ work[c].reason = "none"
    /\ LET retry == call[c].retryable /\ work[c].tries = 1 IN
       \/ /\ call[c].outcome = "succeeded" /\ Step(c, [work[c] EXCEPT !.at = "accept"])
          /\ UNCHANGED <<lane, trace, report>>
       \/ /\ retry /\ c \notin late /\ Step(c, [work[c] EXCEPT !.at = "backoff"])
          /\ UNCHANGED <<lane, trace, report>>
       \/ retry /\ Conclude(c, "expired")
       \/ call[c].outcome # "succeeded" /\ (~retry \/ c \in late) /\ Conclude(c, "failed")
    /\ UNCHANGED <<session, fence, pace, out, calm>>

\* The session stopped, or the time for the attempt is over, while the provider works.
AttemptGivenUp(c) ==
    /\ work[c].at = "attempt"
    /\ \/ work[c].reason # "none" /\ InterruptBatch(c, "superseded")
       \/ work[c].reason = "none" /\ c \in late /\ Conclude(c, "expired")
    /\ call' = Doomed(c)
    /\ UNCHANGED <<session, fence, pace, out, scenario, gate, log, budget, http, late, up>>

BackoffEnds(c) ==
    /\ work[c].at = "backoff"
    /\ \/ /\ Current(c) /\ c \notin late /\ Step(c, [work[c] EXCEPT !.at = "turn"])
          /\ UNCHANGED <<lane, trace, report>>
       \/ ~Current(c) /\ InterruptBatch(c, "superseded")
       \/ Current(c) /\ c \in late /\ Conclude(c, "expired")
    /\ UNCHANGED <<session, fence, pace, out, calm>>

-----------------------------------------------------------------------------
(* The answer, viewer by viewer *)

Open(c) == {v \in work[c].claimed : trace[c][v] = NoTrace /\ out[c][v] = "none"}

Decide(c, v, what) ==
    /\ trace' = Traced(c, {v}, what)
    /\ UNCHANGED <<work, out>>

\* What a viewer's part of the answer comes to: nothing in it is a silence, which is
\* committed; a part may break the rules of the barrage; lines go to the output.
Accept(c) ==
    /\ work[c].at = "accept" /\ Open(c) # {}
    /\ LET v == Min(Open(c)) IN
       \/ Decide(c, v, "rejected")
       \/ \E why \in {"stale", "expired"} : (why = "expired" => c \in late) /\ Decide(c, v, why)
       \/ /\ session = "live"
          /\ \/ Decide(c, v, "silence")
             \/ /\ Step(c, [work[c] EXCEPT !.at = "silence"]) /\ UNCHANGED <<trace, out>>
             \/ /\ out' = [out EXCEPT ![c][v] = "queued"] /\ UNCHANGED <<trace, work>>
       \/ session # "live" /\ Decide(c, v, "cancelled")
    /\ UNCHANGED <<session, fence, lane, pace, report, calm>>

\* _commit_silence, which cannot be cancelled.
CommitSilence(c) ==
    /\ work[c].at = "silence"
    /\ LET what == IF session = "live" /\ c \notin late THEN "silence"
                   ELSE IF c \in late THEN "expired" ELSE "stale"
       IN trace' = Traced(c, {Min(Open(c))}, what)
    /\ Step(c, [work[c] EXCEPT !.at = "accept"])
    /\ UNCHANGED <<session, fence, lane, pace, out, report, calm>>

\* The slot is given back before the lines are published.
AllAccepted(c) ==
    /\ work[c].at = "accept" /\ Open(c) = {}
    /\ IF \E v \in Viewers : out[c][v] # "none"
         THEN /\ GiveBack(c, [work EXCEPT ![c].at = "delivery"])
              /\ UNCHANGED <<trace, report>>
         ELSE Conclude(c, NoTrace)
    /\ UNCHANGED <<session, fence, pace, out, calm>>

\* Fault: lines that were dropped still read as published.
OutputAlwaysPublished(c, v) ==
    /\ out[c][v] = "queued"
    /\ out' = [out EXCEPT ![c][v] = IF session = "live" THEN "published" ELSE "dropped"]
    /\ trace' = Traced(c, {v}, "published")
    /\ UNCHANGED <<session, fence, lane, pace, work, report, calm>>

\* Batches with a line that was published and reads "cancelled" though no scheduler cancelled it.
Unnoted == {c \in Batches : /\ work[c].reason # "scheduler"
                            /\ \E v \in Viewers : out[c][v] = "published" /\ trace[c][v] # "published"}

\* The output worker, ViewerDispatch's Finish.  The one line whose append was under way at
\* the end of the session is published, and its worker is cancelled before it notes so.
Output(c, v) ==
    /\ out[c][v] = "queued"
    /\ \/ /\ session = "live"
          /\ out' = [out EXCEPT ![c][v] = "published"] /\ trace' = Traced(c, {v}, "published")
       \/ /\ session # "live" /\ Unnoted = {}
          /\ out' = [out EXCEPT ![c][v] = "published"] /\ trace' = Traced(c, {v}, "cancelled")
       \/ /\ out' = [out EXCEPT ![c][v] = "dropped"] /\ trace' = Traced(c, {v}, "cancelled")
    /\ UNCHANGED <<session, fence, lane, pace, work, report, calm>>

Delivered(c) ==
    /\ work[c].at = "delivery" /\ \A v \in Viewers : out[c][v] # "queued"
    /\ Conclude(c, NoTrace)
    /\ UNCHANGED <<session, fence, pace, out, calm>>

-----------------------------------------------------------------------------
(* From outside *)

\* The scheduler cancels the dispatch.  Once the lines are with the output, nothing is
\* reported of them.
Cancel(c) ==
    /\ "cancel" \in scenario.events
    /\ work[c].at \notin {"new", "admit", "silence", "returned"}
    /\ IF work[c].at = "delivery"
         THEN /\ Step(c, [work[c] EXCEPT !.at = "returned"])
              /\ UNCHANGED <<lane, trace, report, call>>
         ELSE /\ InterruptBatch(c, "scheduler")
              /\ call' = Doomed(c)
    /\ UNCHANGED <<session, fence, pace, out, scenario, gate, log, budget, http, late, up>>

\* Fault: nobody tells the batch that waits in the lane.
StruckAsleep(w) == [w EXCEPT !.reason = "stopped", !.slot = IF @ = "queued" THEN "none" ELSE @]

\* What stop_session does to an admitted batch: it leaves the lane's queue and runs on.
Struck(w) ==
    [w EXCEPT !.reason = "stopped",
              !.at = IF @ = "waiting" THEN "ready" ELSE @,
              !.slot = IF @ = "queued" THEN "none" ELSE @]

\* stop_session
StopBatches ==
    /\ "stop" \in scenario.events /\ session = "live"
    /\ session' = "stopped" /\ fence' = 0
    /\ LET hit == {c \in Batches : work[c].at \notin {"new", "admit", "delivery", "returned"}} IN
       /\ work' = [c \in Calls |-> IF c \in hit THEN Struck(work[c]) ELSE work[c]]
       /\ call' = [c \in Calls |-> [call[c] EXCEPT !.doomed = @ \/ (c \in hit /\ Live(c))]]
    /\ lane' = [lane EXCEPT !.eligible = <<>>]
    /\ UNCHANGED <<pace, trace, out, report, scenario, gate, log, budget, http, late, up>>

TimePasses ==
    /\ MayPass(gate) \/ pace > 0
    /\ gate' = Later(gate) /\ pace' = Before(pace)
    /\ UNCHANGED <<scenario, log, call, budget, late, http, up,
                   session, fence, lane, work, trace, out, report>>

-----------------------------------------------------------------------------

BatchStep(c) ==
    \/ Admit(c) \/ Build(c) \/ Claim(c) \/ StartAttempt(c) \/ TurnLost(c)
    \/ AttemptEnds(c) \/ AttemptGivenUp(c) \/ BackoffEnds(c)
    \/ Accept(c) \/ CommitSilence(c) \/ AllAccepted(c) \/ Delivered(c)
    \/ \E v \in Viewers : Output(c, v)

BatchNext ==
    \/ \E c \in Known : CallStep(c) /\ UNCHANGED batchVars
    \/ Batches = {} /\ (Crash \/ Restart) /\ UNCHANGED batchVars
    \/ \E c \in Batches : Dispatch(c) \/ BatchStep(c) \/ Cancel(c)
    \/ StopBatches
    \/ TimePasses

\* Time passes, tasks that can run do, and the server answers or its timeout does: each
\* request has one.  Nothing makes a caller retry, a session stop or a process restart.
BatchFairness ==
    /\ WF_dispatchVars(TimePasses)
    /\ \A c \in Calls : WF_dispatchVars(c \in Known /\ Serve(c) /\ UNCHANGED batchVars)
    /\ \A c \in Calls : WF_dispatchVars(c \in Batches /\ BatchStep(c))

BatchSpec == BatchInit /\ [][BatchNext]_dispatchVars /\ BatchFairness

-----------------------------------------------------------------------------
(* Properties *)

DispatchTyped ==
    /\ \A c \in Calls :
         /\ call[c].at \in Waiting \cup {"idle", "ended", "past", "lost"}
         /\ call[c].round \in 0 .. 2 /\ budget[c].calls \in 0 .. 2
         /\ gate.stance[c] \in Stances
         /\ work[c].tries \in 0 .. 2 /\ work[c].claimed \subseteq work[c].items
         /\ work[c].slot \in {"none", "queued", "held"}
    /\ late \subseteq Calls /\ up \in BOOLEAN /\ pace \in 0 .. RequestPace
    /\ session \in {"live", "stopped"} /\ fence \in Calls \cup {0}

\* The lane counts the batches that hold a slot, within its limits, and none waits while a
\* slot is free; a dispatch that returned holds neither.
LaneCountsBatches ==
    LET queued == {c \in Batches : work[c].slot = "queued"} IN
    /\ lane.active = Cardinality({c \in Batches : work[c].slot = "held"})
    /\ lane.active <= LaneSlots /\ Len(lane.eligible) <= LaneQueue
    /\ ToSet(lane.eligible) = queued /\ Cardinality(queued) = Len(lane.eligible)
    /\ queued # {} => lane.active = LaneSlots
    /\ \A c \in Batches : work[c].at = "returned" => work[c].slot = "none"

\* What is held is counted and what is counted is held, at the gate and in the lane,
\* whichever of cancellation, deadline, stop and answer ends the holder.
HoldersAreCounted == DispatchTyped /\ GateCountsLeases /\ LaneCountsBatches /\ TwoRequestsAtMost

\* Every viewer's request of a batch is accounted for: when the dispatch returned, it has a
\* trace, unless its lines are still with the output; the summary says of it what the
\* trace says; and a trace says "published" exactly of what the output published, save
\* that a cancellation between two viewers' parts reads "cancelled" for lines already
\* handed over, and that the end of the session may overtake the note of a line.
EveryViewerAccounted ==
    \A c \in Batches :
      /\ work[c].at = "returned" => \A v \in work[c].items :
            trace[c][v] # NoTrace \/ out[c][v] = "queued"
      /\ \A v \in work[c].items : report[c][v] \in {"none", trace[c][v]}
      /\ \A v \in Viewers :
           /\ trace[c][v] = "published" => out[c][v] = "published"
           /\ out[c][v] = "published" /\ work[c].reason # "scheduler" /\ session = "live" =>
                trace[c][v] = "published"

\* Waves run side by side: a newer one ends no older batch, whatever it waits for; only the
\* end of the session or its deadline supersedes it.  And what was ended, by those, by the
\* scheduler or for want of room, asks the model no more and hands nothing to the output.
OvertakenRunsOn ==
    [][\A c \in Batches :
         /\ work'[c].reason = "superseded" =>
              work[c].reason = "superseded" \/ session = "stopped" \/ c \in late
         /\ \/ work'[c].tries > work[c].tries
            \/ \E v \in Viewers : out'[c][v] = "queued" /\ out[c][v] = "none"
            => session = "live" /\ work[c].reason = "none"]_dispatchVars

\* Every call that was made ends and every dispatch returns, unless the process died: again
\* and again nobody waits for an answer.
EverythingReturns ==
    []<>\A c \in Calls : ~Live(c) /\ work[c].at \in {"new", "returned"}

=============================================================================
