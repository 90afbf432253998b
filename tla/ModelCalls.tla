----------------------------- MODULE ModelCalls -----------------------------
(***************************************************************************)
(* The calls to the model server: one viewer's answer with its repair, the *)
(* answer of a whole window batch and the summaries (providers/model/      *)
(* viewer_runtime.py), the memory extraction (application/                 *)
(* memory_extractor.py).  They share the rate gate and each invocation     *)
(* leaves a record in the log.                                             *)
(*                                                                         *)
(* A step ends where the call really waits: for a frame, a memory slot,    *)
(* the gate, the server.  The server is an input, and so is the caller,    *)
(* save that of a window batch, which is BatchDispatch.  Requests of a     *)
(* provider that is closed are not here: ProviderGeneration keeps it open  *)
(* while it is used.                                                       *)
(***************************************************************************)
EXTENDS RateGate, AiCallLog

CONSTANTS Scenarios,  \* see scenario
          Slots,      \* max_concurrency of the memory extractor
          RetryAfters \* what Retry-After may say: at most one number each

ASSUME SlotAssumption == Slots \in Nat \ {0} /\ RetryAfters \subseteq SUBSET Nat
ASSUME ScenarioAssumption ==
    \A s \in Scenarios : DOMAIN s.kind \subseteq Calls /\ s.inFlight \in Nat \ {0}

VARIABLES
    scenario, \* kind: of each call; inFlight: of the gate; logged: there is a log;
              \* server, events: what the server and the world may do
    call,
    budget,   \* _viewer_call_states: invocations and provider calls of a viewer request
    late,     \* requests past their deadline
    http,     \* history: requests the server got for each call
    up        \* the process runs

callVars == <<gate, log, call, budget, http>>

Kind(c) == scenario.kind[c]
Known == DOMAIN scenario.kind
Waiting == {"prepare", "slot", "line", "server"}

NoCall == [at |-> "idle", round |-> 0, repair |-> FALSE, plain |-> FALSE,
           doomed |-> FALSE, retryable |-> FALSE, outcome |-> "none"]
NoBudget == [rounds |-> 0, calls |-> 0]

CallsInit ==
    /\ scenario \in Scenarios
    /\ gate = OpenGate(scenario.inFlight)
    /\ log = EmptyLog
    /\ call = [c \in Calls |-> NoCall]
    /\ budget = [c \in Calls |-> NoBudget]
    /\ late = {} /\ http = [c \in Calls |-> 0] /\ up = TRUE

Live(c) == call[c].at \in Waiting

\* _emit for each status in turn; there may be no sink.
Logged(c, round, statuses) ==
    log' = IF scenario.logged THEN UpsertAll(log, <<c, round>>, statuses) ELSE log

-----------------------------------------------------------------------------
(* The budget of a viewer request *)

\* Requests nobody works on are forgotten once their deadline has passed.
Unexpired == [d \in Calls |-> IF ~Live(d) /\ d \in late THEN NoBudget ELSE budget[d]]

\* _finish_viewer_invocation: kept for the second invocation only.
AfterInvocation(c, retryable) ==
    IF retryable /\ budget[c].rounds = 1 THEN budget[c] ELSE NoBudget

MaySend(c) == Kind(c) # "viewer" \/ budget[c].calls < 2
Spent(c) == IF Kind(c) = "viewer" THEN [budget EXCEPT ![c].calls = @ + 1] ELSE budget

-----------------------------------------------------------------------------
(* Steps of a call *)

\* The call ends: its record, its budget.  What it leaves of the gate is g.
End(c, g, statuses, retryable) ==
    /\ call' = [call EXCEPT ![c].at = "ended", ![c].doomed = FALSE,
                            ![c].retryable = retryable, ![c].outcome = Last(statuses)]
    /\ gate' = g
    /\ budget' = [budget EXCEPT ![c] = AfterInvocation(c, retryable)]
    /\ Logged(c, call[c].round, statuses)
    /\ UNCHANGED http

\* _send_rate_limited once the call has looked at the gate, which is now g: with the lease
\* it sends at once, unless its deadline has passed.  b is the budget, `said' what the
\* record already says of this step.
Start(c, g, b, said) ==
    IF g.stance[c] = "lease" /\ c \in late /\ Kind(c) \in {"viewer", "batch"}
      THEN End(c, Release(g, c), said \o <<"failed">>, FALSE)
    ELSE /\ gate' = g /\ budget' = b
         /\ IF g.stance[c] = "lease"
              THEN /\ call' = [call EXCEPT ![c].at = "server",
                                           ![c].repair = @ \/ said # <<>>]
                   /\ http' = [http EXCEPT ![c] = @ + 1]
                   /\ Logged(c, call[c].round, said \o <<"sent">>)
              ELSE /\ call' = [call EXCEPT ![c].at = "line", ![c].repair = @ \/ said # <<>>]
                   /\ Logged(c, call[c].round, said)
                   /\ UNCHANGED http

\* A new invocation of call c.
Invoked(c) ==
    /\ call' = [call EXCEPT ![c] = [NoCall EXCEPT !.at = "prepare", !.round = call[c].round + 1]]
    /\ budget' = IF Kind(c) = "viewer" THEN [Unexpired EXCEPT ![c].rounds = @ + 1] ELSE budget
    /\ Logged(c, call[c].round + 1, <<"preparing">>)
    /\ UNCHANGED <<gate, http>>

\* A first invocation, or the one retry of a viewer request that failed for the moment.
Invoke(c) ==
    /\ up /\ Kind(c) # "batch"
    /\ \/ call[c].at = "idle" /\ \A d \in Known : d < c => call[d].at # "idle"
       \/ /\ Kind(c) = "viewer" /\ call[c].round = 1 /\ c \notin late
          /\ call[c].at = "ended" /\ call[c].retryable
    /\ Invoked(c)
    /\ UNCHANGED <<scenario, late, up>>

\* _viewer_content, _window_batch_content, _content: frames may be missing.
PrepareFails(c) ==
    /\ "noFrame" \in scenario.server
    /\ call[c].at = "prepare" /\ ~call[c].doomed
    /\ \E s \in {"failed", "blocked"} : End(c, gate, <<s>>, FALSE)
    /\ UNCHANGED <<scenario, late, up>>

\* The extractor waits for a slot before it asks for a lease, the others ask at once.
Prepared(c) ==
    /\ call[c].at = "prepare" /\ ~call[c].doomed
    /\ IF Kind(c) = "memory"
         THEN /\ call' = [call EXCEPT ![c].at = "slot"]
              /\ UNCHANGED <<gate, log, budget, http>>
       ELSE IF MaySend(c)
         THEN Start(c, Look(Join(gate, c), c), Spent(c), <<>>)
       ELSE End(c, gate, <<"failed">>, FALSE)
    /\ UNCHANGED <<scenario, late, up>>

Slotted == {c \in Known : Kind(c) = "memory" /\ call[c].at \in {"line", "server"}}

TakeSlot(c) ==
    /\ call[c].at = "slot" /\ ~call[c].doomed
    /\ Cardinality(Slotted) < Slots
    /\ Start(c, Look(Join(gate, c), c), budget, <<>>)
    /\ UNCHANGED <<scenario, late, up>>

\* A waiter at the gate was notified, or its sleep is over.
LookAgain(c) ==
    /\ call[c].at = "line" /\ ~call[c].doomed /\ MayLook(gate, c)
    /\ Start(c, Look(gate, c), budget, <<>>)
    /\ UNCHANGED <<scenario, late, up>>

-----------------------------------------------------------------------------
(* What the server answers *)

Answering(c, what) ==
    call[c].at = "server" /\ ~call[c].doomed /\ what \in scenario.server

\* The answer keeps the contract of its role.
AnswerGood(c) ==
    /\ Answering(c, "good")
    /\ End(c, Release(Praise(gate, c), c), <<"received", "succeeded">>, FALSE)
    /\ UNCHANGED <<scenario, late, up>>

\* No answer in time, a broken connection, a 5xx: worth another attempt.
AnswerMissing(c) ==
    /\ Answering(c, "missing")
    /\ \E said \in {<<>>, <<"received">>} :
         End(c, Release(gate, c), said \o <<"failed">>, TRUE)
    /\ UNCHANGED <<scenario, late, up>>

\* 429
AnswerLimited(c) ==
    /\ Answering(c, "limited")
    /\ \E r \in RetryAfters :
         End(c, Release(Defer(gate, r), c), <<"received", "failed">>, TRUE)
    /\ UNCHANGED <<scenario, late, up>>

\* Another 4xx, which is no success, or an answer that cannot be used.
AnswerUseless(c) ==
    /\ Answering(c, "useless")
    /\ \E g \in {gate, Praise(gate, c)} :
         End(c, Release(g, c), <<"received", "failed">>, FALSE)
    /\ UNCHANGED <<scenario, late, up>>

\* A server without the JSON mode is asked again without it, under the same lease.
AnswerNoJsonMode(c) ==
    /\ Answering(c, "noJsonMode") /\ Kind(c) # "viewer" /\ ~call[c].plain
    /\ call' = [call EXCEPT ![c].plain = TRUE]
    /\ http' = [http EXCEPT ![c] = @ + 1]
    /\ UNCHANGED <<gate, log, budget, scenario, late, up>>

\* A viewer's answer that breaks the contract is repaired once, in the first invocation
\* and while there is time.
Repair(c) ==
    Start(c, Look(Join(Release(Praise(gate, c), c), c), c), Spent(c), <<"received">>)

AnswerBroken(c) ==
    /\ Answering(c, "broken") /\ Kind(c) = "viewer"
    /\ budget[c].rounds = 1 /\ ~call[c].repair /\ c \notin late
    /\ IF MaySend(c) THEN Repair(c)
       ELSE End(c, Release(Praise(gate, c), c), <<"received", "failed">>, FALSE)
    /\ UNCHANGED <<scenario, late, up>>

-----------------------------------------------------------------------------
(* Cancellation, deadlines, the process *)

\* The caller of c gives up; the call hears of it when it runs next.
Abandon(c) ==
    /\ "abandon" \in scenario.events
    /\ Live(c) /\ Kind(c) # "batch" /\ ~call[c].doomed
    /\ call' = [call EXCEPT ![c].doomed = TRUE]
    /\ UNCHANGED <<scenario, gate, log, budget, late, http, up>>

\* CancelledError at the point where the call waits.
Unwind(c) ==
    /\ Live(c) /\ call[c].doomed
    /\ End(c, IF call[c].at = "line" THEN Leave(gate, c)
              ELSE IF call[c].at = "server" THEN Release(gate, c) ELSE gate,
           <<"cancelled">>, FALSE)
    /\ UNCHANGED <<scenario, late, up>>

Expire(c) ==
    /\ "expire" \in scenario.events
    /\ Kind(c) \in {"viewer", "batch"} /\ c \notin late /\ call[c].at # "idle"
    /\ late' = late \cup {c}
    /\ UNCHANGED <<scenario, callVars, up>>

Noted(c) == {k \in DOMAIN log.items : log.items[k].id[1] = c}

\* record_viewer_output: the output has news of a viewer's lines.  The latest record of the
\* call is written again, if one is still kept; it says what it said.
NoteOutput(c) ==
    /\ scenario.logged /\ Kind(c) = "viewer"
    /\ call[c].at = "ended" /\ call[c].outcome = "succeeded" /\ Noted(c) # {}
    /\ LET latest == CHOOSE k \in Noted(c) : \A j \in Noted(c) : log.items[j].id[2] <= log.items[k].id[2]
       IN log' = Upsert(log, log.items[latest])
    /\ UNCHANGED <<scenario, gate, call, budget, late, http, up>>

\* The process dies with its callers, perhaps while it writes a line.
Crash ==
    /\ "crash" \in scenario.events /\ up /\ \A c \in Known : call[c].at # "lost"
    /\ up' = FALSE
    /\ call' = [c \in Calls |-> [call[c] EXCEPT !.at = IF Live(c) THEN "lost" ELSE IF @ = "ended" THEN "past" ELSE @,
                                               !.retryable = FALSE, !.doomed = FALSE]]
    /\ gate' = OpenGate(scenario.inFlight)
    /\ budget' = [c \in Calls |-> NoBudget]
    /\ \E torn \in BOOLEAN : log' = Lost(log, torn)
    /\ UNCHANGED <<scenario, late, http>>

Restart ==
    /\ ~up /\ MayLoad(log)
    /\ up' = TRUE
    /\ log' = Load(log)
    /\ UNCHANGED <<scenario, gate, call, budget, late, http>>

\* What a call does by itself, the server answering.
Serve(c) ==
    \/ PrepareFails(c) \/ Prepared(c) \/ TakeSlot(c) \/ LookAgain(c)
    \/ AnswerGood(c) \/ AnswerMissing(c) \/ AnswerLimited(c) \/ AnswerUseless(c)
    \/ AnswerNoJsonMode(c) \/ AnswerBroken(c) \/ Unwind(c)

CallStep(c) == Serve(c) \/ Invoke(c) \/ NoteOutput(c) \/ Abandon(c) \/ Expire(c)

-----------------------------------------------------------------------------
(* Properties *)

\* What the gate counts is what the calls hold: a lease for each request at the server, a
\* place in the line for each that waits for one.  The first in line waits to be told only
\* while every lease is out.
GateCountsLeases ==
    /\ \A c \in Known : (gate.stance[c] = "lease") <=> (call[c].at = "server")
    /\ gate.active = Cardinality({c \in Known : call[c].at = "server"})
    /\ gate.active <= gate.limit
    /\ ToSet(gate.line) = {c \in Known : call[c].at = "line"}
    /\ IsInjective(gate.line)
    /\ gate.line # <<>> /\ gate.stance[Head(gate.line)] = "wait" => gate.active = gate.limit

\* No viewer request reaches the server more than twice, however repair and retry meet.
TwoRequestsAtMost == \A c \in Known : Kind(c) = "viewer" => http[c] <= 2

\* The log says of each call what came of it: the calls at work are not decided, the calls
\* that ended read as they ended, and those a crash took are interrupted.  What a restart
\* would read is what the memory holds, unless a torn line swallowed another one.
LogAgrees ==
    scenario.logged /\ up =>
      /\ \A k \in DOMAIN log.items :
           LET c == log.items[k].id[1]
               s == log.items[k].status
           IN IF Live(c) /\ log.items[k].id[2] = call[c].round THEN s \notin Terminal
              ELSE /\ s \in Terminal
                   /\ call[c].at \in {"ended", "past"} /\ log.items[k].id[2] = call[c].round =>
                        s = call[c].outcome
                   /\ call[c].at = "lost" /\ log.items[k].id[2] = call[c].round =>
                        s = "interrupted"
      /\ (\A k \in DOMAIN log.file : Readable(log.file[k])) => Replay(log.file) = log.items

=============================================================================
