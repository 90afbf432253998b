# Formal models of ADVX-live

ADVX-live is a desktop application that gives a live host an audience of language models.  An
Electron application captures screen, microphone and system audio and sends them to a local Python
backend; the backend transcribes, collects events in a Room, lets simulated Viewers decide whether
to speak, and returns barrage.  This directory holds TLA+ models of that backend, the TLC
configurations that check them on small instances, and TLAPS proofs for instances of every size.
All paths below are relative to `src/apps/backend/src/advx_backend/` unless they begin with `src/`.

Contents: 1 the system; 2 the modules and the code; 3 the runs; 4 bounds; 5 fairness; 6 proofs;
7 what is only model-checked; Disagreements; 8 what is not modelled; 9 the plan.

## 1. The system

The backend is one process with one asyncio event loop.  Nothing runs in parallel, but every
`await` that really suspends lets another task in.  The models rest on one observation, made for
each component and noted in its header: *a critical section of an asyncio lock that contains no
real suspension is one atomic step, and taking a lock nobody holds does not suspend.*  What remains
interesting is what lies between two such sections, and the few places that do suspend inside a
lock (database writes, the start of resources).

| component | state | operations | hard behaviour | must hold |
|---|---|---|---|---|
| Session service (`application/session_service.py`, `session_resources.py`) | state, session id, tasks | start, adopt, pause, resume, error, stop, abandon, start_task, shutdown | tasks cancelled after the lock is released; resources that fail half way; shutdown waiting for somebody else's stop | no task outlives its session unnoticed, IDLE holds no resource, every stop ends |
| Runtime revisions (`runtime_session_service.py`, `runtime_state.py`, `sqlite/runtime_repositories.py`) | durable rows, committed runtime in memory | start, current, apply, rollback, recover | crash between two transactions, retried `apply_id`, stop during an update | memory never ahead of the disk, one pending revision, old epochs never accept |
| Audience (`viewer_audience_service.py`, `viewer_pool_service.py`) | pool of viewers, life cycle, moderation | mute, kick, leave, rejoin, replace, reconcile, end | loops of awaited updates over an old snapshot | identities never return, the population is right |
| Result fence (`runtime_state.py`) | epoch, claims, issued sequences, effect lock | claim, execute_if_accepting, replace, update | check and effect are two moments | a result is written only while it is current |
| Reaction scheduler (`reaction_scheduler.py`) | one running, one pending, preserved user reactions | submit, cancel | priorities, merging, cancellation of one task by two parties | every future settles, superseded work has no result |
| Providers (`runtime_provider.py`) | generations with leases | prepare, install, lease, retire, close | the last lease ends during a retirement | never closed while used, always closed afterwards |
| Viewer dispatch (`viewer_runtime.py`) | mailboxes, lanes, output queue, traces, window batches | dispatch, claim, generate, fence, publish, supersede, cancel, stop | several parties give the same slot back; publication races cancellation; waves run side by side, and a newer one must not end an older one that waits | slots are counted, reports are true, ended work is quiet and only that, everybody gets an answer |
| Model calls (`providers/model/*`, `memory_extractor.py`) | leases, cooldown, budgets, deadlines | acquire, send, repair, retry, defer, release | a waiter cancelled at the head of the queue; a retry that needs the lease it gave up | leases are counted, two requests at most, every call ends |
| AI call log (`ai_call_store.py`, `ai_call_logging.py`) | records in memory, JSONL file | upsert, evict, compact, replay | a crash in the middle of a line or of a call | the log says of each call what came of it |
| Ingest (`ingest_service.py`) | seen inputs, pending audio, turns, cooldown | text, frame, audio, finals, timers, stop | two sources of finals in any order, timers against late finals, retries | nothing twice while it is remembered, nothing lost, the right turn |
| Room (`room_service.py`, `room_event_persistence.py`) | event list, durable rows | append, restore | append cancelled after its commit | sequence without gaps, memory agrees with disk |
| Coordinator (`viewer_runtime_coordinator.py`, `frame_store.py`) | admission policy, retained frames, background extractions | react, store, retain, drain, stop | waves run at once on copies of the policy; an extraction that never ends | frames outlast the wave that looks at them, ambient waves are bounded unless they are window batches, drains end |
| Shared Brain (`shared_brain_service.py`, `memory_service.py`, `meme_service.py`, `sqlite/memory_meme_adapters.py`) | memories with evidence, head, candidates, memes, audit events | extract, edit, merge, replace, revoke, delete, reset, decide, maintain | reads before the first write of a transaction are old; the page acts on what it loaded | stores agree, a request meets what its author saw, people have the last word |
| Realtime delivery (`realtime_broker.py`, `api/ws/realtime.py`, desktop `backend-client.ts`) | queues, connections, the client's view | subscribe, publish, reconnect | slow consumer, late HTTP answer after a newer event | the client's view converges |
| Storage, configuration, logs | SQLite, settings file, traces | transactions, migrations, retention | second of two commits fails | old or new, never half |

How they meet.  `RuntimeSessionService` starts a session through `SessionService`, which starts the
registered resources in order (audience, runtime state, viewer audience, viewer runtime, coordinator,
ingest) and stops them in the opposite order.  The desktop's WebSocket brings text, frames and audio to
ingest and takes statuses back.  Ingest appends to the Room and submits observations to the scheduler;
the scheduler runs a wave through the coordinator and `ViewerRuntime`; every result passes
`RuntimeStateStore`, whose effect lock is the only thing that excludes an audience change or a hot
update while a barrage is appended.  Status and events leave through the broker, which never suspends
its publisher: a publication is part of the step that causes it and keeps its order.

## 2. The modules and the code

**SessionLifecycle** is `SessionService` with `SessionResources`.  The variables are the fields
`_state`, `_session_id`, `_tasks`; `launch` is the critical section of a start or an adoption, the
only one that suspends while holding the lock (it is open only while the state is IDLE); `halt` is
the single stop or abandonment in progress; `cancellers` are the shielded `_cancel_tasks` calls of
`pause` and `mark_error`, which run in a later step than the one that detached the tasks.  A
resource may refuse to start or to stop, the record may not be written, and each task ends when it
likes.  `ShutdownLooks` and `ShutdownStops` are the two halves of `shutdown`.

**RuntimeRevisions** is one runtime session.  `op` is the operation that holds
`RuntimeSessionService._lock`; its phases are the transactions of `apply`, `rollback` and `recover`.
`_snapshot` is split in two because it reads the record (`Read`) and the runtime (`Answer`,
`RecordPending`, `SnapshotFails`) at two moments.  Commit and swap are one step, since both happen
under the boundary of the runtime state.  Audience updates, stop, crash and start of the process do
not take the lock and come at any time.  `served` is a history variable: the highest epoch under
which results were ever accepted.

**AudienceFence** is the store with its users: the audience service, the hot update seen from the
pool, and the sequence counters `ViewerRuntime` keeps beside the fence.  An update of the store holds
the effect lock and the boundary across its database write, so it is one step.
`execute_if_accepting` checks, then writes: two steps, `BeginEffect` and `EndEffect`, with `effect`
held between them.  The audience operations that loop over awaited updates (`reconcile_population`,
`leave`, waves) are one step per update, on the snapshot the code took.  A viewer is named by its
creation ordinal, which is what the code derives the identifier from; there is one persona.
**AtomicFence** is the abstract specification: asking a viewer and hearing it are two moments, but an
answer appears in the Room in one step, and only of a viewer to whom nothing has happened since it
was asked.  `ResultsAreAtomic` is `INSTANCE AtomicFence WITH open <- accepting, standing <- ..., work
<- ...`: `Standing` is what of a viewer's record decides whether it may speak, `Question` what of a
work item was asked.  The fence compares revisions and never the sentence itself, so this refinement is
where it shows that every mute and every lifting moves a revision.

**ReactionScheduler** has one session and any of the observation kinds.  The worker is
"sleeping" in the merge window, "executing", or "woken" with what the execution left.  `doomed` and
`killed` separate the moment `SessionService` detaches a task, cancels it, and the cancellation is
delivered.  Merging, expiry and the length of the window are choices.

**ProviderGeneration** counts leases per generation and follows a candidate from `prepare` to the
publication in the runtime state (`Swap`) and the controller's change of mind (`Commit`).
`CloseComponents` is one awaited close at a time.

**LockOrder** leaves out what the tasks do and keeps which of the two locks
(`ViewerRuntime._lock`, the effect lock) they take, in which order, and the first-come queue of
`asyncio.Lock`.  With a claim in flight the orders cross.

**ViewerDispatch** is a request's way through `ViewerRuntime`: `Enqueue`, `Begin` (with the claim),
`Attempt` (with one retry), `Fence`, `Silence` or `Schedule`, then the output worker (`Take`, `Check`,
`Commit`, `Deliver`, `Finish`), `Release` of the slot, and at any moment `CancelViewer` and `Stop`;
`Struck` sends the requests they hit on to their `CancelledError` branch (`Unwind`), but for a shielded
commit of silence.  A request's trace and its future are decided together, so both are one `verdict`.

**ModelCalls** EXTENDS **RateGate** and **AiCallLog**.  The gate and the log are values, and every
critical section of theirs is an operator: `Join`, `Look`, `Leave`, `Release`, `Defer`, `Praise`;
`Upsert`, `Appended`, `Rewritten`, `Load`.  A call of a viewer, a summary, a memory extraction or a
window batch waits for a memory slot, the gate and the server; each answer of the server (good,
missing, 429, useless, without JSON mode, broken) has its continuation with the one repair and the
one retry the budget allows.  Moments are kept as ticks left until they come.

**BatchDispatch** EXTENDS ModelCalls with `ViewerRuntime.dispatch_window_batch`: `Admit` to the lane,
`Build`, `Claim` per viewer, `StartAttempt` after the pace and its retry, `Decide` and `Accept` per viewer,
`Conclude`; `fence` is the newest wave, `work` the `_WindowBatchWork`.  Waves run side by side: every wave
up to the fence matches it (`Current`), so a newer one ends no older batch, which goes on waiting for
the lane, its turn and its retry.  A batch is refused for want of room, cancelled by the scheduler,
struck by its deadline or by the stop.
What the output worker does with accepted lines is ViewerDispatch's matter.  A process crash
(`Crash`, `Restart`) comes in the behaviours without a batch: what a crash leaves of the call log
does not depend on who made the call, and of a batch nothing survives.

**WaveCoordinator** is `ViewerRuntimeCoordinator.react` with `InMemoryFrameStore`: waves take a copy of
the admission policy, retain the frames they show to the models, dispatch
and give them back; extractions are background tasks that `_drain_background_tasks` waits for, first
patiently and then after a cancellation.  `BatchEpochs` are the epochs whose runtime generates in
WINDOW_BATCH: there every tick is admitted, in the others `max_consecutive_ambient_waves` bounds them.
The frames are of one size, so that the store's limit by number comes before its limit by bytes, which
evicts in the same order.  `quiet` is a history variable: ambient waves since the
last wave with real input was counted.

**ListEdits** has the edits of Python lists several modules share.  **WaveInputs**, which
WaveCoordinator EXTENDS, has no state: what a wave reads (`PublicContext`,
`ReplyContext`, `WindowBatchContext`), sees (`Anchor` to `FrameBundle`) and whom it asks (`Named` to
`Target`, `Speakers`) are functions of the observation and the runtime.  `ContextsSound`,
`ThreadsSound`, `BundlesSound`, `SpeakersSound` and `TargetsSound` say what they promise for every
input within the bounds; `PreparedSoundly` checks them where a wave uses them.  The order in which a
wave of the screen draws viewers is a hash, so it is any order.

**SharedBrain** composes **RoomMemory** and **ModeMemes**, which share only the fence and the page.  A
request is three steps: what its author saw, what the handler reads before the transaction begins,
the transaction with its compare-and-swap.  The commit of an extraction is two, inside the effect
lock.  A behaviour works on memories or on memes, so that the state space is a sum.

**RealtimeIntake** EXTENDS **RoomLog** and **InputLedger** and uses **WindowBatch**: a desktop with its
retry, two successive connections, the handler of each with the one message it serves, the ledger
of seen inputs with receipts and timestamp floors, the line for the lock of the Room, durable rows
before readable events, the timer of the window batch, and statuses through a queue that drops the
oldest.  `Post` to `HearAnswer` are the desktop's steps, `Serve...` a handler up to its first wait,
`PersistText`, `ShowText`, `Observe`, `Push`, `Commit` what follows each wait.  **InputOnce** is the
abstract specification of the protocol: the service knows the inputs it was asked for and takes each of
them once, inputs of a kind in the order of their timestamps, and what is acknowledged was taken.  Its
memory is bounded: one that knows `Capacity` inputs drops an old one for a new one, and only what was
dropped so can be taken again.  `InputsTakenOnce` is `INSTANCE InputOnce WITH kind <- scenario.kind,
known <- Known, open <- ..., told <- ...`, checked as a property of RealtimeIntake and proved of it:
`Known` is what the ledger tracks.  (Where only a stop or a crash is in question nothing is sent twice,
and `Known` is what was ever sent.)

**VoiceTurns** is the audio half of `IngestService`.  Segments leave the client in the order
of one of the `Streams`; the recogniser keeps the order of one source and no order between the two; it may give
up on a segment and may send a final twice.  `turns` is `_coordinated_turns`, `voice` is
`_voice_turns`, `delta`/`flush`/`cooldown` are the cooldown, and `carriers` are rounds that have
left their turn and are on their way to `_schedule_observation`: nothing cancels them at a stop,
which is why the guards there matter.  `CommitFails` is a recogniser that refuses a commit after the
audio was registered: the whole turn is dropped.  `dropped` is a history variable of the events in rounds the
code gave up deliberately.

The modules ending in `MC` only give constants, scenarios and symmetry for TLC.  Where a module has
`scenario` (BatchDispatch, RealtimeIntake) or `page` (SharedBrain), it is chosen at the start and
fixed: it says who is there and what may go wrong in this behaviour.
The operators marked `Fault` are plausible defects of the operator they stand before; no
specification uses them, they exist to show that each property can fail.

## 3. The runs

| run | question | properties | answer |
|---|---|---|---|
| `session_lifecycle` | Can a task escape pause, error, stop and abandonment, a failing resource keep others alive, a shutdown hang? | `TasksAccounted`, `ResourcesFollowSession`, `StopsEnd` | no |
| `runtime_revisions` | Do rows, memory and session agree across every interleaving of transactions, crashes and retries? | `RevisionsSound`, `DurableBeforeVisible`, `PastStaysPast` | yes |
| `audience_fence` | Does a stale result pass, do two results share a sequence, does a gone viewer return, can the Room tell that check and write are two steps, or hear a viewer silenced after it was asked? | `OneTokenOneResult`, `EffectsAreFenced`, `IdentityNeverReturns`, `ResultsAreAtomic` (refinement) | no |
| `reaction_scheduler` | Is every automatic observation settled, does superseded work keep quiet, is nothing left behind? | `EntrySound`, `SupersededHasNoResult`, `AutomaticObservationsSettle` | yes |
| `provider_generations` | Is a provider closed exactly when nobody uses it, and always has the session one? | `ClientsFollowUse`, `RetiredGenerationsClose` | yes |
| `claim_deadlock` | Does the stop get through while a sequence is being claimed? | `StopEnds` | **no** |
| `viewer_dispatch` | Are slots exact, reports true, cancelled viewers silent, and is everybody answered? | `LanesKept`, `ReportMatchesRoom`, `QuietAfterCancel`, `EverythingSettles` | yes |
| `model_calls` | Are leases, lane slots and budgets exact, does each viewer of a batch get its true verdict, does a batch run on beside newer waves and stop once it was ended, does the log agree after a crash? | `HoldersAreCounted`, `EveryViewerAccounted`, `OvertakenRunsOn`, `LogAgrees`, `EverythingReturns` | yes |
| `wave_coordinator` | Do frames outlast those who look at them and no longer, are ambient waves bounded outside WINDOW_BATCH, is each wave given the right events, pictures and viewers, do drains end? | `WavesKept`, `PreparedSoundly`, `DrainsEnd` | yes |
| `shared_brain` | Do the stores agree, is a request applied to what its author saw, do deletions and decisions last? | `StoresConsistent`, `HeadNamesContents`, `AppliesToWhatWasSeen`, `PeopleDecide` | yes |
| `realtime_intake` | Is every input taken in order, and once while it is remembered, whatever is lost, resent, forgotten or crashes; does no source stay blocked, no trigger get lost, the view follow the status? | `InputsTakenOnce` (refinement), `IntakeConsistent`, `TriggersKept`, `NeverGoesBack`, `CatchesUp` | yes |
| `voice_turns` | Does what the host said reach the audience once, in its own turn? | `TurnsKept`, `TurnHeardOnce`, `HostIsHeard` | yes |

Several properties are conjunctions of named parts (`StopsEnd` of three liveness properties,
`ClientsFollowUse` of four invariants, `TurnsKept` of four, and so on); the parts are defined and
explained beside them.  Type correctness is a part of one of them, or, where it says more than types
(`TypeOK` of AudienceFence), a property of its own.

One run ends in a violation, of a sentence of the documentation quoted with the finding in
`PROJECT.json`: `_claim_item_sequence_to_completion` waits for the effect lock inside the runtime
lock, and the commits wait the other way round; with one claim and two commits nobody moves again,
and the stop of the session waits with them.

## 4. Bounds

Every bound is a constant; most are named in a guard.

| module | bound | why it is enough |
|---|---|---|
| SessionLifecycle | 2 sessions, 2 tasks, 2 resources | a second session is what old tasks could leak into; two resources give a first to roll back and a last to fail |
| RuntimeRevisions | 4 revisions, 2 apply ids, 2 configurations, population to 3 | start, two updates and a recovery; a retry against a different client |
| AudienceFence | 1 caller, 1 viewer at first and 2 at most, 2 items, epochs and populations to 2 and 4, Mode sizes 1 and 2 | shrinking and growing, replacement up to the creation limit, two results of one viewer; a viewer that leaves and returns between question and answer |
| ReactionScheduler | 3 observations, 2 pending | one running, one pending and a third that merges, replaces or is refused |
| ProviderGeneration | 4 generations, 2 requests, 2 sessions | a lease on each side of a swap, a rollback and a failed candidate |
| LockOrder | a claim, 2 commits and the stop | the shortest cycle needs a claim and two commits |
| ViewerDispatch | 3 requests, 2 viewers, 1 slot, 1 place, 2 lines, 1 session | a request in the slot, one queued, one of the same viewer waiting in its mailbox; a batch interrupted half way |
| VoiceTurns | 2 segments of each source, or 3 of the microphone alone; 1 turn waiting for system audio, 2 attempts, 1 repeated final | three rounds: one starts the cooldown, one is held back by it, one comes after; every final may fail in each way |
| ModelCalls, BatchDispatch | 3 calls, 1 or 2 leases, a backoff of 1 or 2 ticks, 2 log records of 2 lines each, 2 viewers, 1 lane slot and 1 place | a holder, a waiter and a third behind it; a batch in the slot, one queued, one refused; the log evicts and rewrites |
| WaveCoordinator | 3 waves, 2 frames in a store of 1, 1 consecutive ambient wave, 1 hot update, from a runtime of window batches to one of the other modes; observations of 4 events (3 read, 2 per category, 2 barrages), 4 pictures (2 shown), 3 viewers (2, 1 and 1 asked) | two waves at once and one after; a frame that must be evicted while another is looked at; each limit full with one too many |
| RoomMemory | 1 candidate, 1 replacement, 2 users with 3 requests, 2 deliveries, 2 events | a request that saw a row another replaced, while a third removes the replacement; the candidate can be delivered again after its memory was deleted |
| ModeMemes | 1 proposal, 1 import, 2 owners, 5 orders | every order of the page after a decision, with another owner and the maintenance between its reads and its write |
| RealtimeIntake | 3 inputs, 2 connections, 2 ledger entries, 2 queued statuses of 3 | the first input is forgotten while it may still be repeated, and is repeated; the old handler serves beside the new one; the queue drops its oldest entry |

`CHECK_DEADLOCK FALSE` stands where the system really ends (a session that stopped, requests that were
all answered, an application that shut down) or where a bound of the model is reached.  The desktop of
RealtimeIntake may repeat a frame or an audio segment whenever its answer is late, also one that the
ledger of 2 has forgotten meanwhile (that of the code holds 1024), and the run contains behaviours in
which such an input is taken a second time.  The largest runs are `model_calls` (542,799 distinct
states), `realtime_intake` (485,841) and `wave_coordinator` (396,630), of two to three minutes each with
two workers.

## 5. Fairness

The event loop runs every ready task and every armed timer fires: weak fairness of the steps the backend
itself takes.  Provider calls end because they have timeouts.  Nothing forces the client, the user, the
audience service's callers or the provider's failures to act, nothing forces a resource to succeed, and
no strong fairness is used.  In VoiceTurns and ViewerDispatch one weak fairness of all backend steps
together is enough, since without new input only finitely many are left.  In BatchDispatch time passes
and every call and batch takes its steps; the server is free in what it answers, but each request has a
timeout, so it answers or fails.  WaveCoordinator is fair to the timeouts of a drain and not to the
extraction that is waited for.  In RealtimeIntake the subscription, the welcome, the forwarding and the
reception of statuses are fair, as long as the connection stands; its other properties are safety and
need none.  `LockOrder` is fair to each task's step once its lock was granted, and to the stop, which
the user asks for.

## 6. Proofs

Every component but the two locks of LockOrder is proved with TLAPS, for every value of the constants
that satisfies the named assumptions; time and fairness do not enter.  Every invariant and every action
property of the passing runs is a theorem, and so are the two refinements; the runs show them on small
instances.  Each proof strengthens what it proves to an inductive invariant, which TLC checked before
it was proved, and draws the properties of the run from it.

* `SessionProvider_proofs`, sessions: type correctness, that a registered task always belongs to the
  RUNNING session and that no uncancelled task is missing from the books (`TasksAccountedFor`), and
  that the resources follow the session (`ResourcesFollow`).  The invariant `TaskInv`
  adds that a stop in progress means STOPPING, a launch means IDLE, and that a task once detached is
  never registered again; without the last, cancelling a detached set could hit a registered task.
  `ResInv` says how far a launch or a stop has come: `at` separates the resources that are on from
  those that are not, so that the last start finds all on and the last stop leaves all off.
* `RuntimeRevisions_proofs`: the rows are sound (`RowsAreSound`), nothing is visible that is not
  durable (`DurabilityPrecedesVisibility`), and an epoch that is past is never accepted again
  (`ThePastStaysPast`), through any number of crashes, retries and recoveries.  `PendingIsNext` says
  that at most one row is pending, newer than the committed one and based on it, `OpInv` that what it has
  read of the record is still so (it holds the lock of the runtime; audience updates, which do not
  take it, need a runtime in memory), and `MemoryInv` that a runtime belongs to a running process and
  that an unfinished session without one has committed nothing yet.
* `AudienceFence_proofs`: type correctness (`TypeCorrect`); every effect passes a fence that accepts it
  when it is written (`EffectsFenced`); sequences are unique (`TokensUnique`); gone viewers stay gone
  (`GoneForGood`).  The hard part is uniqueness: leaving a session deletes the fence's claims, so the
  invariant says that every token ever claimed in this epoch lies at or below the counter
  `ViewerRuntime` remembers (`TokensSeen`); `EffectHeld` says that whoever holds the effect lock is
  still acceptable.  `LivesInv` says that nothing that is in flight (an update, a caller's plan, the end
  of the session) names a viewer or an ordinal that has meanwhile been given away.  `FenceIsAtomic` is
  the refinement of AtomicFence.  It needs that a question is never newer than its viewer and that a
  viewer that looks as it was asked is not muted (`QuestionInv`), that a hot update which is still
  current has a true copy of everybody (`SnapshotInv`), and that who was never created has no revisions
  yet (`BlankInv`).  Each step is shown to move nobody, one viewer, or all in a hot update, and every
  move lets revisions grow (`Goes`); the append is one step of AtomicFence because `EffectHeld` carries
  what the fence found to the end of the write.
* `ReactionDispatch_proofs`, the scheduler: an idle session keeps no entry (`EntriesAreSound`) and a superseded
  reaction never has a result (`SupersededNeverCounts`).  The invariant separates the observations of
  what waits from those of what runs (`ItemInv`) and says that a beaten observation that is still
  open belongs to the running reaction and that the mark which keeps it from a result is still there
  (`BeatenInv`).
* `SessionProvider_proofs`, providers: a lease protects its generation, the running session always has a
  provider, nothing is forgotten, together `ClientsFollow`.  The strengthening counts: the number of
  leases recorded is the cardinality of the set of requests that hold one (`Counted`), a closed
  generation is retired and has no lease (`ClosedIsIdle`), and `Succession` ties the controller, the
  runtime state and the update in flight together.
* `WaveDispatch_proofs`, requests: the counters of every lane are the number of requests that hold a slot or
  a place, and a free slot is never kept from who waits (`LanesAreKept`); what a request is told
  agrees with the Room (`ReportsMatchTheRoom`); what was cancelled is quiet (`CancelledIsQuiet`).
  Cancellation is what makes it hard: several parties may strike the same request between two of its
  steps.  `PlaceInv` ties mailboxes to the session that runs, `OutputInv` says that a request
  passes the output at most once and that only a stop takes the worker away from a finished append,
  and `Undecided` that nothing is decided of a request that is still on its way.
* `WaveDispatch_proofs`, waves: frames outlast those who look at them, no longer, and ambient waves are
  bounded (`WavesAreKept`).  `WaveInv` says that a frame is retained as often as there are waves that
  look at it (`StoreInv`; the store may be over its limit only while every frame of it is looked at)
  and that at most one ambient wave is under way, which proposed more than was counted unless a hot
  update came meanwhile (`AmbientInv`).  `PreparedIsSound` says of every wave that it is prepared with
  sound contexts, threads, bundles, speakers and targets, whatever the number of events, frames and
  viewers and whatever the limits.  It rests on lemmas about the operators of WaveInputs: what the
  first and last n of a finite set are, that a set can be put in order, that a target survives merging,
  that a reply's thread is complete, and that after as many waves as there are viewers everybody was
  asked (`Rotates`).
* `ReactionDispatch_proofs`, batches and calls: `DispatchInv` says that all books agree (`BooksAgree`).
  In the gate those who wait, sleep and hold leases are exactly the calls at those stages (`Fits`), no
  call exceeds its rounds and its viewer's budget (`RoundsBounded`, `ViewersAfford`), the lane counts
  what the batches hold (`LaneInv`), and a batch's stage, its call and what is settled of its viewers
  go together (`StageInv`, `CallInv`, `AccountInv`: the call's round is the number of the batch's
  attempts, and every viewer claimed has a verdict or a line on its way when the batch returns).  From
  it follow `HoldersCountedAlways` and `ViewersAccountedAlways`.  `OvertakenRunsOnAlways` adds `WavesInv`:
  waves are started in their order, and the fence of a live session is at the newest, so that no admitted
  batch loses it (`CurrentWhileLive`); what supersedes one is the end of the session or its deadline.
* `ReactionDispatch_proofs`, the call log: memory, file and calls agree through crashes, evictions and
  rewrites (`LogAgreesAlways`).  `LogInv` says which statuses a record of each invocation of a call may
  have (`Tells`: at work, not a final one; ended, the outcome; lost in a crash, none or interrupted),
  that both the file and the memory hold only such records, and that reading the file now would give
  what memory holds (`InStep`).  The recursions over the statuses of one step and over the lines of a
  file are followed record by record.
* `VoiceTurns_proofs`: what the host said is written once, in its own turn (`VoiceTurnsKept`), and goes
  into one round (`VoiceTurnHeardOnce`), for any streams of audio.  `Fifo` says that the segments of a
  source stay in their order from the client to the recogniser, so that a final is credited to the
  audio it was made of; `Counted` that what was written is marked as seen or about to be; `Gathered`
  that a turn holds only its own finals, `Apart` that no two rounds share a turn, and `Spent` that
  what a round has taken cannot be gathered again.
* `SharedBrain_proofs`: both stores stay well formed (`StoresStayConsistent`), a memory head names
  one content (`OneContentPerHead`), a request meets what its author saw
  (`RequestsApplyToWhatWasSeen`), and what people decided lasts (`PeopleHaveTheLastWord`).  For
  memories the invariant relates each request in flight to the store as it has become: a row it saw
  has another content only under a later revision (`SeenRow`), the id it drew is still unused and
  nobody else's (`NamesOK`, `DrawnOnce`), and the candidate under the lock is not yet on record
  (`CommitInv`).  `Transaction` is the step every transaction takes, whatever it is for: the head
  moves by one, and each row is kept, revised, deleted or created.  For memes, what a decision read
  under the lock is still so (`DecisionInv`), and a listed meme with the revision it was listed
  with is still one the maintenance may archive (`OrderOK`).
* `RealtimeIntake_proofs`: the books agree (`BooksAgree`), triggers are kept (`TriggersAreKept`), and
  RealtimeIntake implements InputOnce (`IntakeImplementsOnce`).  `IInv` speaks of the message, the
  handler, the ledger and the Room of one input together.  `FlightInv` is about what is still on its
  way: an input sent once reaches the server as a stranger (`OnceInv`); frames and whole audio segments
  over a network are sent twice at most (`SentInv`); what was taken keeps older inputs of its kind out,
  by its entry, by the floor, or because all that is still to come is younger (`CoveredInv`).  What a
  handler may take is what was not taken before, or what a full ledger has forgotten, which then lies at
  or below the floor (`FirstTime`, `Anew`).  `WorkInv` says that receipts are true and that the entry of
  what a handler serves is its own and not evicted (`Kept`): without it, a second input could take the
  place of one whose handler still waits.  `RoomsInv` ties the line for the Room's lock to the handlers
  that stand in it and to the last row, `AckInv` makes every acknowledgement on its way true, and
  `TriggerInv` places each trigger; where inputs may be taken again it counts (`CountInv`: no more is
  observed than was taken), elsewhere each input has one place (`AccountsInv`).  The proof follows an
  input: `Starts` is what the beginning of a service does, `Ends` its end, `Onward` what every step
  leaves true of the messages in flight, so that each action is one instance of a few lemmas.  The
  refinement maps each step to one of InputOnce or to a stutter: a frame is asked for and taken when its
  service begins, a text is asked for then and taken when its row is written, an audio segment at its
  commit; a failed write gives up.  The ledger drops an entry only for a new one and only when it holds
  `Capacity` of them (`FullMemory`, `Admission`), which is the one way InputOnce has of forgetting.
  `TheViewNeverGoesBack` has an invariant of its own, `FeedInv`: of each connection the statuses in the
  queue are in order, none newer than the last that was put there, that one not newer than the
  backend's, and on the connection the desktop listens to none is older than its view; a queue that
  drops its oldest entry, and a second connection that is still fed, keep that.

Proving changed the models where they were wrong.  In RoomMemory two errors had been hidden by a
bound of two requests: a client could draw as a replacement's id one that another request had
drawn (the model assumes new ids; see below), and a request was required to find its rows as they were seen
although deleting the row that superseded one clears its `superseded_by` without a new revision
(ON DELETE SET NULL, `sqlite/models.py:454`).  Nothing the page shows or the request changes
depends on that column, so `AppliesToWhatWasSeen` now compares content (`SameContent`); the run has
three requests, where both show.  In AiCallLog the proof of `LogAgrees` asked which files a start can
read at all: one with a line that was torn and then written over fails, which `MayLoad` now says.

Assumptions, which TLC evaluates on every run:

* bounds and limits are natural numbers, positive where the code validates them so
  (`BoundsAssumption`, `LimitsAssumption`, `GateAssumption`, `SlotAssumption`, `LaneAssumption`,
  `LogAssumption`, `InputsAssumption` after `contracts/viewer_runtime.py:75-80` and
  `domain/observation_wave.py:38`, and so on); a budget or a number of replies may be 0;
* there are finitely many requests, calls and providers' users (`RequestsFinite`, `CallsFinite`);
  inputs, connections and calls are numbered in their order;
* ids of different origin differ, and `None` and its like differ from the values they stand beside
  (`NoneAssumption`, `NoneIsNoSegment`, `NoPolicyIsNoPolicy`);
* a scenario is well formed: it speaks of calls, viewers and inputs that exist (`ScenarioAssumption`,
  `ChosenAssumption`), and who writes to the Room of the intake is a connection or the viewer;
* the audio of a source is a sequence in which no segment occurs twice, a segment has one source, and
  in a turn there is one segment of each source, as `backend-client.ts` sends them
  (`StreamsAreSequences`, `SegmentsHaveOneSource`, `OneSegmentPerTurnAndSource`).

What a recursive definition computes is proved where a proof needs it, by the least number for which
it would fail: `Inductive` (in `WaveDispatch_proofs` and `ReactionDispatch_proofs`) follows from the
well-foundedness of the natural numbers, and from it what `Excluding` of ListEdits, a filter on
sequences, keeps, what rotating the audience leads to, what is gathered line by line, and what
replaying a log file gives.  The library's induction theorems are not used.

## 7. Only model-checked

The liveness properties `StopsEnd`, `AutomaticObservationsSettle`, `RetiredGenerationsClose`,
`EverythingSettles`, `EverythingReturns`, `DrainsEnd`, `HostIsHeard` and `CatchesUp`: fairness and ENABLED
are outside the reach of the prover used here.  LockOrder has a violation to show and nothing to prove.

## Disagreements

What the code does and a document, a comment or a reader does not expect, besides the violation
above.  No run shows them; the lines do.  Where a property makes an exception for one, it says so.

Sessions, revisions, audience:

* `apply` numbers its row `committed revision + 1`.  A row left rejected holds that number and only
  `recover` skips it, so every later `apply_id` collides with it until the next recovery
  (`application/runtime_session_service.py:325`; `src/docs/PRODUCT.md:149` promises hot updates).
* `apply` and `recover` look at the session before their long preparation and not after it: a
  commit after the stop began opens the stopped runtime again, under its new epoch, until the stop
  completes (`runtime_session_service.py:346`; `src/docs/BACKEND_DESIGN.md:183` wants results
  refused first).
* A viewer that leaves loses its claims in the fence but keeps its counter in `ViewerRuntime`; if it
  rejoins in the same epoch after a claim that was never committed, no further claim of it fits and
  it stays mute (`application/runtime_state.py:392`; `src/docs/PRODUCT.md:95`).
* `reconcile_population` keeps adding viewers it computed from an older Mode and overshoots after a
  hot update to a smaller one (`application/viewer_audience_service.py:300`; `src/docs/DECISIONS.md:287`
  promises an exact new population).
* A reconciliation or hot update in flight when the session stops leaves active viewers behind
  (`viewer_audience_service.py:89`; `src/docs/PRODUCT.md:302` says the list is empty).
* The command-id cache is read before an update and written after it: a retried mute or kick that
  overtakes the first attempt is carried out twice (`viewer_audience_service.py:705`).
* `_snapshot` reads record and runtime at two moments and reports a divergence when an audience
  update falls between them (`runtime_session_service.py:887`).
* A second cancellation interrupts `abandon_runtime_session` (`runtime_session_service.py:245`), and
  a cancellation between the durable commit and the swap leaves the two apart (`:395`); the models
  cancel neither.
* A hot update addressed to a session that stopped long ago retires the provider generation the
  running one uses, or binds a retired one again (`runtime_session_service.py:1033`).

Reactions, dispatch and model calls:

* `_run_preserved`, cancelled by `SessionService`, never resolves its completion
  (`reaction_scheduler.py:432` against the docstring at 135); this is why
  `AutomaticObservationsSettle` speaks of the other kinds only.
* Newer waves do not replace older waiting work: every wave up to the newest matches the fence, and
  advancing it cancels nothing (`viewer_runtime.py:2677-2687`, `1301-1313`), as
  `src/apps/backend/tests/test_viewer_reaction_retention.py:234` and `:264` want it;
  `src/docs/DECISIONS.md:300-305` (D-042) still says that a waiting batch is replaced by the newest and
  that new waves push the publication fence on.  `OvertakenRunsOn` states what the code does.
* A runtime that generates window batches has no bound on consecutive ambient waves, only the interval
  (`viewer_runtime_coordinator.py:905-910`; the timer of the intake sends a tick each time,
  `ingest_service.py:1314-1330`).  `AmbientBounded` speaks of the other modes.
* A screen trigger is refused beside an ambient tick, and a user observation does not supersede the
  running reaction (`reaction_scheduler.py:212`, `:157`; `src/docs/DECISIONS.md:300`).
* `stop_session` cancels the output worker while it waits for `_lock` after a finished append: the
  barrage is in the Room, its request is reported cancelled (`viewer_runtime.py:1724`).
* A window batch cancelled between the parts of two viewers traces "cancelled" for lines it has
  handed over and that are published later (`viewer_runtime.py:539-563`, `940-979`); a batch found
  superseded while it is built returns a summary in which no viewer is counted (`590-598`); one
  whose time runs out while it waits for its turn reads as superseded (`1037-1038`);
  `_commit_silence` swallows a cancellation (`1972`).
* A Retry-After is used as it is, also beyond `max_429_backoff_seconds`
  (`providers/model/provider_rate_gate.py:104`).
* A torn last line of the call log is skipped by the next start and not removed: the record appended
  to it is lost too, and one more start fails on the line, which is then not the last
  (`infrastructure/logging/ai_call_store.py:166-172`, `236-251`).  `LogAgrees` excepts torn lines.
* A wave with real input that ends after an ambient wave resets the count of ambient waves, and the
  ambient wave that began earlier and ends later stores its own; `AmbientBounded` (in `WavesKept`)
  counts from the last real wave that was counted, as the code does
  (`viewer_runtime_coordinator.py:448-454`; `src/docs/VIEWER_RUNTIME_REQUIREMENTS_LOG.md:100`).  A
  wave that ends after its session stopped leaves its policy behind.
* Trigger frames that fill the bundle leave every other selected frame in it, since `[-max(0, 0):]`
  is the whole list; `FrameBundle` then refuses the bundle and the reaction fails as one that could
  not be prepared (`viewer_runtime_coordinator.py:783-786`; `domain/observation_wave.py:77`, "frame
  count cannot exceed frame_bundle_size").  `BundlesSound` excepts this case.
* Of more triggers than `public_context_max_events` the oldest are read
  (`viewer_runtime_coordinator.py:1277-1279`).  A viewer who keeps silent keeps its place in the
  order, so viewers who never speak are asked again before others (`:535`,
  `viewer_audience_service.py:406`); `SpeakersSound` rotates those who do speak.

Ingest, Room and desktop:

* A rejection may come although the input was taken: the event is in the Room, scheduling its
  observation fails, and the client is told of the failure (`ingest_service.py:411-417`); a repetition
  is then acknowledged.
* An exact repetition is acknowledged only while the input is remembered.  Once evicted, a
  repetition whose timestamp equals the floor is taken again, and one below it is refused
  (`ingest_service.py:1878-1896`; `src/docs/INGEST_PROTOCOL.md:63` promises idempotence).  InputOnce
  grants exactly this: a second taking after a full memory has dropped the input, and in order.
* In protocol v3 an audio whose `received` answer came too late stays pending until its connection
  ends, and blocks its source so long.
* An append cancelled between its commit and the list in memory leaves the number to the next
  event, which the unique key then refuses (`room_service.py:109`).
* A window batch tick that the pause of the session refuses loses the delta it took out, and so does
  a cooldown flush (`ingest_service.py:1322`, `:1462`).
* `notify_voice_activity` cancels the only timer of a free voice turn.  If no further final with
  text follows, the sentences said so far start no round (`ingest_service.py:302`;
  `src/docs/AUDIENCE_SPEAKING_PRODUCT_SPEC.md:81` wants a round after 1.5 seconds of silence).
  The current desktop never sends it, the protocol allows it.
* The desktop gives each microphone segment a turn of its own, so sentences with short pauses start
  a round each, merged only by the cooldown (the same document, lines 81 and 223).
* A system half that fails for good or is too long ends the turn together with what the host said
  (`ingest_service.py:725`, `:1026`; decision D-041 in `src/docs/DECISIONS.md` lets a system
  failure degrade that channel only).  So does a commit of system audio that fails after it was
  registered (`:559-574`): its retry makes the turn anew, the host's final is then ignored
  (`source not in committed_sources`), and the turn stays for ever.  `HostIsHeard` makes exactly these
  exceptions.
* A late HTTP answer replaces the status without comparing revisions
  (`src/apps/desktop/src/main/backend/backend-client.ts:1143`), and barrage of a new epoch is dropped
  until the desktop knows the epoch (`:971-979`).  `NeverGoesBack` and `CatchesUp` speak of the socket alone.

Shared Brain:

* The memory page loads rows and head in two parallel requests
  (`src/apps/desktop/src/renderers/control/hooks/useSharedBrain.ts:42`): a reset may delete a memory that
  was never shown.  `read_slice` reads the two in two statements of no transaction
  (`memory_meme_adapters.py:92`).
* Approve, reject and undo pass the fence of the candidate's own epoch: a candidate pending from an
  earlier epoch can never be decided (`shared_brain_service.py:866`).
* Of a replacement's id `replace` asks only that no row has it (`memory_meme_adapters.py:344`).  The
  id of a deleted row may be used again; its revision is 1 again, and `expected_revision` no longer
  tells the two rows apart.  The models draw new ids.
* Edits and replacements do not ask for evidence beyond AI output; only extraction does
  (`memory_meme_adapters.py:202`, `:330`; `src/docs/BACKEND_DESIGN.md:370`).

## 8. What is not modelled

`PROJECT.json` lists every component with its reason.  Kept out for good: the content of prompts,
models and personas; HTTP translation; windows, dialogs and display; development scripts.  External
to the models: SQLite (a transaction is atomic and durable, a unique key refuses a second row), the
model and speech providers (they answer, fail or lose a segment), the user.

Abstractions worth knowing inside the modelled parts:

* abandoning a session is not itself cancelled; no runtime operation is cancelled between its
  durable commit and the swap in memory; the command-id cache of the audience service is left out;
* hot updates that open a second lane, the pace of per-Viewer requests, and a request that is enqueued
  after the stop because its dispatch waited for the lock (`viewer_runtime.py:1171-1250`: it finds no
  session and ends without asking the model);
* an exception of `_schedule_observation` after a turn or a delta was taken out
  (`ingest_service.py:1107`, `1147`, `1476-1483`): it comes only when the session has ended meanwhile,
  and the events are lost as they are when the session no longer accepts results;
* a writer of the Room cancelled between its durable commit and the list in memory
  (`room_service.py:110-113`; see Disagreements);
* `RuntimeConfigService` has no caller;
* model calls: closing of a provider in mid-call (ProviderGeneration keeps it open while it is leased),
  building and parsing of contents, the order in which waiters get memory slots or their turn;
* coordinator: fingerprints, traces and telemetry; `_compact_history` and `_commit_meme_candidate`
  have no caller; targets of transcripts are read in WaveInputs only, a wave of WaveCoordinator
  names any frames;
* Shared Brain: texts, expiry (nothing writes it), `record_use` (no caller);
* a crash of the process with a window batch at work;
* intake: one audio source, an unbounded Room buffer (as configured), no age limit, no digests (the
  desktop sends one content under one id), the streaming protocol v2, partial transcripts, voice
  targets, the queues of transcripts, barrage and viewer events, decoding of binary envelopes.

## 9. The plan

Done: sessions, revisions, the fence with the abstract one it implements, the scheduler, providers and
the two locks; dispatch in both modes with the model calls behind it; the coordinator; the Shared Brain;
the whole intake from the desktop to the Room, with the abstract specification of its protocol; and the
proofs of every safety property of these.

Next, most important first.

1. *Speech providers*: reconnection and the timeouts of a stop, beneath VoiceTurns.
2. *Desktop*: the child process of the backend, HTTP answers beside the socket, the media channels
   that VoiceTurns takes from `Streams`.
3. *Pure parts as operators over bounded inputs*: pool fitting, the barrage pipeline, viewer
   behaviour, overlay lanes.
4. *Abstract specifications* of the dispatch (a request is answered once, by what is in the Room) and of
   the Shared Brain (a transaction is one step of its author), in the manner of AtomicFence.
