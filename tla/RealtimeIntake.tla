--------------------------- MODULE RealtimeIntake ---------------------------
(***************************************************************************)
(* The realtime connection of api/ws/realtime.py with what stands behind   *)
(* it: the text, frame and audio inputs of IngestService, the room they    *)
(* are written to, and the session statuses the broker sends back.  The    *)
(* desktop's backend-client.ts is the other end: it resends a frame or an  *)
(* atomic audio segment once when no answer comes, and nothing after its   *)
(* connection was lost.                                                    *)
(*                                                                         *)
(* A connection serves its messages one after the other.  The handler of a *)
(* lost connection goes on until its message is served, beside the handler *)
(* of the next connection.  A step ends where the handler really waits: in *)
(* line for the room, for the database, for the ASR provider, and for the  *)
(* scheduler that takes the observation.                                   *)
(*                                                                         *)
(* The scenario fixes which inputs there are, the protocol version, and    *)
(* which part of the environment acts: "network" loses connections and     *)
(* answers, "process" ends the session or the process, "batch" has a mode  *)
(* that batches, "feed" has statuses.                                      *)
(***************************************************************************)
EXTENDS RoomLog, InputLedger

CONSTANTS
    Inputs,          \* numbers, in the order the desktop makes the inputs
    Conns,           \* connections, numbered by the order they are opened in
    Scenarios,       \* what may happen
    QueueCapacity,   \* RealtimeBroker.subscriber_capacity
    MaxStatus        \* bound on the statuses published

ASSUME ConnAssumption == Inputs \subseteq Nat \ {0} /\ Conns \subseteq Nat \ {0}

ASSUME ScenarioAssumption ==
    Scenarios \subseteq [topic : {"network", "process", "batch", "feed"}, version : Nat,
                         count : Nat, kind : [Inputs -> Kinds]]

ASSUME BoundAssumption ==
    Capacity \in Nat /\ QueueCapacity \in Nat \ {0} /\ MaxStatus \in Nat

VARIABLES
    scenario, \* [topic, version, count, kind]: count inputs are sent
    told,     \* what each input's submission came to, at the desktop
    tries,    \* how often it was sent
    half,     \* v3 audio whose body was received and whose commit was sent
    link,     \* the desktop's connection, None without one
    ready,    \* backend.ready was received on it
    view,     \* the status revision the desktop shows
    conn,     \* the connections, as their handlers see them
    ledger,
    session,
    status,   \* the revision of the session's status
    batch,    \* the window batch
    taken,    \* history: how often each input took effect
    heard,    \* history: observations submitted for each input
    lost      \* history: triggers discarded by a mode that no longer batches

vars == <<scenario, told, tries, half, link, ready, view, conn, ledger, session,
          status, batch, taken, heard, lost, roomVars>>

INSTANCE WindowBatch WITH Triggers <- Inputs

Viewer == 0

\* Who writes to the room, and what.
ASSUME RoomAssumption == Writers = Conns \cup {Viewer} /\ Events = Inputs \cup {Viewer}

ASSUME NoneAssumption == None \notin Nat

Topic == scenario.topic
Kind(i) == scenario.kind[i]
TwoPhase(i) == Kind(i) = "audio" /\ scenario.version = 3

NoJob == [input |-> 0, at |-> "idle"]
NoConn == [state |-> "none", inbox |-> <<>>, outbox |-> <<>>, job |-> NoJob,
           queue |-> <<>>, sent |-> 0]

Init ==
    /\ scenario \in Scenarios
    /\ told = [i \in Inputs |-> "unsent"]
    /\ tries = [i \in Inputs |-> 0]
    /\ half = {}
    /\ link = None /\ ready = FALSE /\ view = 0
    /\ conn = [c \in Conns |-> NoConn]
    /\ ledger = EmptyLedger
    /\ session = "running"
    /\ status = 0
    /\ batch = EmptyBatch(scenario.topic = "batch")
    /\ taken = [i \in Inputs |-> 0] /\ heard = [i \in Inputs |-> 0] /\ lost = {}
    /\ RoomInit

client == <<told, tries, half, link, ready, view>>
history == <<taken, heard, lost>>

-----------------------------------------------------------------------------
(* The desktop: connect, submitText, submitFrame, submitAudioSegment.      *)

\* The stage whose acknowledgement the desktop waits for.
Awaited(i) == IF Kind(i) = "audio" /\ (~TwoPhase(i) \/ i \in half)
                THEN "committed" ELSE "received"

Message(i) == [input |-> i, stage |-> Awaited(i)]

Post(c, m) == conn' = [conn EXCEPT ![c].inbox = Append(@, m)]

Dial ==
    /\ link = None
    /\ session # "down"
    /\ \E c \in Conns :
         /\ conn[c].state = "none"
         /\ \A d \in Conns : d < c => conn[d].state # "none"
         /\ link' = c
         /\ conn' = [conn EXCEPT ![c].state = "hello"]
    /\ ready' = FALSE
    /\ UNCHANGED <<scenario, told, tries, half, view, ledger, session, status, batch,
                   history, roomVars>>

\* The audio segments of a source wait for each other (audioQueues).
Submit(i) ==
    /\ i <= scenario.count
    /\ ready
    /\ told[i] = "unsent"
    /\ \A j \in Inputs : j < i => told[j] # "unsent"
    /\ Kind(i) = "audio" => \A j \in Inputs : Kind(j) = "audio" => told[j] # "waiting"
    /\ told' = [told EXCEPT ![i] = "waiting"]
    /\ tries' = [tries EXCEPT ![i] = 1]
    /\ Post(link, Message(i))
    /\ UNCHANGED <<scenario, half, link, ready, view, ledger, session, status, batch,
                   history, roomVars>>

\* INGEST_ACK_TIMEOUT_MS: one more attempt for a frame and an atomic audio.
AckTimeout(i) ==
    /\ Topic = "network"
    /\ told[i] = "waiting"
    /\ IF Kind(i) # "text" /\ ~TwoPhase(i) /\ tries[i] = 1
         THEN /\ tries' = [tries EXCEPT ![i] = 2]
              /\ Post(link, Message(i))
              /\ UNCHANGED told
         ELSE /\ told' = [told EXCEPT ![i] = "timeout"]
              /\ UNCHANGED <<tries, conn>>
    /\ UNCHANGED <<scenario, half, link, ready, view, ledger, session, status, batch,
                   history, roomVars>>

\* resolveIngest and rejectIngest, and the commit message of protocol v3.
HearAnswer(m, rest) ==
    LET i == m.input IN
    IF told[i] # "waiting" \/ (m.type = "ack" /\ m.stage # Awaited(i))
      THEN /\ conn' = [conn EXCEPT ![link].outbox = rest]
           /\ UNCHANGED <<told, half>>
    ELSE IF m.type = "ack" /\ TwoPhase(i) /\ i \notin half
      THEN /\ half' = half \cup {i}
           /\ conn' = [conn EXCEPT ![link].outbox = rest,
                           ![link].inbox = Append(@, [input |-> i, stage |-> "committed"])]
           /\ UNCHANGED told
    ELSE /\ told' = [told EXCEPT ![i] = IF m.type = "ack" THEN "acked" ELSE "refused"]
         /\ conn' = [conn EXCEPT ![link].outbox = rest]
         /\ UNCHANGED half

\* backend.ready and session.status: applySession.
HearStatus(m, rest) ==
    /\ ready' = TRUE
    /\ view' = m.revision
    /\ conn' = [conn EXCEPT ![link].outbox = rest]

Receive ==
    /\ link # None
    /\ conn[link].outbox # <<>>
    /\ LET m == Head(conn[link].outbox)
           rest == Tail(conn[link].outbox)
       IN  IF m.type = "status"
             THEN HearStatus(m, rest) /\ UNCHANGED <<told, half>>
             ELSE HearAnswer(m, rest) /\ UNCHANGED <<ready, view>>
    /\ UNCHANGED <<scenario, tries, link, ledger, session, status, batch, history,
                   roomVars>>

Unanswered(t) == [i \in Inputs |-> IF t[i] = "waiting" THEN "closed" ELSE t[i]]

\* The connection is lost, with what was under way in both directions.
Drop ==
    /\ Topic \in {"network", "feed"}
    /\ link # None
    /\ \E k \in 0..Len(conn[link].inbox) :
         conn' = [conn EXCEPT ![link].state = "closing", ![link].outbox = <<>>,
                              ![link].inbox = SubSeq(@, 1, k)]
    /\ told' = Unanswered(told)
    /\ link' = None
    /\ ready' = FALSE
    /\ UNCHANGED <<scenario, tries, half, view, ledger, session, status, batch,
                   history, roomVars>>

-----------------------------------------------------------------------------
(* The handler of a connection.                                            *)

\* The client.hello is accepted, and the connection subscribes.
Subscribe(c) ==
    /\ conn[c].state = "hello"
    /\ conn' = [conn EXCEPT ![c].state = "subscribed"]
    /\ UNCHANGED <<scenario, client, ledger, session, status, batch, history, roomVars>>

\* Only then the status is read, and sent with backend.ready.
Welcome(c) ==
    /\ conn[c].state = "subscribed"
    /\ conn' = [conn EXCEPT ![c].state = "open", ![c].sent = status,
                   ![c].outbox = Append(@, [type |-> "status", revision |-> status])]
    /\ UNCHANGED <<scenario, client, ledger, session, status, batch, history, roomVars>>

Ack(m) == [type |-> "ack", input |-> m.input, stage |-> m.stage]
Rejected(m) == [type |-> "rejected", input |-> m.input, stage |-> m.stage]

\* The handler turns to job, and sends what it has to say while it can.
Turn(c, job) == conn' = [conn EXCEPT ![c].job = job]
Answer(c, m) ==
    conn' = [conn EXCEPT ![c].job = NoJob,
                 ![c].outbox = IF conn[c].state = "open" THEN Append(@, m) ELSE @]

\* The message whose service begins; it leaves the inbox with its answer or
\* when the handler takes it up.
Incoming(c) == Head(conn[c].inbox)
AtHand(c) ==
    conn[c].state \in {"open", "closing"} /\ conn[c].inbox # <<>> /\ conn[c].job = NoJob
AnswerNow(c, m) ==
    conn' = [conn EXCEPT ![c].inbox = Tail(@),
                 ![c].outbox = IF conn[c].state = "open" THEN Append(@, m) ELSE @]
TakeUp(c, at) ==
    conn' = [conn EXCEPT ![c].inbox = Tail(@), ![c].job = [input |-> Incoming(c).input, at |-> at]]

CommitOnly(m) == TwoPhase(m.input) /\ m.stage = "committed"

Accepting == session = "running"

\* A resent input that was accepted gets its receipt again.
ServeAgain(c) ==
    LET m == Incoming(c) IN
    /\ AtHand(c)
    /\ Accepting
    /\ HasReceipt(ledger, m.input, m.stage)
    /\ ledger' = IF CommitOnly(m) THEN ledger ELSE Touch(ledger, m.input)
    /\ AnswerNow(c, Ack(m))
    /\ UNCHANGED <<scenario, client, session, status, batch, history, roomVars>>

Refusable(c, m) ==
    \/ ~Accepting
    \/ /\ ~HasReceipt(ledger, m.input, m.stage)
       /\ IF CommitOnly(m)
            THEN ledger.pending # m.input \/ ~SentOver(ledger, m.input, c)
            ELSE \/ OutOfOrder(ledger, m.input, Kind(m.input))
                 \/ Reserve(ledger, m.input, Kind(m.input), c) = None

ServeRefused(c) ==
    LET m == Incoming(c) IN
    /\ AtHand(c)
    /\ Refusable(c, m)
    /\ AnswerNow(c, Rejected(m))
    /\ UNCHANGED <<scenario, client, ledger, session, status, batch, history, roomVars>>

Fresh(c, m) ==
    /\ AtHand(c)
    /\ ~Refusable(c, m)
    /\ ~HasReceipt(ledger, m.input, m.stage)

\* submit_text asks for the room's lock.
ServeText(c) ==
    LET m == Incoming(c) IN
    /\ AtHand(c)
    /\ Kind(m.input) = "text"
    /\ Fresh(c, m)
    /\ ledger' = Reserve(ledger, m.input, "text", c)
    /\ Queue(c, m.input)
    /\ TakeUp(c, "line")
    /\ UNCHANGED <<scenario, client, session, status, batch, history,
                   rows, active, events, next>>

\* submit_frame: the frame store and the context builder only work in memory.
ServeFrame(c) ==
    LET m == Incoming(c) IN
    /\ AtHand(c)
    /\ Kind(m.input) = "frame"
    /\ Fresh(c, m)
    /\ ledger' = Reserve(ledger, m.input, "frame", c)
    /\ taken' = [taken EXCEPT ![m.input] = @ + 1]
    /\ TakeUp(c, "observe")
    /\ UNCHANGED <<scenario, client, session, status, batch, heard, lost, roomVars>>

\* submit_audio and submit_audio_and_commit reserve the source.
ServeAudio(c) ==
    LET m == Incoming(c) IN
    /\ AtHand(c)
    /\ Kind(m.input) = "audio"
    /\ ~CommitOnly(m)
    /\ Fresh(c, m)
    /\ ledger' = Reserve(ledger, m.input, "audio", c)
    /\ TakeUp(c, "push")
    /\ UNCHANGED <<scenario, client, session, status, batch, history, roomVars>>

\* commit_audio of protocol v3.
ServeCommit(c) ==
    LET m == Incoming(c) IN
    /\ AtHand(c)
    /\ CommitOnly(m)
    /\ Fresh(c, m)
    /\ TakeUp(c, "commit")
    /\ UNCHANGED <<scenario, client, ledger, session, status, batch, history, roomVars>>

Job(c, at) == conn[c].job.at = at
Input(c) == conn[c].job.input

\* The message the job answers.
Asked(c) ==
    LET i == Input(c) IN
    [input |-> i,
     stage |-> IF Kind(i) # "audio" \/ (TwoPhase(i) /\ Job(c, "push"))
                 THEN "received" ELSE "committed"]

\* The event of a text is written, while the runtime accepts results.
PersistText(c) ==
    /\ Job(c, "line")
    /\ session # "over"
    /\ Persist(c)
    /\ taken' = [taken EXCEPT ![Input(c)] = @ + 1]
    /\ UNCHANGED <<scenario, client, conn, ledger, session, status, batch, heard, lost>>

ShowText(c) ==
    /\ Job(c, "line")
    /\ Show(c)
    /\ Turn(c, [input |-> Input(c), at |-> "observe"])
    /\ UNCHANGED <<scenario, client, ledger, session, status, batch, history>>

\* The write failed, or the session is over: the input may be sent again.
TextFails(c) ==
    /\ Job(c, "line")
    /\ GiveUp(c)
    /\ ledger' = Forget(ledger, Input(c))
    /\ Answer(c, Rejected(Asked(c)))
    /\ UNCHANGED <<scenario, client, session, status, batch, history>>

Submitted(ids) == heard' = [i \in Inputs |-> IF i \in ids THEN heard[i] + 1 ELSE heard[i]]

\* _schedule_observation and _schedule_screen_change_if_cold: a frame may be
\* too like the last one to trigger anything.
Trigger(i) ==
    \/ (Kind(i) = "frame" \/ ~Accepting) /\ UNCHANGED <<batch, heard>>
    \/ Accepting /\ batch.on /\ batch' = Accumulate(batch, {i}) /\ UNCHANGED heard
    \/ Accepting /\ ~batch.on /\ Submitted({i}) /\ UNCHANGED batch

Observe(c) ==
    /\ Job(c, "observe")
    /\ Trigger(Input(c))
    /\ ledger' = Accept(ledger, Input(c), {"received"})
    /\ Answer(c, Ack(Asked(c)))
    /\ UNCHANGED <<scenario, client, session, status, taken, lost, roomVars>>

\* Fault: whatever fails, the input may be sent again.
ObserveFailsForgotten(c) ==
    /\ Job(c, "observe")
    /\ ledger' = Forget(ledger, Input(c))
    /\ Answer(c, Rejected(Asked(c)))
    /\ UNCHANGED <<scenario, client, session, status, batch, history, roomVars>>

\* The scheduler refuses: the input is rejected, although it was taken and
\* keeps its receipt.
ObserveFails(c) ==
    /\ Job(c, "observe")
    /\ ledger' = Accept(ledger, Input(c), {"received"})
    /\ Answer(c, Rejected(Asked(c)))
    /\ UNCHANGED <<scenario, client, session, status, batch, history, roomVars>>

\* The ASR provider takes the body; v3 stops here until the commit comes.
Push(c) ==
    /\ Job(c, "push")
    /\ IF TwoPhase(Input(c))
         THEN /\ ledger' = Accept(ledger, Input(c), {"received"})
              /\ Answer(c, Ack(Asked(c)))
         ELSE /\ Turn(c, [input |-> Input(c), at |-> "commit"])
              /\ UNCHANGED ledger
    /\ UNCHANGED <<scenario, client, session, status, batch, history, roomVars>>

\* The segment goes to recognition; the source is free again.
Commit(c) ==
    /\ Job(c, "commit")
    /\ taken' = [taken EXCEPT ![Input(c)] = @ + 1]
    /\ ledger' = Accept(Release(ledger, Input(c)), Input(c), {"committed"})
    /\ Answer(c, Ack(Asked(c)))
    /\ UNCHANGED <<scenario, client, session, status, batch, heard, lost, roomVars>>

\* The provider refuses the body or the commit: nothing is left of the input.
AudioFails(c) ==
    /\ Job(c, "push") \/ Job(c, "commit")
    /\ ledger' = Forget(Release(ledger, Input(c)), Input(c))
    /\ Answer(c, Rejected(Asked(c)))
    /\ UNCHANGED <<scenario, client, session, status, batch, history, roomVars>>

\* A lost connection is noticed when its messages are served.
Hangup(c) ==
    /\ conn[c].state = "closing"
    /\ conn[c].inbox = <<>> /\ conn[c].job = NoJob
    /\ ledger' = ClearConnection(ledger, c)
    /\ conn' = [conn EXCEPT ![c] = [NoConn EXCEPT !.state = "gone"]]
    /\ UNCHANGED <<scenario, client, session, status, batch, history, roomVars>>

-----------------------------------------------------------------------------
(* A viewer's line is written to the same room.                            *)

ViewerSpeaks ==
    /\ Topic = "process"
    /\ Accepting
    /\ ~InLine(Viewer)
    /\ \A p \in DOMAIN rows : rows[p].event # Viewer
    /\ Queue(Viewer, Viewer)
    /\ UNCHANGED <<scenario, client, conn, ledger, session, status, batch, history,
                   rows, active, events, next>>

ViewerWrites ==
    /\ Persist(Viewer) \/ Show(Viewer) \/ GiveUp(Viewer)
    /\ UNCHANGED <<scenario, client, conn, ledger, session, status, batch, history>>

-----------------------------------------------------------------------------
(* The statuses, RealtimeBroker and _forward_statuses.                     *)

\* Fault: a full queue refuses the new item.
PutIfRoom(q, x) == IF Len(q) = QueueCapacity THEN q ELSE Append(q, x)

\* _put_latest: a full queue loses its oldest item.
PutLatest(q, x) == Append(IF Len(q) = QueueCapacity THEN Tail(q) ELSE q, x)

PublishStatus ==
    /\ Topic = "feed"
    /\ status < MaxStatus
    /\ status' = status + 1
    /\ conn' = [c \in Conns |->
                  IF conn[c].state \in {"subscribed", "open", "closing"}
                    THEN [conn[c] EXCEPT !.queue = PutLatest(@, status')]
                    ELSE conn[c]]
    /\ UNCHANGED <<scenario, client, ledger, session, batch, history, roomVars>>

\* Fault: whatever was queued is forwarded.
AllIsNews(c, revision) == revision >= 0

IsNews(c, revision) == revision > conn[c].sent

ForwardStatus(c) ==
    /\ conn[c].state = "open"
    /\ conn[c].queue # <<>>
    /\ LET r == Head(conn[c].queue) IN
       conn' = IF IsNews(c, r)
                 THEN [conn EXCEPT ![c].queue = Tail(@), ![c].sent = r,
                           ![c].outbox = Append(@, [type |-> "status", revision |-> r])]
                 ELSE [conn EXCEPT ![c].queue = Tail(@)]
    /\ UNCHANGED <<scenario, client, ledger, session, status, batch, history, roomVars>>

-----------------------------------------------------------------------------
(* The window batch timer.                                                 *)

TakeTick ==
    /\ Accepting /\ batch.on /\ ~batch.ticking
    /\ batch' = TakeDelta(batch)
    /\ UNCHANGED <<scenario, client, conn, ledger, session, status, history, roomVars>>

\* _schedule_observation of the tick, unless the mode has changed meanwhile.
SubmitTick ==
    /\ batch.ticking
    /\ batch' = Ticked(batch)
    /\ IF Accepting /\ batch.on
         THEN Submitted(batch.tick) /\ UNCHANGED lost
         ELSE lost' = lost \cup batch.tick /\ UNCHANGED heard
    /\ UNCHANGED <<scenario, client, conn, ledger, session, status, taken, roomVars>>

TickFails ==
    /\ batch.ticking
    /\ batch' = IF session \in {"running", "stopping"} THEN RestoreDelta(batch)
                ELSE Ticked(batch)
    /\ UNCHANGED <<scenario, client, conn, ledger, session, status, history, roomVars>>

DiscardBatch ==
    /\ ~batch.on
    /\ batch.delta # {}
    /\ batch' = DiscardDelta(batch)
    /\ lost' = lost \cup batch.delta
    /\ UNCHANGED <<scenario, client, conn, ledger, session, status, taken, heard, roomVars>>

\* A hot update changes the mode.
SwitchMode ==
    /\ Topic = "batch"
    /\ Accepting
    /\ batch' = [batch EXCEPT !.on = ~@]
    /\ UNCHANGED <<scenario, client, conn, ledger, session, status, history, roomVars>>

-----------------------------------------------------------------------------
(* The session and the process.                                            *)

Phase(from, to) == session = from /\ session' = to

BeginStop ==
    /\ Topic = "process"
    /\ Phase("running", "stopping")
    /\ UNCHANGED <<scenario, client, conn, ledger, status, batch, history, roomVars>>

\* IngestService.stop_session forgets every input.
StopIngest ==
    /\ Phase("stopping", "closing")
    /\ ledger' = EmptyLedger
    /\ batch' = EmptyBatch(batch.on)
    /\ UNCHANGED <<scenario, client, conn, status, history, roomVars>>

EndRoom ==
    /\ Phase("closing", "over")
    /\ StopRoom
    /\ UNCHANGED <<scenario, client, conn, ledger, status, batch, history>>

Crash ==
    /\ Topic = "process"
    /\ Phase("running", "down")
    /\ CrashRoom
    /\ conn' = [c \in Conns |-> IF conn[c].state = "none" THEN conn[c]
                                ELSE [NoConn EXCEPT !.state = "gone"]]
    /\ told' = Unanswered(told)
    /\ link' = None /\ ready' = FALSE
    /\ ledger' = EmptyLedger
    /\ batch' = EmptyBatch(batch.on)
    /\ UNCHANGED <<scenario, tries, half, view, status, history>>

\* The interrupted session is recovered with the events of its room.
Recover ==
    /\ Phase("down", "running")
    /\ RestoreRoom
    /\ UNCHANGED <<scenario, client, conn, ledger, status, batch, history>>

-----------------------------------------------------------------------------
Handler(c) ==
    \/ Subscribe(c) \/ Welcome(c) \/ Hangup(c) \/ ForwardStatus(c)
    \/ ServeAgain(c) \/ ServeRefused(c)
    \/ ServeText(c) \/ ServeFrame(c) \/ ServeAudio(c) \/ ServeCommit(c)
    \/ PersistText(c) \/ ShowText(c) \/ TextFails(c)
    \/ Observe(c) \/ ObserveFails(c)
    \/ Push(c) \/ Commit(c) \/ AudioFails(c)

Timer == TakeTick \/ SubmitTick \/ TickFails \/ DiscardBatch

Desktop == Dial \/ Receive \/ \E i \in Inputs : Submit(i) \/ AckTimeout(i)

Environment ==
    \/ Drop \/ ViewerSpeaks \/ ViewerWrites \/ PublishStatus \/ SwitchMode
    \/ BeginStop \/ StopIngest \/ EndRoom \/ Crash \/ Recover

Next == Timer \/ Desktop \/ Environment \/ \E c \in Conns : Handler(c)

Spec == Init /\ [][Next]_vars

FairSpec ==
    /\ Spec
    /\ WF_vars(Receive)
    /\ \A c \in Conns : WF_vars(Subscribe(c)) /\ WF_vars(Welcome(c)) /\ WF_vars(ForwardStatus(c))

-----------------------------------------------------------------------------
(* Properties.                                                             *)

MessageRec == [input : Inputs, stage : Stages]
AnswerRec == [type : {"status"}, revision : 0..MaxStatus]
                 \cup [type : {"ack", "rejected"}, input : Inputs, stage : Stages]
JobRec == [input : Inputs \cup {0}, at : {"idle", "line", "observe", "push", "commit"}]
ConnRec ==
    [state : {"none", "hello", "subscribed", "open", "closing", "gone"},
     inbox : Seq(MessageRec), outbox : Seq(AnswerRec), job : JobRec,
     queue : Seq(0..MaxStatus), sent : 0..MaxStatus]
EntryRec ==
    [id : Inputs, kind : Kinds, conn : Conns, accepted : BOOLEAN, receipts : SUBSET Stages]
LedgerRec == [seen : Seq(EntryRec), floor : [Kinds -> Nat], pending : Inputs \cup {None}]

TypeOK ==
    /\ RoomTypeOK
    /\ scenario \in Scenarios
    /\ told \in [Inputs -> {"unsent", "waiting", "acked", "refused", "timeout", "closed"}]
    /\ tries \in [Inputs -> 0..2]
    /\ half \subseteq Inputs
    /\ link \in Conns \cup {None} /\ ready \in BOOLEAN /\ view \in 0..MaxStatus
    /\ conn \in [Conns -> ConnRec]
    /\ \A c \in Conns : Len(conn[c].queue) <= QueueCapacity
    /\ ledger \in LedgerRec /\ Len(ledger.seen) <= Capacity
    /\ session \in {"running", "stopping", "closing", "over", "down"}
    /\ status \in 0..MaxStatus
    /\ batch \in Batch
    /\ taken \in [Inputs -> Nat] /\ heard \in [Inputs -> Nat] /\ lost \subseteq Inputs

\* The inputs that the ledger remembers.  Where nothing is sent twice, that a
\* stop or a crash empties it is nothing to the desktop.
Known == {i \in Inputs : IF Topic = "network" THEN Tracked(ledger, i) ELSE tries[i] > 0}

\* Whatever is resent, lost, crashes or fails half way, the inputs of the
\* desktop are taken in order, an acknowledged input was taken, and none is
\* taken again while it is remembered, which ends for a taken one only when
\* the ledger is full: the receipts of IngestService (_reserve, _settle,
\* _remember_locked) with the retries of backend-client.ts implement InputOnce.
Once == INSTANCE InputOnce
            WITH kind <- scenario.kind,
                 known <- Known,
                 open <- {i \in Known : taken[i] = 0 \/ ledger.pending = i},
                 told <- [i \in Inputs |->
                            CASE told[i] \in {"unsent", "waiting"} -> "nothing"
                              [] told[i] = "acked" -> "acknowledged"
                              [] OTHER -> "failed"]
InputsTakenOnce == Once!Spec

\* An audio source is reserved only for a segment that some handler serves, or
\* that was received on a connection whose handler will clear it: no source
\* stays blocked (_pending_audio_ids, clear_connection).
PendingIsAttended ==
    ledger.pending # None =>
      \E c \in Conns :
        \/ conn[c].job.input = ledger.pending /\ conn[c].job # NoJob
        \/ /\ TwoPhase(ledger.pending)
           /\ SentOver(ledger, ledger.pending, c)
           /\ conn[c].state \in {"open", "closing"}

\* The books of the intake agree: Room and log, ledger and connections.
IntakeConsistent == TypeOK /\ RoomMatchesLog /\ PendingIsAttended

\* In a mode that batches, what triggered an observation is waiting for the
\* timer, taken by it, observed, or discarded by a change of mode: exactly one
\* of them, through failed ticks too (_run_window_batch_timer).
TriggersKept ==
    \A i \in Inputs :
      /\ heard[i] <= taken[i]
      /\ Cardinality({p \in {"delta", "tick", "heard", "lost"} :
                        \/ p = "delta" /\ i \in batch.delta
                        \/ p = "tick" /\ i \in batch.tick
                        \/ p = "heard" /\ heard[i] > 0
                        \/ p = "lost" /\ i \in lost}) <= 1
      /\ Topic = "batch" /\ told[i] = "acked" /\ Kind(i) = "text" =>
           i \in batch.delta \cup batch.tick \cup lost \/ heard[i] > 0

\* The desktop never shows an older status than it has shown, although the
\* statuses published between the subscription and backend.ready are queued
\* as well (_forward_statuses).
NeverGoesBack == [][Topic = "feed" => view' >= view]_vars

\* A connected desktop comes to show the latest status, however many were
\* dropped from its queue (_put_latest).
CatchesUp ==
    \A r \in 0..MaxStatus :
      (ready /\ status = r) ~> (view = r \/ status # r \/ ~ready)
=============================================================================
