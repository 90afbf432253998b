----------------------------- MODULE VoiceTurns -----------------------------
(***************************************************************************)
(* How the backend turns what the host says, and what the computer plays,  *)
(* into observations (IngestService).  Audio comes in segments of two      *)
(* sources, is committed to the speech recogniser and returns, later and   *)
(* in the order of its own source only, as a final transcript.  Segments   *)
(* that carry the same turn_id form a coordinated turn: one round of       *)
(* reactions for both sources, started by the microphone and waiting a     *)
(* bounded time for the system audio.  Microphone segments without a turn  *)
(* are gathered until the host has been silent long enough.  A cooldown    *)
(* merges what the rounds would trigger too fast.                          *)
(*                                                                         *)
(* IngestService._lock is never held across a suspension, so a critical    *)
(* section is one step; what lies between two of them is where tasks       *)
(* interleave.  Time is not counted: a timer that is armed may fire at any *)
(* moment, and the cooldown is over at some moment.  The session is        *)
(* followed from its start to its end, the window batch mode is off.       *)
(***************************************************************************)
EXTENDS Naturals, FiniteSets, Sequences, SequencesExt

CONSTANTS Mic, Sys,     \* the two values of AudioSource
          Streams,      \* what a client may send: [Sources -> sequences of segments]
          Turn,         \* Turn[segment]: its turn_id, or NoTurn
          NoTurn,
          Required,     \* turns whose microphone declares system_audio_required
          MaxAttempts,  \* max_final_transcript_attempts
          MaxResent,    \* bound on the finals the provider sends again
          None

Sources == {Mic, Sys}
From(src) == UNION {ToSet(stream[src]) : stream \in Streams}
Segments == From(Mic) \cup From(Sys)
Turns == {Turn[s] : s \in Segments} \ {NoTurn}
SourceOf(s) == IF s \in From(Mic) THEN Mic ELSE Sys

ASSUME SourcesDiffer == Mic # Sys

\* A segment is one piece of audio of one source: it is sent once.
ASSUME StreamsAreSequences ==
    \A stream \in Streams :
        /\ stream \in [Sources -> Seq(Segments)]
        /\ \A src \in Sources : IsInjective(stream[src])
ASSUME SegmentsHaveOneSource == From(Mic) \cap From(Sys) = {}
ASSUME OneSegmentPerTurnAndSource ==
    \A s, r \in Segments :
        Turn[s] = Turn[r] /\ Turn[s] # NoTurn /\ SourceOf(s) = SourceOf(r) => s = r
ASSUME NoneIsNoSegment == None \notin Segments
ASSUME BoundsAreNumbers == MaxAttempts \in Nat \ {0} /\ MaxResent \in Nat

VARIABLES
    session,    \* "running", "paused", "stopping", then "stopped"
    unsent,     \* [Sources -> segments the client has not submitted yet]
    asr,        \* [Sources -> segments in the recogniser, oldest first]
    pending,    \* [Sources -> _pending_final_audio]
    turns,      \* [Turns -> _coordinated_turns, None when absent]
    voice,      \* _voice_turns[microphone], None when absent
    consumer,   \* _consume_asr_results: the final it is working on
    seen,       \* _seen_utterances and _coordinated_utterance_keys
    resent,     \* segments whose final the provider has sent twice
    spoken,     \* [Segments -> Room Events made of it]
    delta,      \* _voice_cooldown_delta
    flush,      \* a _voice_cooldown_task is waiting for the end of the cooldown
    cooldown,   \* "never" triggered, "cooling" or "over"
    carriers,   \* rounds taken out of a turn and not submitted yet
    heard,      \* [Segments -> observations submitted with its event]
    dropped     \* events of rounds the code gave up

media == <<unsent, asr, resent>>
cooling == <<delta, flush, cooldown>>
vars == <<session, unsent, asr, pending, turns, voice, consumer, seen, resent,
          spoken, delta, flush, cooldown, carriers, heard, dropped>>

Idle == [at |-> "idle", seg |-> None, audio |-> None, attempt |-> 1]

TypeOK ==
    /\ session \in {"running", "paused", "stopping", "stopped"}
    /\ unsent \in [Sources -> Seq(Segments)]
    /\ asr \in [Sources -> Seq(Segments)]
    /\ pending \in [Sources -> Seq(Segments)]
    /\ \A t \in Turns :
         turns[t] # None =>
             /\ turns[t].committed \subseteq Sources
             /\ turns[t].completed \subseteq turns[t].committed
             /\ turns[t].events \subseteq Segments
             /\ turns[t].timer \in {"none", "expire", "finalize"}
    /\ voice # None => voice.events \subseteq Segments /\ voice.armed \in BOOLEAN
    /\ consumer.at \in {"idle", "append", "again", "finish", "trigger"}
    /\ consumer.attempt \in 1..MaxAttempts
    /\ seen \subseteq Segments /\ resent \subseteq Segments
    /\ spoken \in [Segments -> Nat] /\ heard \in [Segments -> Nat]
    /\ delta \subseteq Segments /\ dropped \subseteq Segments
    /\ flush \in BOOLEAN /\ cooldown \in {"never", "cooling", "over"}
    /\ \A c \in carriers :
         c.events \subseteq Segments /\ c.at \in {"decide", "submit"}

Init ==
    /\ session = "running"
    /\ unsent \in Streams
    /\ asr = [src \in Sources |-> <<>>]
    /\ pending = [src \in Sources |-> <<>>]
    /\ turns = [t \in Turns |-> None]
    /\ voice = None
    /\ consumer = Idle
    /\ seen = {} /\ resent = {}
    /\ spoken = [s \in Segments |-> 0] /\ heard = [s \in Segments |-> 0]
    /\ delta = {} /\ flush = FALSE /\ cooldown = "never"
    /\ carriers = {} /\ dropped = {}

Accepting == session = "running"     \* SessionService.accepts_results
Active == session # "stopped"        \* _active_session_id = session_id

----------------------------------------------------------------------------
(* Audio in.                                                               *)

NewTurn == [committed |-> {}, completed |-> {}, events |-> {}, timer |-> "none"]

\* submit_audio_and_commit: nothing in it suspends once the session was found
\* running, so reserving, pushing, registering and committing are one step.
RegisterCommittedAudio(s, src) ==
    /\ pending' = [pending EXCEPT ![src] = Append(@, s)]
    /\ IF Turn[s] = NoTurn
         THEN UNCHANGED turns
         ELSE LET t == Turn[s]
                  turn == IF turns[t] = None THEN NewTurn ELSE turns[t]
              IN turns' = [turns EXCEPT ![t] =
                             [turn EXCEPT !.committed = @ \cup {src}]]

SubmitAudio(src) ==
    /\ Accepting
    /\ unsent[src] # <<>>
    /\ LET s == Head(unsent[src]) IN
         /\ RegisterCommittedAudio(s, src)
         /\ asr' = [asr EXCEPT ![src] = Append(@, s)]
    /\ unsent' = [unsent EXCEPT ![src] = Tail(@)]
    /\ UNCHANGED <<session, voice, consumer, seen, resent, spoken, cooling,
                   carriers, heard, dropped>>

\* The turn is popped, its timers are cancelled; what it had gathered is lost to it.
DropTurn(t) ==
    IF t = NoTurn \/ turns[t] = None THEN UNCHANGED <<turns, dropped>>
    ELSE /\ turns' = [turns EXCEPT ![t] = None]
         /\ dropped' = dropped \cup turns[t].events

\* The recogniser refuses the commit of audio that is registered already:
\* _discard_committed_audio takes it back with its whole turn, and the client sends the
\* input again or gives it up.
CommitFails(src) ==
    /\ Accepting
    /\ unsent[src] # <<>>
    /\ DropTurn(Turn[Head(unsent[src])])
    /\ unsent' \in {unsent, [unsent EXCEPT ![src] = Tail(@)]}
    /\ UNCHANGED <<session, asr, resent, pending, voice, consumer, seen, spoken,
                   cooling, carriers, heard>>

\* notify_voice_activity: the host goes on speaking, the end of the turn is
\* called off.
NotifyVoiceActivity ==
    /\ Active
    /\ voice # None /\ voice.armed
    /\ voice' = [voice EXCEPT !.armed = FALSE]
    /\ UNCHANGED <<session, media, pending, turns, consumer, seen, spoken, cooling,
                   carriers, heard, dropped>>

----------------------------------------------------------------------------
(* Transcripts out.                                                        *)

\* Fault: every final is credited to the oldest audio of its source.
OldestAudio(s, src) == IF pending[src] = <<>> THEN None ELSE Head(pending[src])

\* _committed_audio_for_segment_locked: the audio a final was made of, by its
\* times; failing that the oldest one.
CommittedAudioFor(s, src) ==
    CASE s \in ToSet(pending[src]) -> s
      [] s \notin ToSet(pending[src]) /\ pending[src] # <<>> -> Head(pending[src])
      [] OTHER -> None

\* What is left of a queue without the audio and everything older.
After(queue, audio) ==
    IF audio \in ToSet(queue)
      THEN SubSeq(queue, SelectInSeq(queue, LAMBDA x : x = audio) + 1, Len(queue))
      ELSE queue

\* _consume_committed_audio_locked: the audio and everything older leaves.
ConsumeAudio(src, audio) == pending' = [pending EXCEPT ![src] = After(@, audio)]

\* _coordinated_turn_ready.
TurnReady(t, turn) ==
    /\ Mic \in turn.completed
    /\ t \in Required => Sys \in turn.completed

\* _complete_coordinated_turn_locked and _discard_coordinated_turn_locked: what
\* becomes of turn t when the final of one of its sources is done.  A final the
\* room cannot use, or an empty microphone, ends the turn without a round.
CompleteTurn(t, src, events, valid) ==
    LET turn == turns[t]
        done == [turn EXCEPT !.completed = @ \cup {src}, !.events = @ \cup events]
        discarded == ~valid \/ (src = Mic /\ events = {})
    IN IF turn = None THEN None
       ELSE IF src \notin turn.committed THEN turn
       ELSE IF discarded THEN None
       ELSE IF TurnReady(t, done) THEN [done EXCEPT !.timer = "finalize"]
       ELSE IF src = Mic /\ turn.timer = "none" THEN [done EXCEPT !.timer = "expire"]
       ELSE done

\* _queue_voice_turn: the sentences join those that wait for the host to fall silent, and
\* the wait begins anew.
QueueVoice(events) ==
    voice' = [events |-> events \cup (IF voice = None THEN {} ELSE voice.events),
              armed |-> TRUE]

\* _finish_final_transcript and, outside turns, _queue_voice_turn.
FinishFinal(s, audio, events, valid) ==
    LET src == SourceOf(s)
        t == IF audio = None THEN NoTurn ELSE Turn[audio]
        inTurn == t # NoTurn
        after == CompleteTurn(t, src, events, valid)
        toVoice == ~inTurn /\ src = Mic /\ events # {} /\ Active
    IN /\ ConsumeAudio(src, audio)
       /\ seen' = seen \cup {s}
       /\ turns' = IF inTurn THEN [turns EXCEPT ![t] = after] ELSE turns
       /\ dropped' = IF inTurn /\ after = None
                       THEN dropped \cup events \cup
                            (IF turns[t] = None THEN {} ELSE turns[t].events)
                     ELSE IF inTurn THEN dropped \cup (events \ after.events)
                       ELSE dropped
       /\ IF toVoice THEN QueueVoice(events) ELSE UNCHANGED voice
       /\ consumer' = IF ~inTurn /\ src = Sys /\ events # {}
                        THEN [consumer EXCEPT !.at = "trigger"]
                        ELSE Idle

\* The recogniser gives up on a segment; nobody takes its audio back.
TranscriptionFails(src) ==
    /\ Active
    /\ asr[src] # <<>>
    /\ asr' = [asr EXCEPT ![src] = Tail(@)]
    /\ UNCHANGED <<session, unsent, resent, pending, turns, voice, consumer, seen,
                   spoken, cooling, carriers, heard, dropped>>

\* "Providers may resend a final segment".
ResendFinal(s) ==
    /\ s \in seen \ resent
    /\ Cardinality(resent) < MaxResent
    /\ resent' = resent \cup {s}
    /\ asr' = [asr EXCEPT ![SourceOf(s)] = Append(@, s)]
    /\ UNCHANGED <<session, unsent, pending, turns, voice, consumer, seen, spoken,
                   cooling, carriers, heard, dropped>>

TakeFinal(src) ==
    /\ Active
    /\ consumer.at = "idle"
    /\ asr[src] # <<>>
    /\ asr' = [asr EXCEPT ![src] = Tail(@)]

\* _handle_transcript turns a final away: the session does not accept results,
\* or this utterance was handled before.
IgnoreFinal(src) ==
    /\ TakeFinal(src)
    /\ ~Accepting \/ Head(asr[src]) \in seen
    /\ UNCHANGED <<session, unsent, resent, pending, turns, voice, consumer, seen,
                   spoken, cooling, carriers, heard, dropped>>

\* A final without text, or with more than the room takes (not valid).
BlankFinal(src, valid) ==
    /\ TakeFinal(src)
    /\ Accepting /\ Head(asr[src]) \notin seen
    /\ LET s == Head(asr[src]) IN
         FinishFinal(s, CommittedAudioFor(s, src), {}, valid)
    /\ UNCHANGED <<session, unsent, resent, spoken, cooling, carriers, heard>>

\* A final with text: next comes append_event, which suspends.
TextFinal(src) ==
    /\ TakeFinal(src)
    /\ Accepting /\ Head(asr[src]) \notin seen
    /\ LET s == Head(asr[src]) IN
         consumer' = [at |-> "append", seg |-> s,
                      audio |-> CommittedAudioFor(s, src), attempt |-> 1]
    /\ UNCHANGED <<session, unsent, resent, pending, turns, voice, seen, spoken,
                   cooling, carriers, heard, dropped>>

AppendEvent ==
    /\ consumer.at = "append"
    /\ spoken' = [spoken EXCEPT ![consumer.seg] = @ + 1]
    /\ consumer' = [consumer EXCEPT !.at = "finish"]
    /\ UNCHANGED <<session, media, pending, turns, voice, seen, cooling, carriers,
                   heard, dropped>>

FinishTranscript ==
    /\ consumer.at = "finish"
    /\ FinishFinal(consumer.seg, consumer.audio, {consumer.seg}, TRUE)
    /\ UNCHANGED <<session, media, spoken, cooling, carriers, heard>>

\* append_event raised: _consume_transcript waits and starts over.
AppendFails ==
    /\ consumer.at = "append"
    /\ consumer.attempt < MaxAttempts
    /\ consumer' = [consumer EXCEPT !.at = "again", !.attempt = @ + 1]
    /\ UNCHANGED <<session, media, pending, turns, voice, seen, spoken, cooling,
                   carriers, heard, dropped>>

RetryFinal ==
    /\ consumer.at = "again"
    /\ consumer' = IF Accepting
                     THEN [consumer EXCEPT !.at = "append",
                             !.audio = CommittedAudioFor(consumer.seg,
                                                         SourceOf(consumer.seg))]
                     ELSE Idle
    /\ UNCHANGED <<session, media, pending, turns, voice, seen, spoken, cooling,
                   carriers, heard, dropped>>

\* _discard_failed_final, after the last attempt: the turn goes with the final.
DiscardFailedFinal ==
    /\ consumer.at = "append"
    /\ consumer.attempt = MaxAttempts
    /\ LET src == SourceOf(consumer.seg)
           audio == CommittedAudioFor(consumer.seg, src)
       IN /\ ConsumeAudio(src, audio)
          /\ DropTurn(IF audio = None THEN NoTurn ELSE Turn[audio])
    /\ consumer' = Idle
    /\ UNCHANGED <<session, media, voice, seen, spoken, cooling, carriers, heard>>

\* Independent system audio starts its round at once, in the consumer itself.
TriggerSystemAudio ==
    /\ consumer.at = "trigger"
    /\ IF Accepting
         THEN /\ heard' = [heard EXCEPT ![consumer.seg] = @ + 1]
              /\ UNCHANGED dropped
         ELSE /\ dropped' = dropped \cup {consumer.seg}
              /\ UNCHANGED heard
    /\ consumer' = Idle
    /\ UNCHANGED <<session, media, pending, turns, voice, seen, spoken, cooling,
                   carriers>>

----------------------------------------------------------------------------
(* The rounds.                                                             *)

\* Fault: the degraded round starts but its turn stays.
ExpireTurnKept(t) ==
    /\ Active
    /\ turns[t] # None /\ turns[t].timer = "expire"
    /\ turns' = [turns EXCEPT ![t].timer = "none"]
    /\ carriers' = carriers \cup {[events |-> turns[t].events, at |-> "decide"]}
    /\ UNCHANGED <<session, media, pending, voice, consumer, seen, spoken, cooling,
                   heard, dropped>>

\* _expire_coordinated_turn: the required system audio did not come in time.
ExpireTurn(t) ==
    /\ Active
    /\ turns[t] # None /\ turns[t].timer = "expire"
    /\ Mic \in turns[t].completed
    /\ turns' = [turns EXCEPT ![t] = None]
    /\ carriers' = carriers \cup {[events |-> turns[t].events, at |-> "decide"]}
    /\ UNCHANGED <<session, media, pending, voice, consumer, seen, spoken, cooling,
                   heard, dropped>>

\* _finalize_coordinated_turn.
FinalizeTurn(t) ==
    /\ Active
    /\ turns[t] # None /\ turns[t].timer = "finalize"
    /\ turns' = [turns EXCEPT ![t] = None]
    /\ carriers' = carriers \cup {[events |-> turns[t].events, at |-> "decide"]}
    /\ UNCHANGED <<session, media, pending, voice, consumer, seen, spoken, cooling,
                   heard, dropped>>

\* _finalize_voice_turn: the host has been silent long enough.
FinalizeVoice ==
    /\ Active
    /\ voice # None /\ voice.armed
    /\ voice' = None
    /\ carriers' = carriers \cup {[events |-> voice.events, at |-> "decide"]}
    /\ UNCHANGED <<session, media, pending, turns, consumer, seen, spoken, cooling,
                   heard, dropped>>

\* Fault: a round that may start leaves behind what the cooldown held back.
StartRoundAlone(c) ==
    /\ cooldown # "cooling"
    /\ carriers' = (carriers \ {c}) \cup {[events |-> c.events, at |-> "submit"]}
    /\ delta' = {} /\ flush' = FALSE /\ cooldown' = "cooling"
    /\ UNCHANGED dropped

\* _schedule_voice_observation: the round starts now, with everything that was
\* held back, or is held back itself.
StartRound(c) ==
    /\ cooldown # "cooling"
    /\ carriers' = (carriers \ {c}) \cup
                     {[events |-> c.events \cup delta, at |-> "submit"]}
    /\ delta' = {} /\ flush' = FALSE /\ cooldown' = "cooling"
    /\ UNCHANGED dropped

HoldBack(c) ==
    /\ cooldown = "cooling"
    /\ delta' = delta \cup c.events
    /\ flush' = TRUE
    /\ carriers' = carriers \ {c}
    /\ UNCHANGED <<cooldown, dropped>>

ScheduleVoice(c) ==
    /\ c.at = "decide"
    /\ IF Active
         THEN StartRound(c) \/ HoldBack(c)
         ELSE /\ carriers' = carriers \ {c}
              /\ dropped' = dropped \cup c.events
              /\ UNCHANGED cooling
    /\ UNCHANGED <<session, media, pending, turns, voice, consumer, seen, spoken,
                   heard>>

\* _flush_voice_cooldown.
FlushCooldown ==
    /\ Active
    /\ flush /\ cooldown = "over"
    /\ carriers' = carriers \cup {[events |-> delta, at |-> "submit"]}
    /\ delta' = {} /\ flush' = FALSE /\ cooldown' = "cooling"
    /\ UNCHANGED <<session, media, pending, turns, voice, consumer, seen, spoken,
                   heard, dropped>>

\* _schedule_observation: one observation of all events, unless the session
\* no longer accepts results.  It raises only when room or context have left
\* the session meanwhile, and the events it was given are lost in the same way.
ScheduleObservation(c) ==
    /\ c.at = "submit"
    /\ carriers' = carriers \ {c}
    /\ IF Accepting
         THEN /\ heard' = [s \in Segments |->
                             IF s \in c.events THEN heard[s] + 1 ELSE heard[s]]
              /\ UNCHANGED dropped
         ELSE /\ dropped' = dropped \cup c.events
              /\ UNCHANGED heard
    /\ UNCHANGED <<session, media, pending, turns, voice, consumer, seen, spoken,
                   cooling>>

CooldownOver ==
    /\ cooldown = "cooling"
    /\ cooldown' = "over"
    /\ UNCHANGED <<session, media, pending, turns, voice, consumer, seen, spoken,
                   delta, flush, carriers, heard, dropped>>

----------------------------------------------------------------------------
(* The session around it.                                                  *)

PauseSession ==
    /\ session = "running" /\ session' = "paused"
    /\ UNCHANGED <<media, pending, turns, voice, consumer, seen, spoken, cooling,
                   carriers, heard, dropped>>

ResumeSession ==
    /\ session = "paused" /\ session' = "running"
    /\ UNCHANGED <<media, pending, turns, voice, consumer, seen, spoken, cooling,
                   carriers, heard, dropped>>

\* SessionService is STOPPING before the resources hear of it.
BeginStop ==
    /\ session \in {"running", "paused"} /\ session' = "stopping"
    /\ UNCHANGED <<media, pending, turns, voice, consumer, seen, spoken, cooling,
                   carriers, heard, dropped>>

\* stop_session: tracking is reset and the tasks it knows are cancelled; a
\* round already taken out of its turn is not among them.
StopIngest ==
    /\ session = "stopping" /\ session' = "stopped"
    /\ asr' = [src \in Sources |-> <<>>]
    /\ pending' = [src \in Sources |-> <<>>]
    /\ turns' = [t \in Turns |-> None]
    /\ voice' = None
    /\ consumer' = Idle
    /\ seen' = {}
    /\ delta' = {} /\ flush' = FALSE /\ cooldown' = "never"
    /\ UNCHANGED <<unsent, resent, spoken, carriers, heard, dropped>>

----------------------------------------------------------------------------
Backend ==
    \/ \E src \in Sources :
         \/ TranscriptionFails(src) \/ IgnoreFinal(src) \/ TextFinal(src)
         \/ \E valid \in BOOLEAN : BlankFinal(src, valid)
    \/ AppendEvent \/ AppendFails \/ RetryFinal \/ DiscardFailedFinal
    \/ FinishTranscript \/ TriggerSystemAudio
    \/ \E t \in Turns : ExpireTurn(t) \/ FinalizeTurn(t)
    \/ FinalizeVoice \/ FlushCooldown \/ CooldownOver
    \/ \E c \in carriers : ScheduleVoice(c) \/ ScheduleObservation(c)

Environment ==
    \/ \E src \in Sources : SubmitAudio(src) \/ CommitFails(src)
    \/ NotifyVoiceActivity
    \/ \E s \in Segments : ResendFinal(s)
    \/ PauseSession \/ ResumeSession \/ BeginStop \/ StopIngest

Next == Backend \/ Environment

Spec == Init /\ [][Next]_vars
FairSpec == Spec /\ WF_vars(Backend)

----------------------------------------------------------------------------
(* Properties.                                                             *)

\* A segment becomes one Room Event at most, though the provider may send its
\* final twice and an append is retried.
SpokenOnce == \A s \in Segments : spoken[s] <= 1

\* A final is credited to the turn its own audio belongs to, whatever became of
\* the segments before it, and a turn never mixes in another one's words.
OwnTurn == \A t \in Turns :
    turns[t] # None => \A s \in turns[t].events : Turn[s] = t

\* Nothing waits for a timer that is not running: a turn whose host has spoken
\* has one, and so has what the cooldown holds back.
NoStrandedRound ==
    /\ \A t \in Turns :
         turns[t] # None /\ Mic \in turns[t].completed => turns[t].timer # "none"
    /\ delta # {} => flush

\* What was said is kept: once, in its own turn, and with a timer that will bring it on.
TurnsKept == TypeOK /\ SpokenOnce /\ OwnTurn /\ NoStrandedRound

\* Of a turn there is one round: once an event of it went into an observation,
\* no event of the same turn goes into another one.
TurnHeardOnce ==
    [][\A s, r \in Segments :
         /\ heard[s] > 0
         /\ s = r \/ (Turn[s] = Turn[r] /\ Turn[s] # NoTurn)
         => heard'[r] = heard[r]]_vars

\* What the host said in a turn is put before the audience, with the system
\* audio, without it or after the cooldown, unless the session ends or is
\* paused when the round is due, or the turn was given up for a final the room
\* cannot use or a commit the recogniser refused: the utterance is in "dropped" then.
HostIsHeard ==
    \A s \in {x \in From(Mic) : Turn[x] # NoTurn} :
        spoken[s] > 0 ~>
            (heard[s] > 0 \/ s \in dropped \/ session \in {"stopping", "stopped"})
=============================================================================
