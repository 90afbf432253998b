--------------------------- MODULE WaveCoordinator ---------------------------
(***************************************************************************)
(* ViewerRuntimeCoordinator.react and the InMemoryFrameStore, for one      *)
(* session: reactions of users run beside each other, at most one other    *)
(* beside them (ReactionScheduler), and each freezes what it works with:   *)
(* a snapshot of the runtime, a copy of the admission policy, and frames   *)
(* it keeps from eviction while the models look at them.                   *)
(*                                                                         *)
(* The frame store's lock is never held across a suspension, so each of    *)
(* its operations is one step.  Time is left out: cooldowns, deadlines and *)
(* the timeout of a drain may come at any moment.  Which events, frames    *)
(* and viewers a wave works with is WaveInputs.                            *)
(***************************************************************************)
EXTENDS WaveInputs, ListEdits

CONSTANTS
    MaxFrames,    \* FrameStoreLimits.max_frames
    MaxAmbient,   \* settings.max_consecutive_ambient_waves
    BatchEpochs,  \* epochs whose committed runtime generates in WINDOW_BATCH
    MaxWaves, MaxStored, MaxEpoch,   \* bounds of the model: observations, frames, hot updates
    NoPolicy      \* what _policy_state holds before the first wave counted

ASSUME WaveAssumption == {MaxFrames, MaxAmbient, MaxWaves, MaxStored, MaxEpoch} \subseteq Nat
ASSUME BatchAssumption == BatchEpochs \subseteq Nat
ASSUME NoPolicyIsNoPolicy == NoPolicy \notin [epoch : Nat, ambient : Nat]

\* Numbered in the order of their arrival.
Waves == 1..MaxWaves
Frames == 1..MaxStored

\* The caller of stop_session, beside the reactions.
Stopper == 0

VARIABLES
    lifetime,    \* of the coordinator and the frame store
    epoch,       \* of the committed runtime
    accepting,   \* it accepts results
    stored,      \* _frames, least recently used first
    retained,    \* retention_count
    shown,       \* how many frames were stored
    wave,        \* of each observation, its reaction
    policy,      \* _policy_state
    extraction,  \* the memory extraction of each wave
    tracked,     \* _background_tasks
    drain,       \* calls of _drain_background_tasks
    quiet        \* history: ambient waves of this epoch and session since real input was counted

coordinatorVars == <<lifetime, epoch, accepting, stored, retained, shown, wave, policy,
          extraction, tracked, drain, quiet>>

\* _triggers: a wave with real input, or an ambient one.  A screen change is real input that runs beside fewer.
Kinds == {"user", "ambient"}

NoWave == [at |-> "none", kind |-> "none", epoch |-> 0, accepted |-> FALSE,
           frames |-> {}, proposed |-> 0]
Gone == [NoWave EXCEPT !.at = "ended"]
Idle == [tasks |-> {}, round |-> 0]

WaveInit ==
    /\ lifetime = "running" /\ epoch = 0 /\ accepting = TRUE
    /\ stored = <<>> /\ retained = [f \in Frames |-> 0] /\ shown = 0
    /\ wave = [w \in Waves |-> NoWave]
    /\ policy = NoPolicy
    /\ extraction = [w \in Waves |-> "none"] /\ tracked = {}
    /\ drain = [p \in Waves \cup {Stopper} |-> Idle]
    /\ quiet = 0

-----------------------------------------------------------------------------
(* The frame store. *)

\* Fault: the oldest frames go, whoever still looks at them.
EvictedOldest(frames, count) ==
    IF Len(frames) > MaxFrames THEN SubSeq(frames, Len(frames) - MaxFrames + 1, Len(frames)) ELSE frames

\* _evict_to_limits: the least recently used of those nobody retains.  Its second limit, max_total_bytes,
\* takes them in the same order; frames are of one size here and reach max_frames first.
Evicted(frames, count) ==
    LET free == Excluding(frames, {f \in Frames : count[f] > 0})
        excess == IF Len(frames) > MaxFrames THEN Len(frames) - MaxFrames ELSE 0
        out == {free[i] : i \in 1..(IF excess < Len(free) THEN excess ELSE Len(free))}
    IN Excluding(frames, out)

\* move_to_end of each frame, in the order of the wave.
Touched(fs) == Excluding(stored, fs) \o Excluding(stored, Frames \ fs)

\* Still stored, and an image that can be read: resolving uses a frame.
Resolvable(fs) == fs \cap ToSet(stored)

StoreFrame ==
    /\ lifetime = "running" /\ shown < MaxStored
    /\ shown' = shown + 1
    /\ stored' = Evicted(Append(stored, shown'), retained)
    /\ UNCHANGED <<lifetime, epoch, accepting, retained, wave, policy, extraction, tracked, drain, quiet>>

\* Released by the wave that holds them; nothing once the store belongs to no session.
ReleaseFrames(fs) ==
    IF lifetime = "stopped" THEN UNCHANGED <<stored, retained>>
    ELSE /\ retained' = [f \in Frames |->
                IF f \in fs \cap ToSet(stored) /\ retained[f] > 0 THEN retained[f] - 1 ELSE retained[f]]
         /\ stored' = Evicted(stored, retained')

-----------------------------------------------------------------------------
(* Background tasks and their drain. *)

\* Cancelled, and waited for; the caller goes on at once when there are none.
BeginDrain(p, tasks) ==
    /\ drain' = [drain EXCEPT ![p] = [tasks |-> tasks, round |-> 1]]
    /\ extraction' = [w \in Waves |-> IF w \in tasks THEN "cancelled" ELSE extraction[w]]

Pending(p) == {w \in drain[p].tasks : extraction[w] # "none"}

Drained(p) == drain[p].round > 0 /\ Pending(p) = {}

\* Fault: the second wait has no end either.
DrainTimeoutOnce(p) ==
    /\ drain[p].round = 1 /\ Pending(p) # {}
    /\ drain' = [drain EXCEPT ![p].round = 2]
    /\ UNCHANGED tracked
    /\ UNCHANGED <<lifetime, epoch, accepting, stored, retained, shown, wave, policy, extraction, quiet>>

\* The first timeout cancels again; at the second, what still resists is detached.
DrainTimeout(p) ==
    /\ drain[p].round > 0 /\ Pending(p) # {}
    /\ IF drain[p].round = 1
       THEN drain' = [drain EXCEPT ![p].round = 2] /\ UNCHANGED tracked
       ELSE drain' = [drain EXCEPT ![p].tasks = {}] /\ tracked' = tracked \ Pending(p)
    /\ UNCHANGED <<lifetime, epoch, accepting, stored, retained, shown, wave, policy, extraction, quiet>>

\* _extract_memory: nothing is asked of the model for an epoch that no longer accepts.
StartExtraction(w) ==
    /\ extraction[w] = "scheduled"
    /\ LET goes == accepting /\ epoch = wave[w].epoch IN
       /\ extraction' = [extraction EXCEPT ![w] = IF goes THEN "extracting" ELSE "none"]
       /\ tracked' = IF goes THEN tracked ELSE tracked \ {w}
    /\ UNCHANGED <<lifetime, epoch, accepting, stored, retained, shown, wave, policy, drain, quiet>>

\* It committed its candidates, failed, or ends on its cancellation; if ever.
EndExtraction(w) ==
    /\ extraction[w] \in {"extracting", "cancelled"}
    /\ extraction' = [extraction EXCEPT ![w] = "none"]
    /\ tracked' = tracked \ {w}
    /\ UNCHANGED <<lifetime, epoch, accepting, stored, retained, shown, wave, policy, drain, quiet>>

-----------------------------------------------------------------------------
(* react. *)

\* The wave is done; its extraction, if there is one, still knows its epoch.
Ended(w) == [NoWave EXCEPT !.at = "ended", !.epoch = wave[w].epoch]

Live(w) == wave[w].at \notin {"none", "ended"}

\* The runtime is read, the extractions of other epochs are cancelled.
React(w, kind) ==
    /\ wave[w].at = "none" /\ lifetime # "stopped"
    /\ \A v \in Waves : v < w => wave[v].at # "none"
    /\ kind # "user" => \A v \in Waves : Live(v) => wave[v].kind = "user"
    /\ wave' = [wave EXCEPT ![w] = [NoWave EXCEPT !.at = "draining", !.kind = kind,
                                                  !.epoch = epoch, !.accepted = accepting]]
    /\ BeginDrain(w, {v \in tracked : wave[v].epoch # epoch})
    /\ UNCHANGED <<lifetime, epoch, accepting, stored, retained, shown, policy, tracked, quiet>>

\* What the policy of the wave's epoch has counted.
Counted(w) == IF policy # NoPolicy /\ policy.epoch = wave[w].epoch THEN policy.ambient ELSE 0

\* A window batch comes with every interval, whatever was counted; the bound is for the other modes.
AmbientAllowed(w) == wave[w].epoch \in BatchEpochs \/ Counted(w) < MaxAmbient

Admits(w) == wave[w].kind = "user" \/ (wave[w].kind = "ambient" /\ AmbientAllowed(w))

\* The frames the observation names and that still resolve are in the wave; the wave is admitted on a
\* copy of the policy.  An ambient wave may be refused for its cooldown or interval, or because the mode
\* knows no ambience; one that does not accept ends here.
BuildWave(w, fs) ==
    /\ wave[w].at = "draining" /\ Drained(w)
    /\ drain' = [drain EXCEPT ![w] = Idle]
    /\ \/ /\ Admits(w) /\ wave[w].accepted
          /\ wave' = [wave EXCEPT ![w].at = "preparing", ![w].frames = Resolvable(fs),
                         ![w].proposed = IF wave[w].kind = "ambient" THEN Counted(w) + 1 ELSE 0]
       \/ /\ ~Admits(w) \/ ~wave[w].accepted \/ wave[w].kind = "ambient"
          /\ wave' = [wave EXCEPT ![w] = Gone]
    /\ stored' = Touched(fs)
    /\ UNCHANGED <<lifetime, epoch, accepting, retained, shown, policy, extraction, tracked, quiet>>

\* Memory could not be read, the scene not be summarized: nothing was retained yet.
PreparationFails(w) ==
    /\ wave[w].at = "preparing"
    /\ wave' = [wave EXCEPT ![w] = Gone]
    /\ UNCHANGED <<lifetime, epoch, accepting, stored, retained, shown, policy, extraction, tracked, drain, quiet>>

\* Some frames are too old; the rest is retained if the store still has all of it.
RetainFrames(w, fs) ==
    /\ wave[w].at = "preparing" /\ fs # {} /\ fs \subseteq wave[w].frames
    /\ fs \subseteq ToSet(stored)
    /\ wave' = [wave EXCEPT ![w].at = "dispatching", ![w].frames = fs]
    /\ retained' = [f \in Frames |-> IF f \in fs THEN retained[f] + 1 ELSE retained[f]]
    /\ stored' = Touched(fs)
    /\ UNCHANGED <<lifetime, epoch, accepting, shown, policy, extraction, tracked, drain, quiet>>

\* The wave goes out without frames: another visual mode, none fit, or one was evicted meanwhile.
GoTextOnly(w) ==
    /\ wave[w].at = "preparing"
    /\ wave' = [wave EXCEPT ![w].at = "dispatching", ![w].frames = {}]
    /\ UNCHANGED <<lifetime, epoch, accepting, stored, retained, shown, policy, extraction, tracked, drain, quiet>>

\* "heard": somebody spoke or chose silence, or nobody was asked; "completed": no result was refused
\* and none counts as either; "lost": every result failed, expired or was superseded.
Outcomes == {"heard", "completed", "lost"}

\* The proposed policy replaces whatever other waves stored since it was copied.
CommitPolicy(w) ==
    /\ policy' = [epoch |-> wave[w].epoch, ambient |-> wave[w].proposed]
    /\ quiet' = IF wave[w].kind = "ambient"
                THEN IF wave[w].epoch = epoch THEN quiet + 1 ELSE quiet
                ELSE 0

EndDispatch(w, outcome) ==
    /\ wave[w].at = "dispatching"
    /\ wave' = [wave EXCEPT ![w] = IF outcome = "heard" THEN Ended(w) ELSE Gone]
    /\ ReleaseFrames(wave[w].frames)
    /\ IF outcome = "lost" THEN UNCHANGED <<policy, quiet>> ELSE CommitPolicy(w)
    /\ IF outcome = "heard"
       THEN extraction' = [extraction EXCEPT ![w] = "scheduled"] /\ tracked' = tracked \cup {w}
       ELSE UNCHANGED <<extraction, tracked>>
    /\ UNCHANGED <<lifetime, epoch, accepting, shown, drain>>

\* Cancelled (superseded, stopped) or broken off by an exception, wherever it waits.
AbortWave(w) ==
    /\ Live(w)
    /\ wave' = [wave EXCEPT ![w] = Gone]
    /\ IF wave[w].at = "dispatching" THEN ReleaseFrames(wave[w].frames) ELSE UNCHANGED <<stored, retained>>
    /\ drain' = [drain EXCEPT ![w] = Idle]
    /\ UNCHANGED <<lifetime, epoch, accepting, shown, policy, extraction, tracked, quiet>>

-----------------------------------------------------------------------------
(* The session. *)

\* A hot update is committed.
AdvanceEpoch ==
    /\ accepting /\ epoch < MaxEpoch
    /\ epoch' = epoch + 1 /\ quiet' = 0
    /\ UNCHANGED <<lifetime, accepting, stored, retained, shown, wave, policy, extraction, tracked, drain>>

CloseFence ==
    /\ accepting /\ accepting' = FALSE
    /\ UNCHANGED <<lifetime, epoch, stored, retained, shown, wave, policy, extraction, tracked, drain, quiet>>

StopSession ==
    /\ lifetime = "running" /\ ~accepting /\ lifetime' = "stopping"
    /\ BeginDrain(Stopper, tracked)
    /\ UNCHANGED <<epoch, accepting, stored, retained, shown, wave, policy, tracked, quiet>>

\* The policy is dropped, the frames are cleared.
FinishStop ==
    /\ lifetime = "stopping" /\ Drained(Stopper)
    /\ lifetime' = "stopped" /\ policy' = NoPolicy /\ quiet' = 0
    /\ stored' = <<>> /\ retained' = [f \in Frames |-> 0]
    /\ drain' = [drain EXCEPT ![Stopper] = Idle]
    /\ UNCHANGED <<epoch, accepting, shown, wave, extraction, tracked>>

WaveNext ==
    \/ StoreFrame
    \/ \E w \in Waves :
          \/ \E kind \in Kinds : React(w, kind)
          \/ \E fs \in SUBSET (1..shown) : BuildWave(w, fs) \/ RetainFrames(w, fs)
          \/ PreparationFails(w) \/ GoTextOnly(w) \/ AbortWave(w)
          \/ \E outcome \in Outcomes : EndDispatch(w, outcome)
          \/ StartExtraction(w) \/ EndExtraction(w)
    \/ \E p \in Waves \cup {Stopper} : DrainTimeout(p)
    \/ AdvanceEpoch \/ CloseFence \/ StopSession \/ FinishStop

\* The event loop runs what is ready and its timers.  Nothing makes an extraction end.
WaveFairness ==
    /\ \A w \in Waves : WF_coordinatorVars(BuildWave(w, {}))
    /\ \A p \in Waves \cup {Stopper} : WF_coordinatorVars(DrainTimeout(p))
    /\ WF_coordinatorVars(FinishStop)

WaveSpec == WaveInit /\ [][WaveNext]_coordinatorVars /\ WaveFairness

-----------------------------------------------------------------------------
(* Properties. *)

Holds(w, f) == wave[w].at = "dispatching" /\ f \in wave[w].frames

\* The frame store keeps its books: each frame is retained exactly as often as running waves look at
\* it, whichever way earlier waves ended, and the store exceeds its limit only by retained frames.
StoreTyped ==
    /\ lifetime \in {"running", "stopping", "stopped"} /\ epoch \in 0..MaxEpoch
    /\ IsInjective(stored) /\ ToSet(stored) \subseteq 1..shown
    /\ \A w \in Waves : wave[w].at \in {"none", "draining", "preparing", "dispatching", "ended"}
    /\ tracked \subseteq {w \in Waves : extraction[w] \in {"scheduled", "extracting", "cancelled"}}
    /\ lifetime # "stopped" =>
          \A f \in ToSet(stored) : retained[f] = Cardinality({w \in Waves : Holds(w, f)})
    /\ Len(stored) > MaxFrames => \A f \in ToSet(stored) : retained[f] > 0

\* The models of a wave find the frames they were promised (DIRECT_FRAMES), however many frames and
\* waves come while they look: retained frames are not evicted before the session ends.
FramesLast ==
    lifetime # "stopped" => \A w \in Waves : wave[w].at = "dispatching" => wave[w].frames \subseteq ToSet(stored)

\* After max_consecutive_ambient_waves ambient waves the audience stays quiet until a wave with real
\* input has been counted, although waves run at once on copies of the policy and the last one to end
\* overwrites what the others stored.  A runtime that generates window batches has no such bound: the
\* waves it counted do not come into the account of the next runtime.
AmbientBounded == epoch \notin BatchEpochs => quiet <= MaxAmbient

\* Frames are kept as long as somebody looks at them and no longer, and ambient waves are bounded.
WavesKept == StoreTyped /\ FramesLast /\ AmbientBounded

\* Whatever it was observed, a wave is prepared with the events, the frames and the viewers it should
\* have: what triggered it is read and shown first, nothing outdated is, threads are complete, targets
\* survive merging, and viewers take turns (InputsSound, for every input within the bounds).
PreparedSoundly == \A w \in Waves : wave[w].at = "preparing" => InputsSound

\* Neither a reaction nor the stop of a session waits for ever for an extraction that does not end on
\* its cancellation (a provider that hangs, a commit that is shielded).
DrainsEnd ==
    /\ \A w \in Waves : wave[w].at = "draining" ~> wave[w].at # "draining"
    /\ lifetime = "stopping" ~> lifetime = "stopped"
==============================================================================
