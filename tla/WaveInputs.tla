----------------------------- MODULE WaveInputs ------------------------------
(***************************************************************************)
(* What a wave works with: the events its models read, the frames they see *)
(* and the viewers who are asked.  All three are functions of the          *)
(* observation and the runtime; WaveCoordinator says when they are used.   *)
(* Events are numbered in the order of the Room, frames in the order of    *)
(* their capture.  A time window is the set of what lies in it, since      *)
(* timestamps need not follow the order of the Room.                       *)
(***************************************************************************)
EXTENDS Integers, FiniteSetsExt, SequencesExt

CONSTANTS
    MaxEvents, MaxPictures, MaxViewers,   \* bounds of the model
    PerCategory,     \* 16 in the code
    MaxPublic,       \* settings.public_context_max_events
    MaxReplies,      \* settings.max_replyable_events
    BundleSize,      \* frame_bundle_size
    InputBudget, AmbientBudget, ScreenBudget   \* settings.viewer_..._speaker_budget

\* The validated ranges of the settings; no answers may be allowed, and nobody be asked.
ASSUME InputsAssumption ==
    /\ {MaxEvents, MaxPictures, MaxViewers, PerCategory, MaxReplies,
        InputBudget, AmbientBudget, ScreenBudget} \subseteq Nat
    /\ MaxPublic \in Nat \ {0} /\ BundleSize \in Nat \ {0}

Events == 1..MaxEvents
Pictures == 1..MaxPictures
Audience == 1..MaxViewers

\* "other" is a system event that is no transcript; nothing puts screen events into the Room.
Inputs == {"user", "system_audio"}
EventKinds == Inputs \cup {"barrage", "other"}

\* The first and the last n of a set of numbers.
Oldest(S, n) == {e \in S : Cardinality({d \in S : d < e}) < n}
Newest(S, n) == {e \in S : Cardinality({d \in S : d > e}) < n}

AtLeastZero(n) == IF n < 0 THEN 0 ELSE n

-----------------------------------------------------------------------------
(* Events.  An observation is triggered by input, never by barrage; answers *)
(* is what the newest barrage answers, 0 for nothing.                       *)

Observations ==
    {o \in [kind : [Events -> EventKinds], trigger : SUBSET Events, fresh : SUBSET Events,
            answers : 0..(MaxEvents - 1)] :
        \A e \in o.trigger : o.kind[e] # "barrage"}

Fresh(o, kinds) == {e \in o.fresh : o.kind[e] \in kinds}

\* Fault: a trigger is read like any other event.
PublicContextUnforced(o) == Newest(o.trigger \cup Fresh(o, Inputs), MaxPublic)

\* _select_contexts: the triggers, however old; the rest is filled with the newest of each category.
PublicContext(o) ==
    LET room(c) == AtLeastZero(PerCategory - Cardinality({e \in o.trigger : o.kind[e] = c}))
        others == UNION {Newest(Fresh(o, {c}) \ o.trigger, room(c)) : c \in Inputs}
        kept == Oldest(o.trigger, MaxPublic)
    IN kept \cup Newest(others, MaxPublic - Cardinality(kept))

\* The newest barrages, and with the newest what it answers, in place of the oldest.
ReplyContext(o) ==
    LET barrages == Fresh(o, {"barrage"})
        newest == Newest(barrages, MaxReplies)
        parent == barrages \cap {o.answers}
    IN IF parent \subseteq newest \/ MaxReplies <= 1 THEN newest
       ELSE parent \cup Newest(newest, MaxReplies - 1)

\* In a mode that batches, nothing is answered and triggers are read like the rest.
WindowBatchContext(o) == Newest(Fresh(o, Inputs), MaxPublic)

-----------------------------------------------------------------------------
(* Frames that still resolve; triggers of a batch lie in its window.        *)
(* similar holds the pairs, older first, whose signatures agree and that    *)
(* lie within the anchor interval.                                          *)

Sights ==
    [window : SUBSET Pictures, trigger : SUBSET Pictures,
     similar : SUBSET {p \in Pictures \X Pictures : p[1] < p[2]}, latest : BOOLEAN]

\* The picture that opens the visual segment of each picture in the window.
Anchor(s) ==
    LET anchor[f \in s.window] ==
            LET earlier == {g \in s.window : g < f}
            IN IF earlier # {} /\ <<anchor[Max(earlier)], f>> \in s.similar
               THEN anchor[Max(earlier)] ELSE f
    IN anchor

\* The newest picture of each segment.
Representatives(s) ==
    {f \in s.window : \A g \in s.window : Anchor(s)[g] = Anchor(s)[f] => g <= f}

SelectFrames(s) == Newest(IF s.latest THEN s.window ELSE Representatives(s), BundleSize)

\* _build_wave: pictures that triggered the wave come first.  Pictures that did not are all kept when
\* there is no room left for them, and the bundle is then refused.
FrameBundle(s) ==
    LET all == SelectFrames(s) \cup s.trigger
        forced == Newest(s.trigger, BundleSize)
        ordinary == all \ s.trigger
        remaining == BundleSize - Cardinality(forced)
    IN IF s.trigger \subseteq SelectFrames(s) THEN SelectFrames(s)
       ELSE forced \cup (IF remaining = 0 THEN ordinary ELSE Newest(ordinary, remaining))

-----------------------------------------------------------------------------
(* Viewers.                                                                  *)

Personas == {1, 2}
Targets == ({"viewer"} \X Audience) \cup ({"persona"} \X Personas)

\* eligible: active and not muted.  spoke: when a viewer last spoke, 0 for never.
Pools == [eligible : SUBSET Audience, persona : [Audience -> Personas], spoke : [Audience -> 0..2]]

\* RuntimeTranscriptTargetResolver, for one spoken line: identifiers before names of viewers, those
\* before names of personas; two of the same rank name nobody.
Named(ids, names, personaNames) ==
    LET matches == IF ids # {} THEN ids ELSE IF names # {} THEN names ELSE personaNames
    IN IF Cardinality(matches) = 1 THEN matches ELSE {}

\* _accumulate_voice_cooldown_delta: two different targets are enough to know that they differ.
Gathered(targets, named) ==
    IF Cardinality(targets) < 2 THEN targets \cup named ELSE targets

Only(targets) == IF Cardinality(targets) = 1 THEN targets ELSE {}

\* An observation of the lines of a delta.  called: what its triggering events name.
Observed(lines) ==
    [called |-> UNION ToSet(lines), target |-> Only(FoldLeft(Gathered, {}, lines)), ambiguous |-> FALSE]

\* _merge_targets of the scheduler.
Merged(first, latest) ==
    LET all == first.target \cup latest.target \cup first.called \cup latest.called
        ambiguous == first.ambiguous \/ latest.ambiguous \/ Cardinality(all) > 1
    IN [called |-> first.called \cup latest.called,
        target |-> IF ambiguous THEN {} ELSE Only(all), ambiguous |-> ambiguous]

\* _build_wave: the observation's own target, else the one its events name.
Target(o) ==
    LET ofKind(targets, kind) == {t \in targets : t[1] = kind}
    IN IF o.ambiguous \/ Cardinality(o.called) > 1 THEN {}
       ELSE UNION {IF ofKind(o.target, kind) # {} THEN ofKind(o.target, kind) ELSE ofKind(o.called, kind)
                   : kind \in {"viewer", "persona"}}

\* Those who never spoke, then those who spoke longest ago, by identifier.
Before(pool, u, v) ==
    \/ pool.spoke[u] < pool.spoke[v]
    \/ pool.spoke[u] = pool.spoke[v] /\ u < v

\* The first n of S in the order of last_spoke_at_ms.
LeastRecent(pool, S, n) == {v \in S : Cardinality({u \in S : Before(pool, u, v)}) < n}

\* How many are asked, by what triggered the wave.
Budget == [input |-> InputBudget, ambient |-> AmbientBudget, screen |-> ScreenBudget]
WaveKinds == DOMAIN Budget

\* _decide_speakers.  Without a target a wave of the screen orders viewers by a hash of its identifier,
\* so anybody may come first.
Speakers(pool, target, kind) ==
    IF \E v \in Audience : <<"viewer", v>> \in target
    THEN {{v \in pool.eligible : <<"viewer", v>> \in target}}
    ELSE IF target # {}
    THEN {LeastRecent(pool, {v \in pool.eligible : <<"persona", pool.persona[v]>> \in target}, 1)}
    ELSE IF kind = "screen"
    THEN {S \in SUBSET pool.eligible :
              Cardinality(S) = Min({Budget[kind], Cardinality(pool.eligible)})}
    ELSE {LeastRecent(pool, pool.eligible, Budget[kind])}

\* record_published.  Silence leaves last_spoke_at_ms as it is.
Spoken(pool, speakers, now) ==
    [pool EXCEPT !.spoke = [v \in Audience |-> IF v \in speakers THEN now ELSE @[v]]]

-----------------------------------------------------------------------------
(* What is promised of them, for all inputs within the bounds; WaveInputs   *)
(* has no state, and WaveCoordinator checks this as PreparedSoundly.        *)

\* Models read what made them run, as far as it fits; nothing outdated besides; and of each category
\* the newest, without gaps, without wasting room and without crowding out the other.
ContextsSound ==
    \A o \in Observations :
        LET read == PublicContext(o)
            left(c) == Fresh(o, {c}) \ read
        IN /\ Cardinality(read) <= MaxPublic /\ read \subseteq o.trigger \cup Fresh(o, Inputs)
           /\ Cardinality(o.trigger) <= MaxPublic => o.trigger \subseteq read
           /\ \A c \in Inputs :
                 LET of(S) == Cardinality({e \in S : o.kind[e] = c})
                 IN of(read) <= Max({PerCategory, of(o.trigger)})
           /\ \A c \in Inputs, e \in read \ o.trigger :
                 o.kind[e] = c => \A d \in left(c) : d < e
           /\ \A c \in Inputs : left(c) # {} =>
                 \/ Cardinality(read) = MaxPublic
                 \/ Cardinality({e \in read : o.kind[e] = c}) >= PerCategory

\* The newest barrage can be answered, together with what it answers itself.
ThreadsSound ==
    \A o \in Observations :
        LET barrages == Fresh(o, {"barrage"})
        IN /\ ReplyContext(o) \subseteq barrages
           /\ Cardinality(ReplyContext(o)) = Min({MaxReplies, Cardinality(barrages)})
           /\ MaxReplies > 0 /\ barrages # {} => Max(barrages) \in ReplyContext(o)
           /\ MaxReplies > 1 => barrages \cap {o.answers} \subseteq ReplyContext(o)
           /\ WindowBatchContext(o) \cap barrages = {}

\* The newest picture that triggered a wave is shown; a picture left out is represented by a newer one
\* of its segment or gives way to pictures that are newer or triggered the wave.  A bundle exceeds its
\* size only when its triggers alone fill it (README, Disagreements).
BundlesSound ==
    \A s \in Sights :
        LET bundle == FrameBundle(s)
        IN /\ Cardinality(bundle) <= BundleSize \/ Cardinality(bundle \cap s.trigger) = BundleSize
           /\ s.trigger # {} => Max(s.trigger) \in bundle
           /\ \A f \in s.window \ bundle :
                 \/ ~s.latest /\ \E g \in s.window : g > f /\ Anchor(s)[g] = Anchor(s)[f]
                 \/ Cardinality({g \in bundle : g > f \/ g \in s.trigger}) >= BundleSize

\* When a budget is smaller than the audience, everybody who speaks when asked makes room for the
\* others: after enough waves all have been asked.  Nobody who left or is muted ever is.
Rotates(pool, kind) ==
    LET after[n \in 0..MaxViewers] ==
            IF n = 0 THEN pool
            ELSE Spoken(after[n - 1], UNION Speakers(after[n - 1], {}, kind), 2 + n)
        asked == UNION {UNION Speakers(after[n], {}, kind) : n \in 0..(MaxViewers - 1)}
    IN asked = pool.eligible

\* Nobody who is away or muted is asked, one at most when somebody is addressed, and all take turns.
SpeakersSound ==
    \A pool \in Pools :
        /\ \A kind \in {"input", "ambient"} : Budget[kind] > 0 => Rotates(pool, kind)
        /\ \A target \in {{}} \cup {{t} : t \in Targets}, kind \in WaveKinds :
              \A asked \in Speakers(pool, target, kind) :
                  /\ asked \subseteq pool.eligible
                  /\ target # {} => Cardinality(asked) <= 1

\* However three lines are gathered in deltas and their observations merged, the wave is for one
\* viewer or persona alone exactly if the lines together name that one and nobody else.
TargetsSound ==
    \A a, b, c \in {Named(ids, {}, {}) : ids \in SUBSET Targets} :
        LET waves == {Observed(<<a, b, c>>), Merged(Observed(<<a, b>>), Observed(<<c>>)),
                      Merged(Observed(<<a>>), Observed(<<b, c>>)),
                      Merged(Merged(Observed(<<a>>), Observed(<<b>>)), Observed(<<c>>))}
        IN \A o \in waves : Target(o) = Only(a \cup b \cup c)

\* All of it, for the wave_coordinator run.
InputsSound == ContextsSound /\ ThreadsSound /\ BundlesSound /\ SpeakersSound /\ TargetsSound
=============================================================================
