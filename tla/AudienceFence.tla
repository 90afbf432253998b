----------------------------- MODULE AudienceFence -----------------------------
(***************************************************************************)
(* The audience of one session and the fence every model result passes:    *)
(* application/runtime_state.py (epoch, claimed and issued sequences, the   *)
(* effect lock), application/viewer_audience_service.py (mute, kick,       *)
(* leave, rejoin, replacement, end of the session), the hot update of      *)
(* runtime_session_service.apply with viewer_pool_service.reconcile, and   *)
(* the sequence counters ViewerRuntime keeps beside the fence.             *)
(*                                                                         *)
(* Each update of RuntimeStateStore holds the effect lock and the boundary *)
(* across its database write, so it is one step that happens or fails; a   *)
(* result's side effect holds the effect lock from the check to the end of *)
(* the write, so it is two steps with `effect' set in between.             *)
(* One persona: every slot of the Mode can be filled by every viewer.      *)
(***************************************************************************)
EXTENDS Naturals, FiniteSets

CONSTANTS
    MaxOrdinal,     \* "Session Viewer creation limit", 128 in the code
    Targets,        \* viewer_count of the Modes a hot update may select
    InitialTarget,  \* viewer_count of the Mode the session starts with
    Callers,        \* concurrent requests and waves of ViewerAudienceService
    Items,          \* concurrent work items of ViewerRuntime
    MaxEpoch, MaxSequence, MaxPopulation,   \* bounds of the model only
    None            \* Python's None

ASSUME BoundsAssumption ==
    /\ MaxOrdinal \in Nat /\ MaxEpoch \in Nat /\ MaxSequence \in Nat /\ MaxPopulation \in Nat
    /\ Targets \subseteq Nat /\ 0 \notin Targets
    /\ InitialTarget \in 1..MaxOrdinal

Viewers == 1..MaxOrdinal      \* a viewer is named by its creation ordinal

VARIABLES
    epoch,       \* CommittedRuntime.audience_epoch
    population,  \* CommittedRuntime.population_revision
    accepting,   \* CommittedRuntime.accepting_results
    target,      \* viewer_count of the committed spec's active Mode
    viewer,      \* CommittedRuntime.pool.viewers
    ordinal,     \* pool.next_creation_ordinal
    claims,      \* _claimed_sequences of the session; None where there is no entry
    issued,      \* _issued_sequences of the session
    effect,      \* the holder of the effect lock between check and side effect
    seen,        \* ViewerRuntime._sequences and _sequence_epochs
    item,        \* work items of ViewerRuntime
    room,        \* tokens whose barrage was appended to the Room
    caller,      \* requests inside ViewerAudienceService
    apply,       \* the hot update between its snapshot and its commit
    stopping,    \* how far the end of the session has come
    toEnd        \* viewers ViewerAudienceService.stop_session still has to end

fence == <<epoch, population, accepting, target, viewer, ordinal, claims, issued>>
runtime == <<effect, seen, item, room>>
vars == <<fence, runtime, caller, apply, stopping, toEnd>>

\* "absent" was never created, "dropped" left the pool in a hot update.
Lives == {"absent", "active", "left", "kicked", "ended", "dropped"}

ViewerRec == [life : Lives, epoch : Nat, presence : Nat, moderation : Nat,
              muted : BOOLEAN, sequence : Nat]

\* A work item past dispatch belongs to a viewer.
ItemRec == {w \in [phase : {"free", "built", "claimed", "published"},
                   viewer : Viewers \cup {None}, epoch : Nat, presence : Nat,
                   moderation : Nat, base : Nat, sequence : Nat] :
               w.phase # "free" => w.viewer \in Viewers}

EffectRec == [item : Items, kind : {"publish", "silence", "behaviour"}]

CallerRec == {r \in [pc : {"idle", "expire", "look", "rejoin", "count", "add", "leave", "leaving"},
              viewer : Viewers \cup {None}, todo : SUBSET Viewers, want : Nat,
              count : Nat \cup {None}, born : Nat, wave : BOOLEAN] :
                 r.pc \in {"add", "leaving"} => r.viewer \in Viewers /\ (r.pc = "add" => r.count \in Nat)}

ApplyRec == [population : Nat, epoch : Nat, target : Nat, ordinal : Nat \ {0},
             viewer : [Viewers -> ViewerRec]]

ASSUME NoneAssumption ==
    None \notin Nat /\ None \notin EffectRec /\ None \notin ApplyRec

FenceOK ==
    /\ epoch \in Nat /\ population \in Nat /\ target \in Nat
    /\ accepting \in BOOLEAN
    /\ viewer \in [Viewers -> ViewerRec] /\ ordinal \in Nat \ {0}
    /\ claims \in [Viewers -> Nat \cup {None}]
    /\ issued \in [Viewers -> SUBSET Nat]
    \* only an active viewer of an accepting runtime has issued sequences
    /\ \A v \in Viewers : issued[v] # {} => accepting /\ viewer[v].life = "active"

RuntimeOK ==
    /\ effect \in EffectRec \cup {None}
    /\ seen \in [Viewers -> [epoch : Nat, sequence : Nat]]
    /\ item \in [Items -> ItemRec]
    /\ room \subseteq Viewers \X Nat \X Nat
    \* whoever holds the effect lock is a live work item
    /\ effect # None => item[effect.item].phase # "free"

CallersOK == caller \in [Callers -> CallerRec]

TypeOK ==
    /\ FenceOK /\ RuntimeOK /\ CallersOK
    /\ apply \in ApplyRec \cup {None}
    /\ stopping \in {"no", "runtime", "viewers", "gaveup", "done", "failed"}
    /\ toEnd \subseteq Viewers

Active(pool) == {v \in Viewers : pool[v].life = "active"}
Missing(pool, t) == IF t > Cardinality(Active(pool)) THEN t - Cardinality(Active(pool)) ELSE 0

NewViewer(e) == [life |-> "active", epoch |-> e, presence |-> 1, moderation |-> 1,
                 muted |-> FALSE, sequence |-> 0]
NoViewer == [life |-> "absent", epoch |-> 0, presence |-> 0, moderation |-> 0,
             muted |-> FALSE, sequence |-> 0]

FreeItem == [phase |-> "free", viewer |-> None, epoch |-> 0, presence |-> 0,
             moderation |-> 0, base |-> 0, sequence |-> 0]
IdleCaller == [pc |-> "idle", viewer |-> None, todo |-> {}, want |-> 0, count |-> None,
               born |-> 0, wave |-> FALSE]

Init ==
    /\ epoch = 1 /\ population = 1 /\ accepting = TRUE /\ target = InitialTarget
    /\ viewer = [v \in Viewers |-> IF v <= InitialTarget THEN NewViewer(1) ELSE NoViewer]
    /\ ordinal = InitialTarget + 1
    /\ claims = [v \in Viewers |-> IF v <= InitialTarget THEN 0 ELSE None]
    /\ issued = [v \in Viewers |-> {}]
    /\ effect = None
    /\ seen = [v \in Viewers |-> [epoch |-> 0, sequence |-> 0]]
    /\ item = [i \in Items |-> FreeItem]
    /\ room = {}
    /\ caller = [c \in Callers |-> IdleCaller]
    /\ apply = None
    /\ stopping = "no" /\ toEnd = {}

---------------------------------------------------------------------------
(* RuntimeStateStore.                                                      *)

\* Fault: the fence compares the presence and forgets the moderation.
AcceptsModerated(w) ==
    /\ accepting /\ w.epoch = epoch
    /\ viewer[w.viewer].life = "active"
    /\ viewer[w.viewer].presence = w.presence
    /\ w.sequence \in issued[w.viewer]

\* _accepts_locked, with the arguments ViewerRuntime passes.
Accepts(w) ==
    /\ accepting /\ w.epoch = epoch
    /\ viewer[w.viewer].life = "active"
    /\ viewer[w.viewer].presence = w.presence
    /\ viewer[w.viewer].moderation = w.moderation
    /\ w.sequence \in issued[w.viewer]

\* Fault: removing a viewer keeps what it was issued.
UpdateViewerKeepsIssued(v, new) ==
    /\ effect = None /\ population < MaxPopulation
    /\ viewer' = [viewer EXCEPT ![v] = new]
    /\ population' = population + 1
    /\ UNCHANGED <<epoch, accepting, target, ordinal, claims, issued>>

\* Fault: an update does not wait for the effect lock.
UpdateViewerUnlocked(v, new) ==
    /\ population < MaxPopulation
    /\ viewer' = [viewer EXCEPT ![v] = new]
    /\ population' = population + 1
    /\ IF new.life = "active"
       THEN UNCHANGED <<claims, issued>>
       ELSE /\ claims' = [claims EXCEPT ![v] = None]
            /\ issued' = [issued EXCEPT ![v] = {}]
    /\ UNCHANGED <<epoch, accepting, target, ordinal>>

\* update_viewer: a viewer that is no longer active loses its claims.
UpdateViewer(v, new) ==
    /\ effect = None /\ population < MaxPopulation
    /\ viewer' = [viewer EXCEPT ![v] = new]
    /\ population' = population + 1
    /\ IF new.life = "active"
       THEN UNCHANGED <<claims, issued>>
       ELSE /\ claims' = [claims EXCEPT ![v] = None]
            /\ issued' = [issued EXCEPT ![v] = {}]
    /\ UNCHANGED <<epoch, accepting, target, ordinal>>

\* add_viewer: an ordinal already in the pool or in the table is refused.
AddViewer(v, e) ==
    /\ effect = None /\ population < MaxPopulation
    /\ viewer[v].life = "absent"
    /\ viewer' = [viewer EXCEPT ![v] = NewViewer(e)]
    /\ population' = population + 1
    /\ ordinal' = IF ordinal > v THEN ordinal ELSE v + 1
    /\ UNCHANGED <<epoch, accepting, target, claims, issued>>

---------------------------------------------------------------------------
(* ViewerRuntime: sequences and side effects of work items.                *)

Token(w) == <<w.viewer, w.epoch, w.sequence>>

\* A work item is built from the pool snapshot of its wave; muted viewers are not selected.
Dispatch(i, v) ==
    /\ item[i].phase = "free" /\ stopping = "no" /\ accepting
    /\ viewer[v].life = "active" /\ viewer[v].epoch = epoch /\ ~viewer[v].muted
    /\ item' = [item EXCEPT ![i] = [phase |-> "built", viewer |-> v, epoch |-> epoch,
                                    presence |-> viewer[v].presence,
                                    moderation |-> viewer[v].moderation,
                                    base |-> viewer[v].sequence, sequence |-> 0]]
    /\ UNCHANGED <<fence, effect, seen, room, caller, apply, stopping, toEnd>>

\* The sequence ViewerRuntime proposes, and the one the fence expects.
Proposed(w) == (IF seen[w.viewer].epoch = w.epoch THEN seen[w.viewer].sequence ELSE w.base) + 1
Expected(v) == (IF claims[v] = None THEN viewer[v].sequence ELSE claims[v]) + 1

Grants(w, n) ==
    /\ accepting /\ w.epoch = epoch /\ viewer[w.viewer].life = "active"
    /\ n = Expected(w.viewer)

\* Fault: ViewerRuntime forgets to remember the sequence it was granted.
ClaimForgotten(i) ==
    LET w == item[i]
        n == Proposed(w)
    IN /\ w.phase = "built" /\ effect = None
       /\ n <= MaxSequence
       /\ IF Grants(w, n)
          THEN /\ claims' = [claims EXCEPT ![w.viewer] = n]
               /\ issued' = [issued EXCEPT ![w.viewer] = @ \cup {n}]
               /\ item' = [item EXCEPT ![i].phase = "claimed", ![i].sequence = n]
               /\ UNCHANGED seen
          ELSE /\ item' = [item EXCEPT ![i] = FreeItem]
               /\ UNCHANGED <<claims, issued, seen>>
       /\ UNCHANGED <<epoch, population, accepting, target, viewer, ordinal, effect, room,
                      caller, apply, stopping, toEnd>>

\* _claim_item_sequence_to_completion with claim_viewer_sequence: one step, because the
\* fence's locks and the runtime's are held together.
Claim(i) ==
    LET w == item[i]
        n == Proposed(w)
    IN /\ w.phase = "built" /\ effect = None
       /\ n <= MaxSequence
       /\ IF Grants(w, n)
          THEN /\ claims' = [claims EXCEPT ![w.viewer] = n]
               /\ issued' = [issued EXCEPT ![w.viewer] = @ \cup {n}]
               /\ item' = [item EXCEPT ![i].phase = "claimed", ![i].sequence = n]
               /\ seen' = [seen EXCEPT ![w.viewer] = [epoch |-> w.epoch, sequence |-> n]]
          ELSE /\ item' = [item EXCEPT ![i] = FreeItem]
               /\ UNCHANGED <<claims, issued, seen>>
       /\ UNCHANGED <<epoch, population, accepting, target, viewer, ordinal, effect, room,
                      caller, apply, stopping, toEnd>>

\* execute_if_accepting takes the effect lock and finds the item acceptable.
BeginEffect(i, kind) ==
    /\ effect = None /\ stopping = "no"
    /\ item[i].phase = IF kind = "behaviour" THEN "published" ELSE "claimed"
    /\ Accepts(item[i])
    /\ effect' = [item |-> i, kind |-> kind]
    /\ UNCHANGED <<fence, seen, item, room, caller, apply, stopping, toEnd>>

\* The operation ends: a barrage is appended, or the viewer's own state takes the
\* sequence (record_published, record_silence), or the store refuses.
EndEffect ==
    /\ effect # None
    /\ effect' = None
    /\ LET w == item[effect.item] IN
       \/ /\ effect.kind = "publish"
          /\ room' = room \cup {Token(w)}
          /\ item' = [item EXCEPT ![effect.item].phase = "published"]
          /\ UNCHANGED viewer
       \/ /\ effect.kind # "publish"
          /\ viewer' = [viewer EXCEPT ![w.viewer].sequence = IF @ < w.sequence THEN w.sequence ELSE @]
          /\ item' = [item EXCEPT ![effect.item] = FreeItem]
          /\ UNCHANGED room
       \/ /\ item' = [item EXCEPT ![effect.item] = FreeItem]
          /\ UNCHANGED <<viewer, room>>
    /\ UNCHANGED <<epoch, population, accepting, target, ordinal, claims, issued, seen,
                   caller, apply, stopping, toEnd>>

\* The provider fails, the item expires, the fence turns it away, or cancel_viewer removes it.
DropItem(i) ==
    /\ item[i].phase # "free"
    /\ effect # None => effect.item # i
    /\ item' = [item EXCEPT ![i] = FreeItem]
    /\ UNCHANGED <<fence, effect, seen, room, caller, apply, stopping, toEnd>>

---------------------------------------------------------------------------
(* ViewerAudienceService.                                                  *)

Elsewhere == UNCHANGED <<runtime, apply, stopping, toEnd>>
Becomes(c, r) == caller' = [caller EXCEPT ![c] = r]
CallerEnds(c) == Becomes(c, IdleCaller)

\* mute: the sentence may be renewed; each one moves the moderation revision.
Mute(c, v) ==
    /\ caller[c].pc = "idle" /\ viewer[v].life = "active"
    /\ UpdateViewer(v, [viewer[v] EXCEPT !.muted = TRUE, !.moderation = @ + 1])
    /\ Elsewhere /\ UNCHANGED caller

\* unmute: lifting a sentence that is over still counts as a population change.
Unmuted(v) == IF viewer[v].muted
              THEN [viewer[v] EXCEPT !.muted = FALSE, !.moderation = @ + 1]
              ELSE viewer[v]

Unmute(c, v) ==
    /\ caller[c].pc = "idle" /\ viewer[v].life = "active"
    /\ UpdateViewer(v, Unmuted(v))
    /\ Elsewhere /\ UNCHANGED caller

\* kick, which then reconciles the population.
Kick(c, v) ==
    /\ caller[c].pc = "idle" /\ viewer[v].life = "active"
    /\ UpdateViewer(v, [viewer[v] EXCEPT !.life = "kicked", !.muted = FALSE,
                                         !.presence = @ + 1, !.moderation = @ + 1])
    /\ Becomes(c, [IdleCaller EXCEPT !.pc = "look"])
    /\ Elsewhere

\* current (a GET) or a wave enters reconcile_population; `due' are the sentences that
\* _expire_mutes found to be over.
Reconcile(c, due, wave) ==
    /\ caller[c].pc = "idle"
    /\ due \subseteq {v \in Active(viewer) : viewer[v].muted}
    /\ wave => stopping = "no"
    /\ Becomes(c, [IdleCaller EXCEPT !.pc = "expire", !.todo = due, !.wave = wave])
    /\ UNCHANGED fence /\ Elsewhere

\* _expire_mutes lifts one sentence; a viewer gone in the meantime ends the request.
ExpireMute(c) ==
    /\ caller[c].pc = "expire"
    /\ IF caller[c].todo = {}
       THEN Becomes(c, [caller[c] EXCEPT !.pc = "look"]) /\ UNCHANGED fence
       ELSE \E v \in caller[c].todo :
            IF viewer[v].life = "active"
            THEN UpdateViewer(v, Unmuted(v)) /\ Becomes(c, [caller[c] EXCEPT !.todo = @ \ {v}])
            ELSE CallerEnds(c) /\ UNCHANGED fence
    /\ Elsewhere

\* The first snapshot fixes the Mode's viewer_count and who may come back; nothing is
\* done when the population is complete.  A wave then draws who leaves.
AfterReconcile(c) == IF caller[c].wave THEN [IdleCaller EXCEPT !.pc = "leave"] ELSE IdleCaller

Look(c) ==
    LET missing == Missing(viewer, target)
        gone == {v \in Viewers : viewer[v].life = "left"}
    IN /\ caller[c].pc = "look"
       /\ \/ ~accepting /\ CallerEnds(c)
          \/ accepting /\ missing = 0 /\ Becomes(c, AfterReconcile(c))
          \/ /\ accepting /\ missing > 0
             /\ \E back \in SUBSET gone :
                  /\ Cardinality(back) = missing \/ (Cardinality(back) < missing /\ back = gone)
                  /\ Becomes(c, [caller[c] EXCEPT !.pc = "rejoin", !.todo = back, !.want = target])
       /\ UNCHANGED fence /\ Elsewhere

\* _rejoin: one who is no longer away is left alone, and still counted as back.
Rejoined(v) == IF viewer[v].life = "left"
               THEN [viewer[v] EXCEPT !.life = "active", !.presence = @ + 1]
               ELSE viewer[v]

Rejoin(c) ==
    /\ caller[c].pc = "rejoin"
    /\ IF caller[c].todo = {}
       THEN Becomes(c, [caller[c] EXCEPT !.pc = "count"]) /\ UNCHANGED fence
       ELSE \E v \in caller[c].todo :
            IF viewer[v].life = "dropped"
            THEN CallerEnds(c) /\ UNCHANGED fence
            ELSE UpdateViewer(v, Rejoined(v)) /\ Becomes(c, [caller[c] EXCEPT !.todo = @ \ {v}])
    /\ Elsewhere

\* A snapshot of the pool, and create_replacement from it.  The count is taken once and
\* then kept by hand; create_replacement refuses when the pool it sees is complete.
Count(c) ==
    LET count == IF caller[c].count = None THEN Cardinality(Active(viewer)) ELSE caller[c].count + 1
    IN /\ caller[c].pc = "count"
       /\ \/ count >= caller[c].want /\ Becomes(c, AfterReconcile(c))
          \/ /\ count < caller[c].want
             /\ IF ordinal > MaxOrdinal \/ Missing(viewer, target) = 0
                THEN CallerEnds(c)
                ELSE Becomes(c, [caller[c] EXCEPT !.pc = "add", !.viewer = ordinal,
                                                  !.count = count, !.born = epoch])
       /\ UNCHANGED fence /\ Elsewhere

\* add_viewer with the replacement created a moment ago.
Add(c) ==
    /\ caller[c].pc = "add"
    /\ IF viewer[caller[c].viewer].life = "absent"
       THEN /\ AddViewer(caller[c].viewer, caller[c].born)
            /\ Becomes(c, [caller[c] EXCEPT !.pc = "count"])
       ELSE CallerEnds(c) /\ UNCHANGED fence
    /\ Elsewhere

\* _maybe_leave of a wave: the draw, then the update, which is skipped for a viewer no
\* longer active.
Leave(c) ==
    /\ caller[c].pc = "leave"
    /\ \/ CallerEnds(c)
       \/ /\ Cardinality(Active(viewer)) > 1
          /\ \E v \in Active(viewer) :
                Becomes(c, [caller[c] EXCEPT !.pc = "leaving", !.viewer = v])
    /\ UNCHANGED fence /\ Elsewhere

Leaving(c) ==
    LET v == caller[c].viewer IN
    /\ caller[c].pc = "leaving"
    /\ IF viewer[v].life = "dropped"
       THEN UNCHANGED fence
       ELSE UpdateViewer(v, IF viewer[v].life = "active"
                            THEN [viewer[v] EXCEPT !.life = "left", !.muted = FALSE, !.presence = @ + 1]
                            ELSE viewer[v])
    /\ CallerEnds(c)
    /\ Elsewhere

\* The database refuses the write, or the client goes away.
CallerFails(c) ==
    /\ caller[c].pc # "idle"
    /\ CallerEnds(c)
    /\ UNCHANGED fence /\ Elsewhere

---------------------------------------------------------------------------
(* Hot update and end of the session.                                      *)

\* runtime_session_service.apply takes a snapshot of the audience and computes the
\* next pool from it; it does not ask whether the session is still running.
\* One that could only fail for the bounds of the model is not started.
BeginApply(t) ==
    /\ apply = None /\ epoch < MaxEpoch /\ population < MaxPopulation
    /\ apply' = [population |-> population, epoch |-> epoch, target |-> t, ordinal |-> ordinal,
                 viewer |-> viewer]
    /\ UNCHANGED <<fence, runtime, caller, stopping, toEnd>>

\* viewer_pool_service.reconcile: keep the first t active viewers, drop the others, add
\* new ordinals; viewers that are not active stay as they are.
Kept(pool, t) == {v \in Active(pool) : Cardinality({w \in Active(pool) : w <= v}) <= t}
Added(pool, t, next) == next..(next + Missing(pool, t) - 1)

\* The pool of the next epoch, normalised to the claims by _replace_state_locked.
NextPool(pool, t, next, e) ==
    [v \in Viewers |->
        IF v \in Added(pool, t, next) THEN NewViewer(e)
        ELSE IF pool[v].life \in {"absent", "dropped"} THEN pool[v]
        ELSE IF pool[v].life = "active" /\ v \notin Kept(pool, t)
        THEN [pool[v] EXCEPT !.life = "dropped"]
        ELSE [pool[v] EXCEPT !.epoch = e,
                             !.sequence = IF claims[v] = None THEN @ ELSE claims[v]]]

InPool(pool) == {v \in Viewers : pool[v].life \notin {"absent", "dropped"}}

\* Fault: nobody compares the population revision the update started from.
CommitApplyBlindly ==
    /\ apply # None /\ effect = None /\ apply.epoch = epoch
    /\ epoch < MaxEpoch /\ population < MaxPopulation
    /\ ordinal' = apply.ordinal + Missing(apply.viewer, apply.target)
    /\ ordinal' <= MaxOrdinal + 1
    /\ viewer' = NextPool(apply.viewer, apply.target, apply.ordinal, apply.epoch + 1)
    /\ claims' = [v \in Viewers |-> IF v \in InPool(viewer') THEN viewer'[v].sequence ELSE None]
    /\ issued' = [v \in Viewers |-> {}]
    /\ epoch' = apply.epoch + 1 /\ population' = population + 1
    /\ target' = apply.target /\ accepting' = TRUE
    /\ apply' = None
    /\ UNCHANGED <<runtime, caller, stopping, toEnd>>

\* replace_after with commit_revision: the population revision must be the one the
\* update started from, in the database and in memory.
CommitApply ==
    /\ apply # None /\ effect = None
    /\ apply.epoch = epoch /\ apply.population = population
    /\ epoch < MaxEpoch /\ population < MaxPopulation
    /\ ordinal' = apply.ordinal + Missing(apply.viewer, apply.target)
    /\ ordinal' <= MaxOrdinal + 1
    /\ viewer' = NextPool(apply.viewer, apply.target, apply.ordinal, apply.epoch + 1)
    /\ claims' = [v \in Viewers |-> IF v \in InPool(viewer') THEN viewer'[v].sequence ELSE None]
    /\ issued' = [v \in Viewers |-> {}]
    /\ epoch' = apply.epoch + 1 /\ population' = apply.population + 1
    /\ target' = apply.target /\ accepting' = TRUE
    /\ apply' = None
    /\ UNCHANGED <<runtime, caller, stopping, toEnd>>

\* The update is refused by the probe, by the compare-and-set or by the database.
ApplyFails ==
    /\ apply # None
    /\ apply' = None
    /\ UNCHANGED <<fence, runtime, caller, stopping, toEnd>>

\* Resources stop in reverse order: ViewerRuntime first, which cancels its work, waits
\* for it and forgets its counters ...
StopRuntime ==
    /\ stopping = "no" /\ effect = None
    /\ stopping' = "runtime"
    /\ item' = [i \in Items |-> FreeItem]
    /\ seen' = [v \in Viewers |-> [epoch |-> 0, sequence |-> 0]]
    /\ UNCHANGED <<fence, effect, room, caller, apply, toEnd>>

\* ... then ViewerAudienceService, which ends the viewers of one snapshot ...
StopAudience ==
    /\ stopping = "runtime"
    /\ stopping' = "viewers"
    /\ toEnd' = {v \in Viewers : viewer[v].life \in {"active", "left", "kicked"}}
    /\ UNCHANGED <<fence, runtime, caller, apply>>

\* ... one after the other; a viewer that left the pool makes the resource give up.
EndViewer ==
    /\ stopping = "viewers"
    /\ \E v \in toEnd :
          /\ viewer[v].life # "dropped"
          /\ UpdateViewer(v, [viewer[v] EXCEPT !.life = "ended", !.muted = FALSE, !.presence = @ + 1])
          /\ toEnd' = toEnd \ {v}
    /\ UNCHANGED <<runtime, caller, apply, stopping>>

\* It gives up as well when the database refuses; the other resources still stop.
EndViewerFails ==
    /\ stopping = "viewers" /\ toEnd # {}
    /\ stopping' = "gaveup" /\ toEnd' = {}
    /\ UNCHANGED <<fence, runtime, caller, apply>>

\* ... and RuntimeStateStore last, which closes the fence.
StopFence ==
    /\ effect = None
    /\ \/ stopping = "viewers" /\ toEnd = {} /\ stopping' = "done"
       \/ stopping = "gaveup" /\ stopping' = "failed"
    /\ accepting' = FALSE
    /\ claims' = [v \in Viewers |-> None]
    /\ issued' = [v \in Viewers |-> {}]
    /\ UNCHANGED <<epoch, population, target, viewer, ordinal, runtime, caller, apply, toEnd>>

---------------------------------------------------------------------------
Next ==
    \/ \E i \in Items :
        \/ \E v \in Viewers : Dispatch(i, v)
        \/ Claim(i)
        \/ \E kind \in {"publish", "silence", "behaviour"} : BeginEffect(i, kind)
        \/ DropItem(i)
    \/ EndEffect
    \/ \E c \in Callers :
        \/ \E v \in Viewers : Mute(c, v) \/ Unmute(c, v) \/ Kick(c, v)
        \/ \E due \in SUBSET Viewers, wave \in BOOLEAN : Reconcile(c, due, wave)
        \/ ExpireMute(c) \/ Look(c) \/ Rejoin(c) \/ Count(c) \/ Add(c)
        \/ Leave(c) \/ Leaving(c) \/ CallerFails(c)
    \/ \E t \in Targets : BeginApply(t)
    \/ CommitApply \/ ApplyFails
    \/ StopRuntime \/ StopAudience \/ EndViewer \/ EndViewerFails \/ StopFence

Spec == Init /\ [][Next]_vars

---------------------------------------------------------------------------
(* Properties.                                                             *)

\* A result reaches the Room only while its epoch, its viewer's presence and moderation
\* revisions and its issued sequence are the current ones: no mute, kick, leave, hot
\* update or stop slips between the fence's check and the durable append.
EffectsAreFenced ==
    [][\A i \in Items :
          room' # room /\ item[i].phase = "claimed" /\ item'[i].phase = "published"
             => Accepts(item[i])]_vars

\* One claimed sequence carries one result: two live work items never hold the same
\* viewer, epoch and sequence, and an unpublished one is not in the Room already, even
\* though leaving forgets the fence's claims.
OneTokenOneResult ==
    \A i \in Items : item[i].phase \in {"claimed", "published"} =>
        /\ item[i].phase = "claimed" => Token(item[i]) \notin room
        /\ \A j \in Items \ {i} :
               item[j].phase \in {"claimed", "published"} => Token(item[i]) # Token(item[j])

\* A viewer that was kicked, dropped by a smaller Mode or ended does not come back in this
\* session, whatever reconciliation, wave or hot update still holds an older snapshot.
IdentityNeverReturns ==
    [][\A v \in Viewers : viewer[v].life \in {"kicked", "dropped", "ended"}
          => viewer'[v].life \in {"kicked", "dropped", "ended"}]_vars

---------------------------------------------------------------------------
(* Check and effect are two steps here; seen from the Room they are one.   *)

Place(life) ==
    CASE life = "absent" -> "new"
      [] life = "active" -> "in"
      [] life = "left"   -> "away"
      [] OTHER           -> "gone"

Standing(r) == [life |-> Place(r.life), muted |-> r.muted,
                presence |-> r.presence, moderation |-> r.moderation]

Question(w) == IF w.phase = "free" THEN {}
               ELSE {[viewer |-> w.viewer, epoch |-> w.epoch, said |-> w.phase = "published",
                      presence |-> w.presence, moderation |-> w.moderation]}

Atomic == INSTANCE AtomicFence
    WITH open <- accepting,
         standing <- [v \in Viewers |-> Standing(viewer[v])],
         work <- [i \in Items |-> Question(item[i])],
         Sequences <- 0..MaxSequence

\* A result appears as if the fence had checked it at that very moment, although the check
\* and the write are apart and mutes, departures, hot updates and the end of the session
\* are refused or wait in between: AudienceFence implements AtomicFence.  The fence looks at
\* revisions and not at sentences, so this rests on every mute and every lifting of one
\* moving a revision, in whatever order requests and hot updates arrive.
ResultsAreAtomic == Atomic!Spec

==============================================================================
