----------------------------- MODULE AtomicFence -----------------------------
(***************************************************************************)
(* What the audience may rely on when models answer for its viewers:       *)
(* asking a viewer and hearing it are two moments, with anything between   *)
(* them, but an answer appears in the Room in one indivisible step, and    *)
(* only if nothing has happened to the viewer since it was asked.  It was  *)
(* neither muted nor unmuted, has not left, not even to come back, the     *)
(* audience is still the same one and its results are still wanted.  Each  *)
(* question is answered once at most.                                      *)
(***************************************************************************)
EXTENDS Naturals

CONSTANTS Viewers, Items, Sequences

VARIABLES open,      \* results are wanted
          epoch,     \* which audience this is
          standing,  \* of each viewer
          work,      \* what each item is working on: one question or none
          room       \* the answers that appeared: whose, of which audience, the number

vars == <<open, epoch, standing, work, room>>

Unborn   == [life |-> "new", presence |-> 0, moderation |-> 0, muted |-> FALSE]
Newcomer == [life |-> "in",  presence |-> 1, moderation |-> 1, muted |-> FALSE]

\* What may become of a viewer: its revisions grow, and whatever would change whether it
\* may speak shows in one of them; who is gone stays away for good.
Later(old, new) ==
    /\ old.presence <= new.presence /\ old.moderation <= new.moderation
    /\ old.muted # new.muted => old.presence < new.presence \/ old.moderation < new.moderation
    /\ old.life # "in" /\ new.life = "in" => old.presence < new.presence
    /\ old.life = "gone" => new.life = "gone"
    /\ new.life = "new" => old.life = "new"

Init ==
    /\ open = TRUE /\ epoch = 1
    /\ standing \in [Viewers -> {Unborn, Newcomer}]
    /\ work = [i \in Items |-> {}]
    /\ room = {}

Ask(i, v) ==
    /\ open /\ work[i] = {}
    /\ standing[v].life = "in" /\ ~standing[v].muted
    /\ work' = [work EXCEPT ![i] = {[viewer |-> v, epoch |-> epoch, said |-> FALSE,
                                     presence |-> standing[v].presence,
                                     moderation |-> standing[v].moderation]}]
    /\ UNCHANGED <<open, epoch, standing, room>>

Publish(i) ==
    \E w \in work[i], n \in Sequences :
        /\ open /\ w.epoch = epoch /\ ~w.said
        /\ standing[w.viewer] = [life |-> "in", muted |-> FALSE,
                                 presence |-> w.presence, moderation |-> w.moderation]
        /\ <<w.viewer, epoch, n>> \notin room
        /\ room' = room \cup {<<w.viewer, epoch, n>>}
        /\ work' = [work EXCEPT ![i] = {[w EXCEPT !.said = TRUE]}]
        /\ UNCHANGED <<open, epoch, standing>>

\* Silence, a failure, a cancellation; the end of the session drops everything at once.
Drop(items) ==
    /\ work' = [i \in Items |-> IF i \in items THEN {} ELSE work[i]]
    /\ UNCHANGED <<open, epoch, standing, room>>

\* One viewer comes, goes, is muted or heard again.
Move(v) ==
    /\ \A u \in Viewers \ {v} : standing'[u] = standing[u]
    /\ Later(standing[v], standing'[v])
    /\ UNCHANGED <<open, epoch, work, room>>

\* A hot update makes another audience of this one.
Renew ==
    /\ epoch' = epoch + 1 /\ open'
    /\ \A v \in Viewers : Later(standing[v], standing'[v])
    /\ UNCHANGED <<work, room>>

Close ==
    /\ open' = FALSE
    /\ UNCHANGED <<epoch, standing, work, room>>

Next ==
    \/ \E i \in Items : Publish(i) \/ \E v \in Viewers : Ask(i, v)
    \/ \E items \in SUBSET Items : Drop(items)
    \/ \E v \in Viewers : Move(v)
    \/ Renew \/ Close

Spec == Init /\ [][Next]_vars
=============================================================================
