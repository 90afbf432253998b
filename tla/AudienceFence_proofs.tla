-------------------------- MODULE AudienceFence_proofs --------------------------
(***************************************************************************)
(* Proofs about AudienceFence, for any bounds and any sets of callers and  *)
(* work items: types, the fence around durable effects, the uniqueness of  *)
(* claimed sequences and the finality of leaving the audience.             *)
(***************************************************************************)
EXTENDS AudienceFence, FiniteSetTheorems, TLAPS

\* A count of viewers is a natural number.
LEMMA ActiveCount ==
  ASSUME NEW pool PROVE Cardinality(Active(pool)) \in Nat
<1>1. MaxOrdinal \in Nat
  BY BoundsAssumption
<1>2. IsFiniteSet(Viewers)
  BY <1>1, FS_Interval DEF Viewers
<1>3. IsFiniteSet(Active(pool))
  BY <1>2, FS_Subset DEF Active
<1>4. QED BY <1>3, FS_CardinalityType

LEMMA MissingCount ==
  ASSUME NEW pool, NEW t \in Nat PROVE Missing(pool, t) \in Nat
<1>1. Cardinality(Active(pool)) \in Nat
  BY ActiveCount
<1>2. QED BY <1>1 DEF Missing

\* update_viewer and add_viewer keep the fence well formed.
LEMMA UpdateTyped ==
  ASSUME FenceOK, NEW v \in Viewers, NEW new \in ViewerRec, UpdateViewer(v, new)
  PROVE  FenceOK'
<1>1. /\ epoch' \in Nat /\ population' \in Nat /\ target' \in Nat /\ accepting' \in BOOLEAN
      /\ ordinal' \in Nat \ {0} /\ viewer' \in [Viewers -> ViewerRec]
  BY DEF FenceOK, UpdateViewer
<1>2. claims' \in [Viewers -> Nat \cup {None}] /\ issued' \in [Viewers -> SUBSET Nat]
  BY DEF FenceOK, UpdateViewer
<1>3. ASSUME NEW u \in Viewers, issued'[u] # {} PROVE accepting' /\ viewer'[u].life = "active"
  BY <1>3 DEF FenceOK, UpdateViewer
<1>4. QED BY <1>1, <1>2, <1>3 DEF FenceOK

LEMMA AddTyped ==
  ASSUME FenceOK, NEW v \in Viewers, NEW e \in Nat, AddViewer(v, e)
  PROVE  FenceOK'
<1>1. NewViewer(e) \in ViewerRec
  BY DEF NewViewer, ViewerRec, Lives
<1>2. v + 1 \in Nat \ {0}
  BY BoundsAssumption DEF Viewers
<1>3. /\ epoch' \in Nat /\ population' \in Nat /\ target' \in Nat /\ accepting' \in BOOLEAN
      /\ ordinal' \in Nat \ {0} /\ viewer' \in [Viewers -> ViewerRec]
      /\ claims' \in [Viewers -> Nat \cup {None}] /\ issued' \in [Viewers -> SUBSET Nat]
  BY <1>1, <1>2 DEF FenceOK, AddViewer
<1>4. ASSUME NEW u \in Viewers, issued'[u] # {} PROVE accepting' /\ viewer'[u].life = "active"
  BY <1>4 DEF FenceOK, AddViewer
<1>5. QED BY <1>3, <1>4 DEF FenceOK

LEMMA FenceKept ==
  ASSUME FenceOK, UNCHANGED fence PROVE FenceOK'
BY DEF FenceOK, fence

LEMMA RuntimeKept ==
  ASSUME RuntimeOK, UNCHANGED runtime PROVE RuntimeOK'
BY DEF RuntimeOK, runtime

\* The records the operations write are well formed.
LEMMA ViewerChanges ==
  ASSUME FenceOK, NEW v \in Viewers
  PROVE  /\ viewer[v] \in ViewerRec
         /\ Unmuted(v) \in ViewerRec
         /\ Rejoined(v) \in ViewerRec
         /\ [viewer[v] EXCEPT !.muted = TRUE, !.moderation = @ + 1] \in ViewerRec
         /\ [viewer[v] EXCEPT !.life = "kicked", !.muted = FALSE,
                              !.presence = @ + 1, !.moderation = @ + 1] \in ViewerRec
         /\ [viewer[v] EXCEPT !.life = "left", !.muted = FALSE, !.presence = @ + 1] \in ViewerRec
         /\ [viewer[v] EXCEPT !.life = "ended", !.muted = FALSE, !.presence = @ + 1] \in ViewerRec
<1>1. viewer[v] \in ViewerRec
  BY DEF FenceOK
<1>2. viewer[v].presence + 1 \in Nat /\ viewer[v].moderation + 1 \in Nat
  BY <1>1 DEF ViewerRec
<1>3. \A p, m \in Nat, l \in Lives, b \in BOOLEAN :
        /\ [viewer[v] EXCEPT !.muted = b, !.moderation = m] \in ViewerRec
        /\ [viewer[v] EXCEPT !.life = l, !.presence = p] \in ViewerRec
        /\ [viewer[v] EXCEPT !.life = l, !.muted = b, !.presence = p, !.moderation = m] \in ViewerRec
        /\ [viewer[v] EXCEPT !.life = l, !.muted = b, !.presence = p] \in ViewerRec
  BY <1>1 DEF ViewerRec
<1>4. "kicked" \in Lives /\ "left" \in Lives /\ "ended" \in Lives /\ "active" \in Lives
  BY DEF Lives
<1>5. QED BY <1>1, <1>2, <1>3, <1>4 DEF Unmuted, Rejoined

LEMMA IdleTyped ==
  /\ IdleCaller \in CallerRec
  /\ [IdleCaller EXCEPT !.pc = "look"] \in CallerRec
  /\ [IdleCaller EXCEPT !.pc = "leave"] \in CallerRec
  /\ FreeItem \in ItemRec
BY DEF IdleCaller, CallerRec, FreeItem, ItemRec

LEMMA BecomesTyped ==
  ASSUME CallersOK, NEW c \in Callers, NEW r \in CallerRec, Becomes(c, r) PROVE CallersOK'
BY DEF CallersOK, Becomes

---------------------------------------------------------------------------
\* The pool a hot update commits is well formed.
LEMMA NextPoolTyped ==
  ASSUME TypeOK, apply # None, NEW v \in Viewers
  PROVE  NextPool(apply.viewer, apply.target, apply.ordinal, apply.epoch + 1)[v] \in ViewerRec
<1>1. apply \in ApplyRec
  BY DEF TypeOK
<1>2. apply.viewer[v] \in ViewerRec /\ apply.epoch + 1 \in Nat
  BY <1>1 DEF ApplyRec
<1>3. NewViewer(apply.epoch + 1) \in ViewerRec
  BY <1>2 DEF NewViewer, ViewerRec, Lives
<1>4. [apply.viewer[v] EXCEPT !.life = "dropped"] \in ViewerRec
  BY <1>2 DEF ViewerRec, Lives
<1>5. claims[v] = None \/ claims[v] \in Nat
  BY DEF TypeOK, FenceOK
<1>6. \A e, n \in Nat : [apply.viewer[v] EXCEPT !.epoch = e, !.sequence = n] \in ViewerRec
  BY <1>2 DEF ViewerRec
<1>7. apply.viewer[v].sequence \in Nat
  BY <1>2 DEF ViewerRec
<1>8. [apply.viewer[v] EXCEPT !.epoch = apply.epoch + 1,
                              !.sequence = IF claims[v] = None THEN @ ELSE claims[v]] \in ViewerRec
  <2>1. CASE claims[v] = None
    BY <2>1, <1>2, <1>6, <1>7
  <2>2. CASE claims[v] # None
    BY <2>2, <1>2, <1>5, <1>6
  <2>3. QED BY <2>1, <2>2
<1>9. QED BY <1>2, <1>3, <1>4, <1>8 DEF NextPool

\* Type correctness of the store, the runtime's bookkeeping and the requests.
THEOREM TypeCorrect == Spec => []TypeOK
<1>1. Init => TypeOK
  <2> SUFFICES ASSUME Init PROVE TypeOK
    OBVIOUS
  <2> USE DEF Init
  <2>1. NewViewer(1) \in ViewerRec /\ NoViewer \in ViewerRec
    BY DEF NewViewer, NoViewer, ViewerRec, Lives
  <2>2. FenceOK
    BY <2>1, BoundsAssumption DEF FenceOK
  <2>3. RuntimeOK /\ CallersOK
    BY IdleTyped DEF RuntimeOK, CallersOK
  <2>4. QED BY <2>2, <2>3 DEF TypeOK
<1>2. TypeOK /\ [Next]_vars => TypeOK'
  <2> SUFFICES ASSUME TypeOK, [Next]_vars PROVE TypeOK'
    OBVIOUS
  <2>a. FenceOK /\ RuntimeOK /\ CallersOK
    BY DEF TypeOK
  <2> USE NoneAssumption
  <2>1. ASSUME NEW i \in Items, NEW v \in Viewers, Dispatch(i, v) PROVE TypeOK'
    <3>1. [phase |-> "built", viewer |-> v, epoch |-> epoch, presence |-> viewer[v].presence,
           moderation |-> viewer[v].moderation, base |-> viewer[v].sequence,
           sequence |-> 0] \in ItemRec
      <4>1. viewer[v] \in ViewerRec /\ epoch \in Nat
        BY <2>a DEF FenceOK
      <4>2. QED BY <4>1 DEF ViewerRec, ItemRec
    <3>2. RuntimeOK'
      BY <2>a, <2>1, <3>1 DEF RuntimeOK, Dispatch
    <3>3. QED BY <2>1, <2>a, <3>2, FenceKept DEF TypeOK, Dispatch, CallersOK
  <2>2. ASSUME NEW i \in Items, Claim(i) PROVE TypeOK'
    <3>1. item[i] \in ItemRec /\ item[i].phase = "built" /\ item[i].viewer \in Viewers
      BY <2>a, <2>2 DEF RuntimeOK, ItemRec, Claim
    <3>2. Proposed(item[i]) \in Nat
      <4>1. /\ item[i].base \in Nat /\ item[i].epoch \in Nat
            /\ seen[item[i].viewer] \in [epoch : Nat, sequence : Nat]
        BY <3>1, <2>a DEF ItemRec, RuntimeOK
      <4>2. QED BY <4>1 DEF Proposed
    <3>3. \A n \in Nat : [item[i] EXCEPT !.phase = "claimed", !.sequence = n] \in ItemRec
      BY <3>1 DEF ItemRec
    <3>4. item[i].epoch \in Nat
      BY <3>1 DEF ItemRec
    <3>5. CASE Grants(item[i], Proposed(item[i]))
      <4>1. item' = [item EXCEPT ![i] = [item[i] EXCEPT !.phase = "claimed",
                                                        !.sequence = Proposed(item[i])]]
        BY <2>2, <2>a, <3>5 DEF Claim, RuntimeOK
      <4>2. RuntimeOK'
        <5>1. item' \in [Items -> ItemRec]
          BY <2>a, <3>2, <3>3, <4>1 DEF RuntimeOK
        <5>2. seen' \in [Viewers -> [epoch : Nat, sequence : Nat]]
          BY <2>a, <2>2, <3>2, <3>4, <3>5 DEF RuntimeOK, Claim
        <5>3. QED BY <2>a, <2>2, <5>1, <5>2 DEF RuntimeOK, Claim
      <4>3. FenceOK'
        <5>1. claims' \in [Viewers -> Nat \cup {None}] /\ issued' \in [Viewers -> SUBSET Nat]
          BY <2>a, <2>2, <3>1, <3>2, <3>5 DEF FenceOK, Claim
        <5>2. ASSUME NEW u \in Viewers, issued'[u] # {}
              PROVE  accepting' /\ viewer'[u].life = "active"
          BY <2>a, <2>2, <3>1, <3>5, <5>2 DEF FenceOK, Claim, Grants
        <5>3. QED BY <2>a, <2>2, <5>1, <5>2 DEF FenceOK, Claim
      <4>4. QED BY <2>2, <2>a, <4>2, <4>3 DEF TypeOK, Claim, CallersOK
    <3>6. CASE ~Grants(item[i], Proposed(item[i]))
      <4>1. RuntimeOK' /\ UNCHANGED fence
        BY <2>a, <2>2, <3>6, IdleTyped DEF RuntimeOK, Claim, fence
      <4>2. QED BY <2>2, <2>a, <4>1, FenceKept DEF TypeOK, Claim, CallersOK
    <3>7. QED BY <3>5, <3>6
  <2>3. ASSUME NEW i \in Items, NEW kind \in {"publish", "silence", "behaviour"},
               BeginEffect(i, kind)
        PROVE  TypeOK'
    <3>1. RuntimeOK'
      BY <2>a, <2>3 DEF RuntimeOK, BeginEffect, EffectRec
    <3>2. QED BY <2>3, <2>a, <3>1, FenceKept DEF TypeOK, BeginEffect, CallersOK
  <2>4. ASSUME NEW i \in Items, DropItem(i) PROVE TypeOK'
    <3>1. RuntimeOK'
      BY <2>a, <2>4, IdleTyped DEF RuntimeOK, DropItem
    <3>2. QED BY <2>4, <2>a, <3>1, FenceKept DEF TypeOK, DropItem, CallersOK
  <2>5. CASE EndEffect
    <3> DEFINE i == effect.item
               w == item[i]
    <3>1. i \in Items
      BY <2>a, <2>5 DEF RuntimeOK, EffectRec, EndEffect
    <3>2. w \in ItemRec /\ w.sequence \in Nat /\ w.epoch \in Nat
      BY <2>a, <3>1 DEF RuntimeOK, ItemRec
    <3>3. w.viewer \in Viewers /\ [w EXCEPT !.phase = "published"] \in ItemRec
      BY <2>a, <2>5, <3>1, <3>2 DEF RuntimeOK, ItemRec, EndEffect
    <3>4. room' \subseteq Viewers \X Nat \X Nat
      BY <2>a, <2>5, <3>2, <3>3 DEF RuntimeOK, EndEffect, Token
    <3>5. item' \in [Items -> ItemRec]
      <4>1. item' = [item EXCEPT ![i] = [w EXCEPT !.phase = "published"]]
            \/ item' = [item EXCEPT ![i] = FreeItem]
        BY <2>5, <2>a DEF EndEffect, RuntimeOK
      <4>2. QED BY <2>a, <3>1, <3>3, <4>1, IdleTyped DEF RuntimeOK
    <3>6. RuntimeOK'
      BY <2>a, <2>5, <3>4, <3>5 DEF RuntimeOK, EndEffect
    <3>7. FenceOK'
      <4>1. CASE UNCHANGED viewer
        BY <2>5, <2>a, <4>1 DEF EndEffect, FenceOK
      <4>2. CASE viewer' = [viewer EXCEPT ![w.viewer].sequence = IF @ < w.sequence THEN w.sequence ELSE @]
        <5>1. \A n \in Nat : [viewer[w.viewer] EXCEPT !.sequence = n] \in ViewerRec
          BY <2>a, <3>3 DEF FenceOK, ViewerRec
        <5>2. viewer[w.viewer].sequence \in Nat
          BY <2>a, <3>3 DEF FenceOK, ViewerRec
        <5>3. PICK n \in Nat : viewer' = [viewer EXCEPT ![w.viewer] = [viewer[w.viewer] EXCEPT !.sequence = n]]
          BY <3>2, <4>2, <5>2
        <5>4. viewer' \in [Viewers -> ViewerRec]
          BY <2>a, <5>1, <5>3 DEF FenceOK
        <5>5. \A u \in Viewers : viewer'[u].life = viewer[u].life
          BY <2>a, <3>3, <5>3 DEF FenceOK, ViewerRec
        <5>6. QED BY <2>5, <2>a, <5>4, <5>5 DEF EndEffect, FenceOK
      <4>3. QED BY <2>5, <4>1, <4>2 DEF EndEffect
    <3>8. QED BY <2>a, <2>5, <3>6, <3>7 DEF TypeOK, EndEffect, CallersOK
  <2>6. ASSUME NEW c \in Callers, NEW v \in Viewers, Mute(c, v) \/ Unmute(c, v) \/ Kick(c, v)
        PROVE  TypeOK'
    <3>1. FenceOK'
      BY <2>a, <2>6, ViewerChanges, UpdateTyped DEF Mute, Unmute, Kick
    <3>2. CallersOK'
      BY <2>a, <2>6, IdleTyped, BecomesTyped DEF Mute, Unmute, Kick, CallersOK
    <3>3. RuntimeOK' /\ UNCHANGED <<apply, stopping, toEnd>>
      BY <2>a, <2>6, RuntimeKept DEF Mute, Unmute, Kick, Elsewhere
    <3>4. QED BY <3>1, <3>2, <3>3 DEF TypeOK
  <2>7. ASSUME NEW c \in Callers,
               \/ \E due \in SUBSET Viewers, wave \in BOOLEAN : Reconcile(c, due, wave)
               \/ ExpireMute(c) \/ Look(c) \/ Rejoin(c) \/ Count(c) \/ Add(c)
               \/ Leave(c) \/ Leaving(c) \/ CallerFails(c)
        PROVE  TypeOK'
    <3>0. caller[c] \in CallerRec
      BY <2>a DEF CallersOK
    <3>00. RuntimeOK' /\ UNCHANGED <<apply, stopping, toEnd>>
      BY <2>a, <2>7, RuntimeKept
         DEF Elsewhere, Reconcile, ExpireMute, Look, Rejoin, Count, Add, Leave, Leaving, CallerFails
    <3>1. ASSUME NEW due \in SUBSET Viewers, NEW wave \in BOOLEAN, Reconcile(c, due, wave)
          PROVE  FenceOK' /\ CallersOK'
      <4>1. [IdleCaller EXCEPT !.pc = "expire", !.todo = due, !.wave = wave] \in CallerRec
        BY DEF IdleCaller, CallerRec
      <4>2. QED BY <2>a, <3>1, <4>1, FenceKept, BecomesTyped DEF Reconcile
    <3>2. ASSUME ExpireMute(c) PROVE FenceOK' /\ CallersOK'
      <4>1. \A v \in Viewers : [caller[c] EXCEPT !.todo = @ \ {v}] \in CallerRec
        BY <3>0 DEF CallerRec
      <4>2. [caller[c] EXCEPT !.pc = "look"] \in CallerRec /\ caller[c].todo \subseteq Viewers
        BY <3>0 DEF CallerRec
      <4>3. QED BY <2>a, <3>2, <4>1, <4>2, FenceKept, BecomesTyped, IdleTyped, ViewerChanges, UpdateTyped
                DEF ExpireMute, CallerEnds
    <3>3. ASSUME Look(c) PROVE FenceOK' /\ CallersOK'
      <4>1. \A back \in SUBSET Viewers :
              [caller[c] EXCEPT !.pc = "rejoin", !.todo = back, !.want = target] \in CallerRec
        BY <2>a, <3>0 DEF CallerRec, FenceOK
      <4>2. AfterReconcile(c) \in CallerRec
        BY IdleTyped DEF AfterReconcile
      <4>3. QED BY <2>a, <3>3, <4>1, <4>2, FenceKept, BecomesTyped, IdleTyped DEF Look, CallerEnds
    <3>4. ASSUME Rejoin(c) PROVE FenceOK' /\ CallersOK'
      <4>1. \A v \in Viewers : [caller[c] EXCEPT !.todo = @ \ {v}] \in CallerRec
        BY <3>0 DEF CallerRec
      <4>2. [caller[c] EXCEPT !.pc = "count"] \in CallerRec /\ caller[c].todo \subseteq Viewers
        BY <3>0 DEF CallerRec
      <4>3. QED BY <2>a, <3>4, <4>1, <4>2, FenceKept, BecomesTyped, IdleTyped, ViewerChanges, UpdateTyped
                DEF Rejoin, CallerEnds
    <3>5. ASSUME Count(c) PROVE FenceOK' /\ CallersOK'
      <4> DEFINE count == IF caller[c].count = None THEN Cardinality(Active(viewer))
                          ELSE caller[c].count + 1
      <4>1. count \in Nat
        <5>1. caller[c].count \in Nat \cup {None}
          BY <3>0 DEF CallerRec
        <5>2. Cardinality(Active(viewer)) \in Nat
          BY ActiveCount
        <5>3. QED BY <5>1, <5>2
      <4>2. ordinal <= MaxOrdinal => ordinal \in Viewers
        BY <2>a, BoundsAssumption DEF FenceOK, Viewers
      <4>3. AfterReconcile(c) \in CallerRec
        BY IdleTyped DEF AfterReconcile
      <4>4. \A v \in Viewers, n, e \in Nat :
              [caller[c] EXCEPT !.pc = "add", !.viewer = v, !.count = n, !.born = e] \in CallerRec
        BY <3>0 DEF CallerRec
      <4>5. epoch \in Nat
        BY <2>a DEF FenceOK
      <4>6. ~(ordinal > MaxOrdinal) => ordinal <= MaxOrdinal
        BY <2>a, BoundsAssumption DEF FenceOK
      <4>7. \/ Becomes(c, AfterReconcile(c)) \/ Becomes(c, IdleCaller)
            \/ /\ ordinal \in Viewers
               /\ Becomes(c, [caller[c] EXCEPT !.pc = "add", !.viewer = ordinal,
                                               !.count = count, !.born = epoch])
        BY <3>5, <4>2, <4>6 DEF Count, CallerEnds
      <4>8. CallersOK'
        <5> HIDE DEF count
        <5>1. QED BY <2>a, <4>1, <4>3, <4>4, <4>5, <4>7, BecomesTyped, IdleTyped
      <4>9. QED BY <2>a, <3>5, <4>8, FenceKept DEF Count
    <3>6. ASSUME Add(c) PROVE FenceOK' /\ CallersOK'
      <4>1. caller[c].viewer \in Viewers /\ caller[c].born \in Nat
        BY <3>0, <3>6 DEF CallerRec, Add
      <4>2. [caller[c] EXCEPT !.pc = "count"] \in CallerRec
        BY <3>0 DEF CallerRec
      <4>3. QED BY <2>a, <3>6, <4>1, <4>2, FenceKept, BecomesTyped, IdleTyped, AddTyped
                DEF Add, CallerEnds
    <3>7. ASSUME Leave(c) PROVE FenceOK' /\ CallersOK'
      <4>1. \A v \in Viewers : [caller[c] EXCEPT !.pc = "leaving", !.viewer = v] \in CallerRec
        BY <3>0 DEF CallerRec
      <4>2. QED BY <2>a, <3>7, <4>1, FenceKept, BecomesTyped, IdleTyped DEF Leave, CallerEnds, Active
    <3>8. ASSUME Leaving(c) PROVE FenceOK' /\ CallersOK'
      <4>1. caller[c].viewer \in Viewers
        BY <3>0, <3>8 DEF CallerRec, Leaving
      <4>2. QED BY <2>a, <3>8, <4>1, FenceKept, BecomesTyped, IdleTyped, ViewerChanges, UpdateTyped
                DEF Leaving, CallerEnds
    <3>9. ASSUME CallerFails(c) PROVE FenceOK' /\ CallersOK'
      BY <2>a, <3>9, FenceKept, BecomesTyped, IdleTyped DEF CallerFails, CallerEnds
    <3>10. FenceOK' /\ CallersOK'
      BY <2>7, <3>1, <3>2, <3>3, <3>4, <3>5, <3>6, <3>7, <3>8, <3>9
    <3>11. QED BY <3>00, <3>10, <2>a DEF TypeOK
  <2>8. ASSUME NEW t \in Targets, BeginApply(t) PROVE TypeOK'
    <3>1. apply' \in ApplyRec
      BY <2>a, <2>8, BoundsAssumption DEF BeginApply, ApplyRec, FenceOK
    <3>2. QED BY <2>a, <2>8, <3>1, FenceKept, RuntimeKept DEF TypeOK, BeginApply, CallersOK
  <2>9. CASE CommitApply
    <3>1. apply \in ApplyRec /\ apply # None
      BY <2>9 DEF TypeOK, CommitApply
    <3>2. viewer' \in [Viewers -> ViewerRec]
      <4>1. viewer' = NextPool(apply.viewer, apply.target, apply.ordinal, apply.epoch + 1)
        BY <2>9 DEF CommitApply
      <4>2. QED BY <3>1, <4>1, NextPoolTyped DEF NextPool
    <3>3. epoch' \in Nat /\ population' \in Nat /\ target' \in Nat /\ accepting' \in BOOLEAN
      BY <2>9, <3>1 DEF CommitApply, ApplyRec
    <3>4. ordinal' \in Nat \ {0}
      <4>1. Missing(apply.viewer, apply.target) \in Nat
        BY <3>1, MissingCount DEF ApplyRec
      <4>2. QED BY <2>9, <3>1, <4>1 DEF CommitApply, ApplyRec
    <3>5. claims' \in [Viewers -> Nat \cup {None}] /\ issued' = [v \in Viewers |-> {}]
      BY <2>9, <3>2 DEF CommitApply, ViewerRec
    <3>6. FenceOK'
      BY <3>2, <3>3, <3>4, <3>5 DEF FenceOK
    <3>7. RuntimeOK' /\ CallersOK'
      BY <2>a, <2>9, RuntimeKept DEF CommitApply, CallersOK
    <3>8. QED BY <2>9, <3>6, <3>7 DEF TypeOK, CommitApply
  <2>10. CASE ApplyFails
    BY <2>a, <2>10, FenceKept, RuntimeKept DEF TypeOK, ApplyFails, CallersOK
  <2>11. CASE StopRuntime
    <3>1. RuntimeOK'
      BY <2>a, <2>11, IdleTyped DEF RuntimeOK, StopRuntime
    <3>2. QED BY <2>a, <2>11, <3>1, FenceKept DEF TypeOK, StopRuntime, CallersOK
  <2>12. CASE StopAudience
    BY <2>a, <2>12, FenceKept, RuntimeKept DEF TypeOK, StopAudience, CallersOK
  <2>13. CASE EndViewer
    <3>1. PICK v \in toEnd :
             /\ UpdateViewer(v, [viewer[v] EXCEPT !.life = "ended", !.muted = FALSE, !.presence = @ + 1])
             /\ toEnd' = toEnd \ {v}
      BY <2>13 DEF EndViewer
    <3>2. v \in Viewers
      BY DEF TypeOK
    <3>3. FenceOK'
      BY <2>a, <3>1, <3>2, ViewerChanges, UpdateTyped
    <3>4. QED BY <2>a, <2>13, <3>1, <3>3, RuntimeKept DEF TypeOK, EndViewer, CallersOK
  <2>14. CASE EndViewerFails
    BY <2>a, <2>14, FenceKept, RuntimeKept DEF TypeOK, EndViewerFails, CallersOK
  <2>15. CASE StopFence
    <3>1. FenceOK'
      BY <2>a, <2>15 DEF FenceOK, StopFence
    <3>2. QED BY <2>a, <2>15, <3>1, RuntimeKept DEF TypeOK, StopFence, CallersOK
  <2>16. CASE UNCHANGED vars
    BY <2>a, <2>16, FenceKept, RuntimeKept DEF vars, TypeOK, CallersOK
  <2>17. QED BY <2>1, <2>2, <2>3, <2>4, <2>5, <2>6, <2>7, <2>8, <2>9, <2>10, <2>11, <2>12,
                <2>13, <2>14, <2>15, <2>16 DEF Next
<1>3. QED BY <1>1, <1>2, PTL DEF Spec

---------------------------------------------------------------------------
(* The fence around durable effects.                                       *)

\* Whoever holds the effect lock is still acceptable: nothing the fence looks at can
\* change before the side effect ends.
EffectHeld ==
    effect # None =>
        /\ item[effect.item].phase = IF effect.kind = "behaviour" THEN "published" ELSE "claimed"
        /\ Accepts(item[effect.item])

\* Work items and durable results carry tokens that the runtime's counters have passed.
Seen(v, e, n) == e <= epoch /\ (e = epoch => seen[v].epoch = epoch /\ n <= seen[v].sequence)

AllSeen ==
    /\ \A i \in Items : item[i].phase \in {"claimed", "published"} =>
           Seen(item[i].viewer, item[i].epoch, item[i].sequence)
    /\ \A t \in room : Seen(t[1], t[2], t[3])

\* The end of the session forgets the counters together with the work items.
TokensSeen == IF stopping = "no" THEN AllSeen ELSE \A i \in Items : item[i].phase = "free"

\* A hot update that is still current started from today's lives, and creation ordinals
\* and the end of the session concern only viewers on the right side of `ordinal'.
Gone == {"kicked", "dropped", "ended"}

ApplyFresh ==
    apply # None =>
        /\ apply.population <= population
        /\ apply.population = population =>
              apply.ordinal = ordinal /\ \A v \in Viewers : apply.viewer[v].life = viewer[v].life

OrdinalFresh == \A v \in Viewers : v >= ordinal => viewer[v].life = "absent"
EndsRealViewers == \A v \in toEnd : viewer[v].life # "absent"

LivesInv == ApplyFresh /\ OrdinalFresh /\ EndsRealViewers

\* Whatever changes whether a viewer may speak shows in a revision, and none falls back.
Grows(old, new) ==
    /\ old.presence <= new.presence /\ old.moderation <= new.moderation
    /\ old.muted # new.muted => old.presence < new.presence \/ old.moderation < new.moderation
    /\ old.life # "active" /\ new.life = "active" => old.presence < new.presence

LEMMA GrowsByOne ==
  ASSUME NEW r \in ViewerRec, NEW s,
         \/ s.presence = r.presence + 1 /\ s.moderation \in {r.moderation, r.moderation + 1}
         \/ s.presence = r.presence /\ s.moderation = r.moderation + 1 /\ s.life = r.life
  PROVE  Grows(r, s)
<1>1. r.presence \in Nat /\ r.moderation \in Nat
  BY DEF ViewerRec
<1>2. QED BY <1>1 DEF Grows

\* An update of viewer v neither creates it nor brings it back, and moves its revisions.
Keeps(v, new) ==
    /\ new.life = "absent" => viewer[v].life = "absent"
    /\ viewer[v].life = "absent" => new = viewer[v]
    /\ viewer[v].life \in Gone => new.life \in Gone
    /\ Grows(viewer[v], new)

\* A step of ViewerAudienceService leaves the runtime alone and updates at most one viewer.
CallerAct(c) ==
    \/ \E v \in Viewers : Mute(c, v) \/ Unmute(c, v) \/ Kick(c, v)
    \/ \E due \in SUBSET Viewers, wave \in BOOLEAN : Reconcile(c, due, wave)
    \/ ExpireMute(c) \/ Look(c) \/ Rejoin(c) \/ Count(c) \/ Add(c)
    \/ Leave(c) \/ Leaving(c) \/ CallerFails(c)

OneUpdate ==
    \/ UNCHANGED fence
    \/ \E v \in Viewers : \E new \in ViewerRec : UpdateViewer(v, new) /\ Keeps(v, new)
    \/ \E v \in Viewers : \E e \in Nat : AddViewer(v, e)

LEMMA CallerStep ==
  ASSUME TypeOK, NEW c \in Callers, CallerAct(c)
  PROVE  UNCHANGED <<runtime, apply, stopping, toEnd>> /\ OneUpdate
<1>a. FenceOK /\ caller[c] \in CallerRec /\ caller[c].todo \subseteq Viewers
  BY DEF TypeOK, CallersOK, CallerRec
<1>0. UNCHANGED <<runtime, apply, stopping, toEnd>>
  BY DEF CallerAct, Elsewhere, Mute, Unmute, Kick, Reconcile, ExpireMute, Look, Rejoin, Count, Add,
         Leave, Leaving, CallerFails
<1>k. ASSUME NEW v \in Viewers
      PROVE  /\ Keeps(v, viewer[v]) /\ Keeps(v, Rejoined(v))
             /\ viewer[v].life = "active" =>
                  /\ Keeps(v, Unmuted(v))
                  /\ Keeps(v, [viewer[v] EXCEPT !.muted = TRUE, !.moderation = @ + 1])
                  /\ Keeps(v, [viewer[v] EXCEPT !.life = "kicked", !.muted = FALSE,
                                                !.presence = @ + 1, !.moderation = @ + 1])
                  /\ Keeps(v, [viewer[v] EXCEPT !.life = "left", !.muted = FALSE, !.presence = @ + 1])
  <2> DEFINE r == viewer[v]
  <2>1. r \in ViewerRec
    BY <1>a DEF FenceOK
  <2>2. /\ Grows(r, r)
        /\ Grows(r, [r EXCEPT !.muted = TRUE, !.moderation = @ + 1])
        /\ Grows(r, [r EXCEPT !.muted = FALSE, !.moderation = @ + 1])
        /\ Grows(r, [r EXCEPT !.life = "active", !.presence = @ + 1])
    <3> HIDE DEF r
    <3>1. Grows(r, r)
      BY <2>1 DEF Grows, ViewerRec
    <3>2. \A b \in BOOLEAN : LET s == [r EXCEPT !.muted = b, !.moderation = @ + 1] IN
            s.presence = r.presence /\ s.moderation = r.moderation + 1 /\ s.life = r.life
      BY <2>1 DEF ViewerRec
    <3>3. LET s == [r EXCEPT !.life = "active", !.presence = @ + 1] IN
            s.presence = r.presence + 1 /\ s.moderation = r.moderation
      BY <2>1 DEF ViewerRec
    <3>4. QED BY <2>1, <3>1, <3>2, <3>3, GrowsByOne
  <2>3. /\ Grows(r, [r EXCEPT !.life = "kicked", !.muted = FALSE,
                              !.presence = @ + 1, !.moderation = @ + 1])
        /\ Grows(r, [r EXCEPT !.life = "left", !.muted = FALSE, !.presence = @ + 1])
    <3> HIDE DEF r
    <3>1. LET s == [r EXCEPT !.life = "kicked", !.muted = FALSE,
                             !.presence = @ + 1, !.moderation = @ + 1] IN
            s.presence = r.presence + 1 /\ s.moderation = r.moderation + 1
      BY <2>1 DEF ViewerRec
    <3>2. LET s == [r EXCEPT !.life = "left", !.muted = FALSE, !.presence = @ + 1] IN
            s.presence = r.presence + 1 /\ s.moderation = r.moderation
      BY <2>1 DEF ViewerRec
    <3>3. QED BY <2>1, <3>1, <3>2, GrowsByOne
  <2>4. /\ [r EXCEPT !.muted = TRUE, !.moderation = @ + 1].life = r.life
        /\ Unmuted(v).life = r.life
        /\ Rejoined(v).life = IF r.life = "left" THEN "active" ELSE r.life
        /\ [r EXCEPT !.life = "kicked", !.muted = FALSE,
                     !.presence = @ + 1, !.moderation = @ + 1].life = "kicked"
        /\ [r EXCEPT !.life = "left", !.muted = FALSE, !.presence = @ + 1].life = "left"
    BY <2>1 DEF Unmuted, Rejoined, ViewerRec
  <2>5. Grows(r, Unmuted(v)) /\ Grows(r, Rejoined(v))
    BY <2>2 DEF Unmuted, Rejoined
  <2>6. r.life = "absent" => Rejoined(v) = r
    BY DEF Rejoined
  <2>7. QED BY <2>2, <2>3, <2>4, <2>5, <2>6 DEF Keeps, Gone
<1>1. ASSUME NEW v \in Viewers, Mute(c, v) \/ Unmute(c, v) \/ Kick(c, v) PROVE OneUpdate
  <2>1. CASE Mute(c, v)
    BY <1>a, <1>k, <2>1, ViewerChanges DEF OneUpdate, Mute
  <2>2. CASE Unmute(c, v)
    BY <1>a, <1>k, <2>2, ViewerChanges DEF OneUpdate, Unmute
  <2>3. CASE Kick(c, v)
    BY <1>a, <1>k, <2>3, ViewerChanges DEF OneUpdate, Kick
  <2>4. QED BY <1>1, <2>1, <2>2, <2>3
<1>2. ASSUME ExpireMute(c) PROVE OneUpdate
  BY <1>a, <1>k, <1>2, ViewerChanges DEF OneUpdate, ExpireMute
<1>3. ASSUME Rejoin(c) PROVE OneUpdate
  BY <1>a, <1>k, <1>3, ViewerChanges DEF OneUpdate, Rejoin
<1>4. ASSUME Leaving(c) PROVE OneUpdate
  <2>1. caller[c].viewer \in Viewers
    BY <1>4, <1>a DEF Leaving, CallerRec
  <2>2. QED BY <1>a, <1>k, <1>4, <2>1, ViewerChanges DEF OneUpdate, Leaving
<1>5. ASSUME Add(c) PROVE OneUpdate
  <2>1. caller[c].viewer \in Viewers /\ caller[c].born \in Nat
    BY <1>5, <1>a DEF Add, CallerRec
  <2>2. QED BY <1>5, <2>1 DEF OneUpdate, Add
<1>6. ASSUME \/ \E due \in SUBSET Viewers, wave \in BOOLEAN : Reconcile(c, due, wave)
             \/ Look(c) \/ Count(c) \/ Leave(c) \/ CallerFails(c)
      PROVE  OneUpdate
  BY <1>6 DEF OneUpdate, Reconcile, Look, Count, Leave, CallerFails
<1>7. QED BY <1>0, <1>1, <1>2, <1>3, <1>4, <1>5, <1>6 DEF CallerAct

\* Only a work item's own step, or one that needs the effect lock, touches what is held.
LEMMA HeldKept ==
  ASSUME EffectHeld, UNCHANGED effect, effect = None \/ UNCHANGED <<fence, item>>
  PROVE  EffectHeld'
BY DEF EffectHeld, Accepts, fence

LEMMA HeldStep ==
  ASSUME TypeOK, EffectHeld, [Next]_vars PROVE EffectHeld'
<1>a. RuntimeOK
  BY DEF TypeOK
<1>1. ASSUME NEW i \in Items, NEW v \in Viewers, Dispatch(i, v) PROVE EffectHeld'
  BY <1>a, <1>1 DEF Dispatch, EffectHeld, Accepts, fence, RuntimeOK, EffectRec
<1>2. ASSUME NEW i \in Items, Claim(i) PROVE EffectHeld'
  BY <1>2, HeldKept DEF Claim
<1>3. ASSUME NEW i \in Items, NEW kind \in {"publish", "silence", "behaviour"}, BeginEffect(i, kind)
      PROVE  EffectHeld'
  BY <1>3 DEF BeginEffect, EffectHeld, Accepts, fence
<1>4. ASSUME NEW i \in Items, DropItem(i) PROVE EffectHeld'
  BY <1>a, <1>4 DEF DropItem, EffectHeld, Accepts, fence, RuntimeOK, EffectRec
<1>5. CASE EndEffect
  BY <1>5 DEF EndEffect, EffectHeld
<1>6. ASSUME NEW c \in Callers, CallerAct(c) PROVE EffectHeld'
  BY <1>6, CallerStep, HeldKept DEF OneUpdate, UpdateViewer, AddViewer, runtime
<1>7. CASE (\E t \in Targets : BeginApply(t)) \/ ApplyFails \/ StopAudience \/ EndViewerFails
  BY <1>7, HeldKept DEF BeginApply, ApplyFails, StopAudience, EndViewerFails, runtime
<1>8. CASE CommitApply \/ StopRuntime \/ EndViewer \/ StopFence
  BY <1>8, HeldKept DEF CommitApply, StopRuntime, EndViewer, StopFence, UpdateViewer, runtime
<1>9. CASE UNCHANGED vars
  BY <1>9, HeldKept DEF vars, runtime
<1>10. QED BY <1>1, <1>2, <1>3, <1>4, <1>5, <1>6, <1>7, <1>8, <1>9 DEF Next, CallerAct

\* Nothing enters the Room but through a fence that accepts it at that moment.
THEOREM EffectsFenced == Spec => EffectsAreFenced
<1> DEFINE Fenced == \A i \in Items :
              room' # room /\ item[i].phase = "claimed" /\ item'[i].phase = "published"
                 => Accepts(item[i])
<1>1. Init => EffectHeld
  BY DEF Init, EffectHeld
<1>2. TypeOK /\ EffectHeld /\ [Next]_vars => EffectHeld'
  BY HeldStep
<1>3. TypeOK /\ EffectHeld /\ [Next]_vars => [Fenced]_vars
  <2> SUFFICES ASSUME TypeOK, EffectHeld, Next PROVE Fenced
    BY DEF vars
  <2>a. RuntimeOK
    BY DEF TypeOK
  <2>1. CASE EndEffect
    BY <2>1, <2>a, IdleTyped DEF EndEffect, EffectHeld, RuntimeOK, FreeItem
  <2>2. CASE UNCHANGED room
    BY <2>2
  <2>3. Next => EndEffect \/ UNCHANGED room
    <3>1. ASSUME NEW c \in Callers, CallerAct(c) PROVE UNCHANGED room
      BY <3>1, CallerStep DEF runtime
    <3>2. QED BY <3>1 DEF Next, CallerAct, Dispatch, Claim, BeginEffect, DropItem, BeginApply,
                 CommitApply, ApplyFails, StopRuntime, StopAudience, EndViewer, EndViewerFails,
                 StopFence, runtime
  <2>4. QED BY <2>1, <2>2, <2>3
<1>4. QED BY <1>1, <1>2, <1>3, TypeCorrect, PTL DEF Spec, EffectsAreFenced

---------------------------------------------------------------------------
(* Claimed sequences.                                                      *)

Live(i) == item[i].phase \in {"claimed", "published"}

TokenInv == OneTokenOneResult /\ TokensSeen /\ EffectHeld

\* Steps that leave items, Room and counters alone keep the tokens apart.
LEMMA TokensKept ==
  ASSUME TypeOK, TypeOK', OneTokenOneResult, TokensSeen, epoch <= epoch', UNCHANGED room,
         stopping' = "no" => stopping = "no" /\ UNCHANGED seen,
         stopping' # "no" => \A i \in Items : item'[i].phase = "free",
         \A i \in Items : item'[i] = item[i] \/ ~Live(i)'
  PROVE  OneTokenOneResult' /\ TokensSeen'
<1>a. /\ epoch \in Nat /\ epoch' \in Nat /\ room \subseteq Viewers \X Nat \X Nat
      /\ \A i \in Items : item[i].epoch \in Nat
  BY DEF TypeOK, FenceOK, RuntimeOK, ItemRec
<1>1. \A i \in Items : Live(i)' => item'[i] = item[i] /\ Live(i)
  BY DEF Live
<1>2. OneTokenOneResult'
  BY <1>1 DEF OneTokenOneResult, Token, Live
<1>3. stopping' = "no" => \A v, n : \A e \in Nat : Seen(v, e, n) => Seen(v, e, n)'
  BY <1>a DEF Seen
<1>4. \A t \in room : t[2] \in Nat
  BY <1>a
<1>5. QED BY <1>a, <1>1, <1>2, <1>3, <1>4 DEF TokensSeen, AllSeen, Live

LEMMA TokenStep ==
  ASSUME TypeOK, TypeOK', TokenInv, [Next]_vars
  PROVE  OneTokenOneResult' /\ TokensSeen'
<1>a. /\ FenceOK /\ RuntimeOK /\ epoch \in Nat /\ OneTokenOneResult /\ TokensSeen /\ EffectHeld
      /\ epoch <= epoch
  BY DEF TypeOK, FenceOK, TokenInv
<1>1. ASSUME NEW i \in Items, NEW v \in Viewers, Dispatch(i, v)
      PROVE  OneTokenOneResult' /\ TokensSeen'
  <2>1. \A j \in Items : item'[j] = item[j] \/ ~Live(j)'
    BY <1>a, <1>1 DEF Dispatch, Live, RuntimeOK
  <2>2. UNCHANGED <<seen, room, stopping>> /\ epoch' = epoch /\ stopping = "no"
    BY <1>1 DEF Dispatch, fence
  <2>3. QED BY <1>a, <2>1, <2>2, TokensKept
<1>2. ASSUME NEW i \in Items, Claim(i) PROVE OneTokenOneResult' /\ TokensSeen'
  <2> DEFINE n == Proposed(item[i])
             w == item[i]
  <2>a. /\ w \in ItemRec /\ w.viewer \in Viewers /\ w.epoch \in Nat /\ w.base \in Nat
        /\ seen[w.viewer] \in [epoch : Nat, sequence : Nat]
    BY <1>a, <1>2 DEF RuntimeOK, ItemRec, Claim
  <2>b. n \in Nat
    BY <2>a DEF Proposed
  <2>c. stopping = "no" /\ stopping' = "no" /\ AllSeen
    BY <1>a, <1>2 DEF Claim, TokensSeen
  <2>1. CASE ~Grants(w, n)
    <3>1. \A j \in Items : item'[j] = item[j] \/ ~Live(j)'
      BY <1>a, <1>2, <2>1 DEF Claim, Live, RuntimeOK, FreeItem
    <3>2. UNCHANGED <<seen, room>> /\ epoch' = epoch
      BY <1>2, <2>1 DEF Claim
    <3>3. QED BY <1>a, <2>c, <3>1, <3>2, TokensKept
  <2>2. CASE Grants(w, n)
    <3>1. /\ item'[i] = [w EXCEPT !.phase = "claimed", !.sequence = n]
          /\ \A j \in Items \ {i} : item'[j] = item[j]
          /\ seen' = [seen EXCEPT ![w.viewer] = [epoch |-> w.epoch, sequence |-> n]]
          /\ epoch' = epoch /\ room' = room /\ w.epoch = epoch
      BY <1>a, <1>2, <2>2 DEF Claim, RuntimeOK, Grants
    <3>2. /\ item'[i].viewer = w.viewer /\ item'[i].epoch = epoch /\ item'[i].sequence = n
          /\ item'[i].phase = "claimed"
      BY <2>a, <3>1 DEF ItemRec
    <3>3. \A v \in Viewers : \A e, m \in Nat : Seen(v, e, m) => Seen(v, e, m)'
      <4> SUFFICES ASSUME NEW v \in Viewers, NEW e \in Nat, NEW m \in Nat, Seen(v, e, m)
                   PROVE  Seen(v, e, m)'
        OBVIOUS
      <4>1. CASE v # w.viewer
        BY <1>a, <3>1, <4>1 DEF Seen, RuntimeOK
      <4>2. CASE v = w.viewer
        <5>1. seen'[v] = [epoch |-> epoch, sequence |-> n]
          BY <1>a, <2>a, <3>1, <4>2 DEF RuntimeOK
        <5>2. e = epoch => m <= n
          BY <2>a, <2>b, <3>1, <4>2 DEF Seen, Proposed
        <5>3. QED BY <3>1, <5>1, <5>2 DEF Seen
      <4>3. QED BY <4>1, <4>2
    <3>4. ~Seen(w.viewer, epoch, n)
      BY <2>a, <2>b, <3>1 DEF Seen, Proposed
    <3>5. \A j \in Items : /\ item[j].epoch \in Nat /\ item[j].sequence \in Nat
                           /\ Live(j) => item[j].viewer \in Viewers
      BY <1>a DEF RuntimeOK, ItemRec, Live
    <3>6. \A t \in room : t[1] \in Viewers /\ t[2] \in Nat /\ t[3] \in Nat
      BY <1>a DEF RuntimeOK
    <3>7. Seen(item[i].viewer, item[i].epoch, item[i].sequence)'
      <4>1. seen'[w.viewer] = [epoch |-> epoch, sequence |-> n]
        BY <1>a, <2>a, <3>1 DEF RuntimeOK
      <4>2. QED BY <1>a, <2>b, <3>1, <3>2, <4>1 DEF Seen
    <3>8. TokensSeen'
      <4>1. \A j \in Items : Live(j)' => Seen(item[j].viewer, item[j].epoch, item[j].sequence)'
        BY <2>c, <3>1, <3>3, <3>5, <3>7 DEF AllSeen, Live
      <4>2. \A t \in room : Seen(t[1], t[2], t[3])'
        BY <2>c, <3>1, <3>3, <3>6 DEF AllSeen
      <4>3. QED BY <2>c, <3>1, <4>1, <4>2 DEF TokensSeen, AllSeen, Live
    <3>9. Token(item'[i]) = <<w.viewer, epoch, n>>
      BY <3>2 DEF Token
    <3>10. \A j \in Items \ {i} : Live(j) => Token(item[j]) # Token(item'[i])
      BY <2>c, <3>4, <3>9 DEF AllSeen, Token, Live
    <3>11. Token(item'[i]) \notin room
      BY <2>c, <3>4, <3>9 DEF AllSeen
    <3>12. OneTokenOneResult'
      <4> SUFFICES ASSUME NEW j \in Items, Live(j)'
                   PROVE  /\ item'[j].phase = "claimed" => Token(item'[j]) \notin room
                          /\ \A k \in Items \ {j} : Live(k)' => Token(item'[j]) # Token(item'[k])
        BY <3>1 DEF OneTokenOneResult, Live
      <4>1. CASE j = i
        BY <3>1, <3>10, <3>11, <4>1 DEF Live
      <4>2. CASE j # i
        BY <1>a, <3>1, <3>10, <4>2 DEF OneTokenOneResult, Live
      <4>3. QED BY <4>1, <4>2
    <3>13. QED BY <3>8, <3>12
  <2>3. QED BY <2>1, <2>2
<1>3. ASSUME NEW i \in Items, DropItem(i) PROVE OneTokenOneResult' /\ TokensSeen'
  <2>1. \A j \in Items : item'[j] = item[j] \/ ~Live(j)'
    BY <1>a, <1>3 DEF DropItem, Live, RuntimeOK, FreeItem
  <2>2. UNCHANGED <<seen, room, stopping>> /\ epoch' = epoch /\ stopping = "no"
    BY <1>a, <1>3 DEF DropItem, fence, TokensSeen
  <2>3. QED BY <1>a, <2>1, <2>2, TokensKept
<1>4. CASE EndEffect
  <2> DEFINE i == effect.item
             w == item[i]
  <2>a. i \in Items /\ w \in ItemRec
    BY <1>a, <1>4 DEF RuntimeOK, EffectRec, EndEffect
  <2>b. epoch' = epoch /\ seen' = seen /\ stopping' = stopping
    BY <1>4 DEF EndEffect
  <2>c. stopping = "no" /\ AllSeen
    BY <1>a, <1>4, <2>a DEF EndEffect, RuntimeOK, TokensSeen
  <2>1. CASE /\ effect.kind = "publish" /\ room' = room \cup {Token(w)}
             /\ item' = [item EXCEPT ![i].phase = "published"]
    <3>1. w.phase = "claimed"
      BY <1>a, <1>4, <2>1 DEF EffectHeld, EndEffect
    <3>2. item'[i] = [w EXCEPT !.phase = "published"] /\ \A j \in Items \ {i} : item'[j] = item[j]
      BY <1>a, <2>a, <2>1 DEF RuntimeOK
    <3>3. /\ item'[i].phase = "published" /\ item'[i].viewer = w.viewer
          /\ item'[i].epoch = w.epoch /\ item'[i].sequence = w.sequence
      BY <2>a, <3>2 DEF ItemRec
    <3>4. \A j \in Items : Token(item'[j]) = Token(item[j]) /\ (Live(j)' => Live(j))
      BY <3>1, <3>2, <3>3 DEF Token, Live
    <3>5. \A j \in Items : item'[j].phase = "claimed" => j # i /\ item[j].phase = "claimed"
      BY <3>2, <3>3
    <3>6. OneTokenOneResult'
      BY <1>a, <2>a, <2>1, <3>1, <3>4, <3>5 DEF OneTokenOneResult, Live
    <3>7. \A v, e, m : Seen(v, e, m) => Seen(v, e, m)'
      BY <2>b DEF Seen
    <3>8. Seen(w.viewer, w.epoch, w.sequence)
      BY <2>a, <2>c, <3>1 DEF AllSeen
    <3>9. \A j \in Items : Live(j)' => Seen(item'[j].viewer, item'[j].epoch, item'[j].sequence)
      BY <2>c, <3>1, <3>2, <3>3, <3>4, <3>8 DEF AllSeen, Live
    <3>10. TokensSeen'
      BY <2>b, <2>c, <2>1, <3>7, <3>8, <3>9 DEF TokensSeen, AllSeen, Token, Live
    <3>11. QED BY <3>6, <3>10
  <2>2. CASE room' = room /\ item' = [item EXCEPT ![i] = FreeItem]
    <3>1. \A j \in Items : item'[j] = item[j] \/ ~Live(j)'
      BY <1>a, <2>a, <2>2 DEF Live, RuntimeOK, FreeItem
    <3>2. QED BY <1>a, <2>b, <2>c, <2>2, <3>1, TokensKept
  <2>3. QED BY <1>4, <2>1, <2>2 DEF EndEffect
<1>5. CASE StopRuntime
  <2>1. \A j \in Items : ~Live(j)'
    BY <1>5 DEF StopRuntime, Live, FreeItem
  <2>2. /\ UNCHANGED room /\ epoch' = epoch /\ stopping' # "no"
        /\ \A j \in Items : item'[j].phase = "free"
    BY <1>5 DEF StopRuntime, fence, FreeItem
  <2>3. QED BY <1>a, <2>1, <2>2, TokensKept
<1>6. ASSUME UNCHANGED <<seen, room, item>>, epoch <= epoch', stopping' = "no" <=> stopping = "no"
      PROVE  OneTokenOneResult' /\ TokensSeen'
  BY <1>a, <1>6, TokensKept DEF TokensSeen
<1>7. CASE CommitApply
  <2>1. epoch' = epoch + 1
    BY <1>7 DEF CommitApply
  <2>2. UNCHANGED <<seen, room, item, stopping>> /\ epoch <= epoch'
    BY <1>a, <1>7, <2>1 DEF CommitApply, runtime
  <2>3. QED BY <1>6, <2>2
<1>8. ASSUME NEW c \in Callers, CallerAct(c) PROVE OneTokenOneResult' /\ TokensSeen'
  <2>1. UNCHANGED <<seen, room, item, stopping>> /\ epoch' = epoch
    BY <1>8, CallerStep DEF OneUpdate, UpdateViewer, AddViewer, runtime, fence
  <2>2. QED BY <1>a, <1>6, <2>1
<1>9. CASE \/ \E i \in Items, kind \in {"publish", "silence", "behaviour"} : BeginEffect(i, kind)
           \/ (\E t \in Targets : BeginApply(t)) \/ ApplyFails \/ StopAudience \/ EndViewer
           \/ EndViewerFails \/ StopFence \/ UNCHANGED vars
  <2>1. UNCHANGED <<seen, room, item>> /\ epoch' = epoch /\ (stopping' = "no" <=> stopping = "no")
    BY <1>9 DEF BeginEffect, BeginApply, ApplyFails, StopAudience, EndViewer, EndViewerFails,
                StopFence, UpdateViewer, runtime, fence, vars
  <2>2. QED BY <1>a, <1>6, <2>1
<1>10. QED BY <1>1, <1>2, <1>3, <1>4, <1>5, <1>7, <1>8, <1>9 DEF Next, CallerAct

\* A claimed sequence belongs to one result, in the runtime and in the Room.
THEOREM TokensUnique == Spec => []OneTokenOneResult
<1>1. Init => TokenInv
  BY DEF Init, TokenInv, OneTokenOneResult, TokensSeen, AllSeen, EffectHeld, FreeItem
<1>2. TypeOK /\ TypeOK' /\ TokenInv /\ [Next]_vars => TokenInv'
  BY TokenStep, HeldStep DEF TokenInv
<1>3. TokenInv => OneTokenOneResult
  BY DEF TokenInv
<1>4. QED BY <1>1, <1>2, <1>3, TypeCorrect, PTL DEF Spec

---------------------------------------------------------------------------
(* Leaving for good.                                                       *)

LEMMA LivesStep ==
  ASSUME TypeOK, TypeOK', LivesInv, [Next]_vars
  PROVE  /\ LivesInv'
         /\ \A v \in Viewers : viewer[v].life \in Gone => viewer'[v].life \in Gone
<1> DEFINE Good == /\ LivesInv'
                   /\ \A v \in Viewers : viewer[v].life \in Gone => viewer'[v].life \in Gone
<1>a. /\ FenceOK /\ RuntimeOK /\ toEnd \subseteq Viewers /\ population \in Nat
      /\ ordinal \in Nat \ {0}
      /\ apply # None => apply \in ApplyRec /\ apply.population \in Nat
      /\ ApplyFresh /\ OrdinalFresh /\ EndsRealViewers
  BY DEF TypeOK, FenceOK, LivesInv, ApplyRec
\* lives unchanged
<1>1. ASSUME UNCHANGED <<population, ordinal, apply>>, toEnd' \subseteq toEnd,
             \A v \in Viewers : viewer'[v].life = viewer[v].life
      PROVE  Good
  BY <1>a, <1>1 DEF LivesInv, ApplyFresh, OrdinalFresh, EndsRealViewers
<1>2. ASSUME NEW v \in Viewers, NEW new \in ViewerRec, UpdateViewer(v, new), Keeps(v, new),
             toEnd' \subseteq toEnd, UNCHANGED apply
      PROVE  Good
  <2>1. /\ viewer' = [viewer EXCEPT ![v] = new] /\ population' = population + 1
        /\ UNCHANGED ordinal
    BY <1>2 DEF UpdateViewer
  <2>2. ApplyFresh'
    BY <1>a, <1>2, <2>1 DEF ApplyFresh
  <2>3. OrdinalFresh' /\ EndsRealViewers'
    BY <1>a, <1>2, <2>1 DEF OrdinalFresh, EndsRealViewers, Keeps, FenceOK
  <2>4. \A u \in Viewers : viewer[u].life \in Gone => viewer'[u].life \in Gone
    BY <1>a, <1>2, <2>1 DEF Keeps, FenceOK
  <2>5. QED BY <2>2, <2>3, <2>4 DEF LivesInv
<1>3. ASSUME NEW v \in Viewers, NEW e \in Nat, AddViewer(v, e), UNCHANGED <<apply, toEnd>>
      PROVE  Good
  <2>1. /\ viewer' = [viewer EXCEPT ![v] = NewViewer(e)] /\ population' = population + 1
        /\ ordinal' = (IF ordinal > v THEN ordinal ELSE v + 1)
        /\ viewer[v].life = "absent" /\ NewViewer(e).life = "active" /\ v \in Nat
    BY <1>3, BoundsAssumption DEF AddViewer, NewViewer, Viewers
  <2>2. ApplyFresh'
    BY <1>a, <1>3, <2>1 DEF ApplyFresh
  <2>3. \A u \in Viewers : u >= ordinal' => u >= ordinal /\ u # v
    BY <1>a, <2>1, BoundsAssumption DEF Viewers
  <2>4. OrdinalFresh' /\ EndsRealViewers'
    BY <1>a, <1>3, <2>1, <2>3 DEF OrdinalFresh, EndsRealViewers, FenceOK
  <2>5. \A u \in Viewers : viewer[u].life \in Gone => viewer'[u].life \in Gone
    BY <1>a, <2>1 DEF Gone, FenceOK
  <2>6. QED BY <2>2, <2>4, <2>5 DEF LivesInv
<1>4. ASSUME NEW c \in Callers, CallerAct(c) PROVE Good
  <2>1. UNCHANGED <<apply, toEnd>> /\ OneUpdate
    BY <1>4, CallerStep
  <2>2. CASE UNCHANGED fence
    BY <1>1, <2>1, <2>2 DEF fence
  <2>3. ASSUME NEW v \in Viewers, NEW new \in ViewerRec, UpdateViewer(v, new), Keeps(v, new)
        PROVE  Good
    BY <1>2, <2>1, <2>3
  <2>4. ASSUME NEW v \in Viewers, NEW e \in Nat, AddViewer(v, e) PROVE Good
    BY <1>3, <2>1, <2>4
  <2>5. QED BY <2>1, <2>2, <2>3, <2>4 DEF OneUpdate
<1>5. CASE EndEffect
  <2>1. \A v \in Viewers : viewer'[v].life = viewer[v].life
    <3>1. CASE UNCHANGED viewer
      BY <3>1
    <3>2. CASE \E v : \E n : viewer' = [viewer EXCEPT ![v].sequence = n]
      BY <1>a, <3>2 DEF FenceOK, ViewerRec
    <3>3. QED BY <1>5, <3>1, <3>2 DEF EndEffect
  <2>2. QED BY <1>1, <1>5, <2>1 DEF EndEffect
<1>6. ASSUME NEW t \in Targets, BeginApply(t) PROVE Good
  <2>1. ApplyFresh'
    BY <1>a, <1>6 DEF BeginApply, ApplyFresh, fence
  <2>2. QED BY <1>a, <1>6, <2>1 DEF BeginApply, LivesInv, OrdinalFresh, EndsRealViewers, fence
<1>7. CASE CommitApply
  <2>1. /\ apply \in ApplyRec /\ apply.ordinal = ordinal
        /\ \A v \in Viewers : apply.viewer[v].life = viewer[v].life
        /\ apply' = None /\ toEnd' = toEnd
        /\ viewer' = NextPool(apply.viewer, apply.target, apply.ordinal, apply.epoch + 1)
        /\ ordinal' = apply.ordinal + Missing(apply.viewer, apply.target)
    BY <1>a, <1>7 DEF CommitApply, ApplyFresh
  <2> DEFINE m == Missing(apply.viewer, apply.target)
             added == Added(apply.viewer, apply.target, apply.ordinal)
  <2>2. m \in Nat
    BY <2>1, MissingCount DEF ApplyRec
  <2>3. \A v \in Viewers : v \in added => v >= ordinal /\ v < ordinal'
    <3> SUFFICES ASSUME NEW v \in Viewers, v \in added PROVE v >= ordinal /\ v < ordinal'
      OBVIOUS
    <3> HIDE DEF m
    <3>1. v \in ordinal..(ordinal + m - 1) /\ ordinal' = ordinal + m
      BY <2>1 DEF Added, m
    <3>2. QED BY <1>a, <2>2, <3>1
  <2>4. ordinal' >= ordinal
    <3> HIDE DEF m
    <3>1. ordinal' = ordinal + m
      BY <2>1 DEF m
    <3>2. QED BY <1>a, <2>2, <3>1
  <2>5. \A v \in Viewers :
          /\ v \notin added /\ viewer[v].life = "absent" => viewer'[v].life = "absent"
          /\ viewer'[v].life = "absent" => viewer[v].life = "absent"
          /\ v \notin added /\ viewer[v].life \in Gone => viewer'[v].life \in Gone
    <3> SUFFICES ASSUME NEW v \in Viewers
                 PROVE  /\ v \notin added /\ viewer[v].life = "absent" => viewer'[v].life = "absent"
                        /\ viewer'[v].life = "absent" => viewer[v].life = "absent"
                        /\ v \notin added /\ viewer[v].life \in Gone => viewer'[v].life \in Gone
      OBVIOUS
    <3>1. apply.viewer[v] \in ViewerRec /\ apply.viewer[v].life = viewer[v].life
      BY <2>1 DEF ApplyRec
    <3>2. [apply.viewer[v] EXCEPT !.life = "dropped"].life = "dropped"
      BY <3>1 DEF ViewerRec
    <3>3. \A e : NewViewer(e).life = "active"
      BY DEF NewViewer
    <3>4. \/ v \in added /\ viewer'[v].life = "active"
          \/ v \notin added /\ viewer'[v].life = viewer[v].life
          \/ v \notin added /\ viewer[v].life = "active" /\ viewer'[v].life = "dropped"
      <4> DEFINE p == apply.viewer[v]
                 s == IF claims[v] = None THEN p.sequence ELSE claims[v]
      <4> HIDE DEF added
      <4>1. \/ v \in added /\ viewer'[v] = NewViewer(apply.epoch + 1)
            \/ v \notin added /\ viewer'[v] = p
            \/ v \notin added /\ p.life = "active" /\ viewer'[v] = [p EXCEPT !.life = "dropped"]
            \/ v \notin added /\ viewer'[v] = [p EXCEPT !.epoch = apply.epoch + 1, !.sequence = s]
        BY <2>1 DEF NextPool, added
      <4> HIDE DEF s
      <4>2. [p EXCEPT !.epoch = apply.epoch + 1, !.sequence = s].life = viewer[v].life
        BY <3>1 DEF ViewerRec
      <4>3. QED BY <3>1, <3>2, <3>3, <4>1, <4>2
    <3>5. QED BY <3>4 DEF Gone
  <2>6. OrdinalFresh'
    <3> SUFFICES ASSUME NEW v \in Viewers, v >= ordinal' PROVE viewer'[v].life = "absent"
      BY DEF OrdinalFresh
    <3>1. v \in Nat /\ ordinal' \in Nat
      BY BoundsAssumption DEF Viewers, TypeOK, FenceOK
    <3>2. v \notin added /\ v >= ordinal
      <4> HIDE DEF added
      <4>1. ~(v < ordinal')
        BY <3>1
      <4>2. QED BY <1>a, <2>3, <2>4, <3>1, <4>1
    <3>3. QED BY <1>a, <2>5, <3>2 DEF OrdinalFresh
  <2>7. \A v \in Viewers : viewer[v].life \in Gone => v \notin added
    BY <1>a, <2>3 DEF OrdinalFresh, Gone
  <2>8. ApplyFresh' /\ EndsRealViewers'
    BY <1>a, <2>1, <2>5 DEF ApplyFresh, EndsRealViewers
  <2>9. QED BY <2>5, <2>6, <2>7, <2>8 DEF LivesInv
<1>8. CASE ApplyFails
  BY <1>a, <1>8 DEF ApplyFails, LivesInv, ApplyFresh, OrdinalFresh, EndsRealViewers, fence
<1>9. CASE StopAudience
  <2>1. EndsRealViewers'
    BY <1>9 DEF StopAudience, EndsRealViewers, fence
  <2>2. QED BY <1>a, <1>9, <2>1 DEF StopAudience, LivesInv, ApplyFresh, OrdinalFresh, fence
<1>10. CASE EndViewer
  <2>1. PICK v \in toEnd :
           /\ viewer[v].life # "dropped" /\ toEnd' = toEnd \ {v}
           /\ UpdateViewer(v, [viewer[v] EXCEPT !.life = "ended", !.muted = FALSE, !.presence = @ + 1])
    BY <1>10 DEF EndViewer
  <2> DEFINE new == [viewer[v] EXCEPT !.life = "ended", !.muted = FALSE, !.presence = @ + 1]
  <2>2. v \in Viewers /\ new \in ViewerRec /\ new.life = "ended"
    BY <1>a, <2>1, ViewerChanges DEF FenceOK, ViewerRec
  <2>3. Keeps(v, new)
    <3>1. viewer[v] \in ViewerRec
      BY <1>a, <2>2 DEF FenceOK
    <3>2. Grows(viewer[v], new)
      <4>1. new.presence = viewer[v].presence + 1 /\ new.moderation = viewer[v].moderation
        BY <3>1 DEF ViewerRec
      <4>2. QED BY <3>1, <4>1, GrowsByOne
    <3>3. QED BY <1>a, <2>1, <2>2, <3>2 DEF Keeps, Gone, EndsRealViewers
  <2>4. QED BY <1>2, <1>10, <2>1, <2>2, <2>3 DEF EndViewer
<1>11. CASE EndViewerFails
  BY <1>1, <1>11 DEF EndViewerFails, fence
<1>12. CASE \/ \E i \in Items :
               \/ \E v \in Viewers : Dispatch(i, v)
               \/ Claim(i) \/ DropItem(i)
               \/ \E kind \in {"publish", "silence", "behaviour"} : BeginEffect(i, kind)
            \/ StopRuntime \/ StopFence \/ UNCHANGED vars
  BY <1>1, <1>12 DEF Dispatch, Claim, DropItem, BeginEffect, StopRuntime, StopFence, vars, fence
<1>13. QED BY <1>4, <1>5, <1>6, <1>7, <1>8, <1>9, <1>10, <1>11, <1>12 DEF Next, CallerAct

\* Whoever was kicked, dropped or ended stays out, whatever older snapshot is committed.
THEOREM GoneForGood == Spec => IdentityNeverReturns
<1>1. Init => LivesInv
  <2>1. InitialTarget \in Nat /\ MaxOrdinal \in Nat
    BY BoundsAssumption
  <2>2. QED BY <2>1 DEF Init, LivesInv, ApplyFresh, OrdinalFresh, EndsRealViewers, Viewers,
                       NewViewer, NoViewer
<1>2. TypeOK /\ TypeOK' /\ LivesInv /\ [Next]_vars => LivesInv'
  BY LivesStep
<1>3. TypeOK /\ TypeOK' /\ LivesInv /\ [Next]_vars
        => [\A v \in Viewers : viewer[v].life \in {"kicked", "dropped", "ended"}
               => viewer'[v].life \in {"kicked", "dropped", "ended"}]_vars
  BY LivesStep DEF Gone
<1>4. QED BY <1>1, <1>2, <1>3, TypeCorrect, PTL DEF Spec, IdentityNeverReturns

---------------------------------------------------------------------------
(* Check and effect, seen from the Room.                                   *)

\* A question is no newer than its viewer, and where it is not older the viewer may speak.
Asked(w, r) ==
    /\ w.presence <= r.presence /\ w.moderation <= r.moderation
    /\ w.presence = r.presence /\ w.moderation = r.moderation => ~r.muted

BlankInv == \A v \in Viewers :
    viewer[v].life = "absent" => viewer[v].presence = 0 /\ viewer[v].moderation = 0

SnapshotInv ==
    apply # None /\ apply.population = population =>
        \A v \in Viewers : Standing(apply.viewer[v]) = Standing(viewer[v])

QuestionInv == \A i \in Items : item[i].phase # "free" =>
    Asked(item[i], viewer[item[i].viewer]) /\ item[i].sequence <= MaxSequence

AskedInv == BlankInv /\ SnapshotInv /\ QuestionInv

LEMMA AskedKept ==
  ASSUME NEW w \in ItemRec, NEW r \in ViewerRec, NEW s \in ViewerRec, Asked(w, r), Grows(r, s)
  PROVE  Asked(w, s)
<1>1. /\ w.presence \in Nat /\ r.presence \in Nat /\ s.presence \in Nat
      /\ w.moderation \in Nat /\ r.moderation \in Nat /\ s.moderation \in Nat
      /\ r.muted \in BOOLEAN /\ s.muted \in BOOLEAN
  BY DEF ItemRec, ViewerRec
<1>2. w.presence <= s.presence /\ w.moderation <= s.moderation
  BY <1>1 DEF Asked, Grows
<1>3. ASSUME w.presence = s.presence, w.moderation = s.moderation PROVE ~s.muted
  <2>1. r.presence = s.presence /\ r.moderation = s.moderation
    BY <1>1, <1>3 DEF Asked, Grows
  <2>2. ~(r.presence < s.presence) /\ ~(r.moderation < s.moderation)
    BY <1>1, <2>1
  <2>3. r.muted = s.muted /\ ~r.muted
    BY <1>3, <2>1, <2>2 DEF Asked, Grows
  <2>4. QED BY <2>3
<1>4. QED BY <1>2, <1>3 DEF Asked

\* Records with the same standing.
LEMMA SameStanding ==
  ASSUME NEW r \in ViewerRec, NEW s \in ViewerRec, Standing(r) = Standing(s)
  PROVE  /\ r.presence = s.presence /\ r.moderation = s.moderation /\ r.muted = s.muted
         /\ r.life = "absent" <=> s.life = "absent"
         /\ r.life = "active" <=> s.life = "active"
<1>1. /\ r.presence = s.presence /\ r.moderation = s.moderation /\ r.muted = s.muted
      /\ Place(r.life) = Place(s.life)
  BY DEF Standing
<1>2. QED BY <1>1 DEF Place, ViewerRec, Lives

\* What a step makes of a viewer's record.
Goes(old, new) ==
    /\ Grows(old, new)
    /\ new.life = "absent" => /\ old.life = "absent"
                              /\ new.presence = old.presence /\ new.moderation = old.moderation

LEMMA StandingGoes ==
  ASSUME NEW r \in ViewerRec, NEW s \in ViewerRec, Standing(r) = Standing(s)
  PROVE  Goes(r, s)
<1>1. /\ r.presence = s.presence /\ r.moderation = s.moderation /\ r.muted = s.muted
      /\ r.life = "absent" <=> s.life = "absent"
      /\ r.life = "active" <=> s.life = "active"
  BY SameStanding
<1>2. r.presence \in Nat /\ r.moderation \in Nat
  BY DEF ViewerRec
<1>3. QED BY <1>1, <1>2 DEF Goes, Grows

\* The viewers a hot update commits.
LEMMA CommitGoes ==
  ASSUME TypeOK, TypeOK', LivesInv, BlankInv, SnapshotInv, CommitApply, NEW v \in Viewers
  PROVE  Goes(viewer[v], viewer'[v])
<1> DEFINE p == apply.viewer[v]
           s == IF claims[v] = None THEN p.sequence ELSE claims[v]
           added == Added(apply.viewer, apply.target, apply.ordinal)
<1>1. /\ apply \in ApplyRec /\ apply.ordinal = ordinal /\ Standing(p) = Standing(viewer[v])
      /\ viewer' = NextPool(apply.viewer, apply.target, apply.ordinal, apply.epoch + 1)
  BY DEF TypeOK, CommitApply, LivesInv, ApplyFresh, SnapshotInv
<1>2. p \in ViewerRec /\ viewer[v] \in ViewerRec /\ viewer'[v] \in ViewerRec
  BY <1>1 DEF ApplyRec, TypeOK, FenceOK
<1>3. /\ p.presence = viewer[v].presence /\ p.moderation = viewer[v].moderation
      /\ p.muted = viewer[v].muted
      /\ p.life = "absent" <=> viewer[v].life = "absent"
      /\ p.life = "active" <=> viewer[v].life = "active"
  BY <1>1, <1>2, SameStanding
<1>4. \/ v \in added /\ viewer'[v] = NewViewer(apply.epoch + 1)
      \/ viewer'[v] = p
      \/ p.life = "active" /\ viewer'[v] = [p EXCEPT !.life = "dropped"]
      \/ viewer'[v] = [p EXCEPT !.epoch = apply.epoch + 1, !.sequence = s]
  <2> HIDE DEF added
  <2>1. QED BY <1>1 DEF NextPool, added
<1>5. CASE v \in added /\ viewer'[v] = NewViewer(apply.epoch + 1)
  <2>1. v >= ordinal
    <3> DEFINE m == Missing(apply.viewer, apply.target)
    <3>1. m \in Nat /\ ordinal \in Nat
      BY <1>1, MissingCount DEF ApplyRec, TypeOK, FenceOK
    <3>2. v \in ordinal..(ordinal + m - 1)
      BY <1>1, <1>5 DEF Added
    <3> HIDE DEF m
    <3>3. QED BY <3>1, <3>2
  <2>2. viewer[v].presence = 0 /\ viewer[v].moderation = 0 /\ viewer[v].life = "absent"
    BY <2>1 DEF LivesInv, OrdinalFresh, BlankInv
  <2>3. /\ viewer'[v].presence = 1 /\ viewer'[v].moderation = 1 /\ viewer'[v].life = "active"
    BY <1>5 DEF NewViewer
  <2>4. QED BY <2>2, <2>3 DEF Goes, Grows
<1>6. CASE viewer'[v] = p
  BY <1>1, <1>2, <1>6, StandingGoes
<1>7. CASE p.life = "active" /\ viewer'[v] = [p EXCEPT !.life = "dropped"]
  <2>1. /\ viewer'[v].presence = p.presence /\ viewer'[v].moderation = p.moderation
        /\ viewer'[v].muted = p.muted /\ viewer'[v].life = "dropped"
        /\ p.presence \in Nat /\ p.moderation \in Nat
    BY <1>2, <1>7 DEF ViewerRec
  <2>2. QED BY <1>3, <2>1 DEF Goes, Grows
<1>8. CASE viewer'[v] = [p EXCEPT !.epoch = apply.epoch + 1, !.sequence = s]
  <2> HIDE DEF s
  <2>1. /\ viewer'[v].presence = p.presence /\ viewer'[v].moderation = p.moderation
        /\ viewer'[v].muted = p.muted /\ viewer'[v].life = p.life
    BY <1>2, <1>8 DEF ViewerRec
  <2>2. Standing(viewer'[v]) = Standing(viewer[v])
    BY <1>1, <2>1 DEF Standing
  <2>3. QED BY <1>2, <2>2, StandingGoes
<1>9. QED BY <1>4, <1>5, <1>6, <1>7, <1>8

\* Every step but a hot update leaves the audience standing as it was, or moves one viewer
\* together with the population.
OneMoves ==
    \E v \in Viewers :
        /\ \A u \in Viewers \ {v} : viewer'[u] = viewer[u]
        /\ Goes(viewer[v], viewer'[v])
        /\ population' = population + 1
        /\ UNCHANGED <<accepting, epoch, item, room, apply>>

NobodyMoves ==
    /\ \A v \in Viewers : Standing(viewer'[v]) = Standing(viewer[v])
    /\ UNCHANGED <<population, epoch>>
    /\ apply' = None \/ apply' = apply \/ apply'.viewer = viewer

LEMMA UpdateMoves ==
  ASSUME TypeOK, NEW v \in Viewers, NEW new \in ViewerRec, UpdateViewer(v, new), Keeps(v, new),
         UNCHANGED <<item, room, apply>>
  PROVE  OneMoves
<1>1. /\ \A u \in Viewers \ {v} : viewer'[u] = viewer[u]
      /\ viewer'[v] = new /\ population' = population + 1
      /\ UNCHANGED <<accepting, epoch>>
  BY DEF UpdateViewer, TypeOK, FenceOK
<1>2. Goes(viewer[v], new)
  BY DEF Keeps, Goes
<1>3. QED BY <1>1, <1>2 DEF OneMoves

LEMMA AddMoves ==
  ASSUME TypeOK, BlankInv, NEW v \in Viewers, NEW e \in Nat, AddViewer(v, e),
         UNCHANGED <<item, room, apply>>
  PROVE  OneMoves
<1>1. /\ \A u \in Viewers \ {v} : viewer'[u] = viewer[u]
      /\ viewer'[v] = NewViewer(e) /\ population' = population + 1
      /\ UNCHANGED <<accepting, epoch>>
  BY DEF AddViewer, TypeOK, FenceOK
<1>2. viewer[v].presence = 0 /\ viewer[v].moderation = 0
  BY DEF AddViewer, BlankInv
<1>3. Goes(viewer[v], NewViewer(e))
  BY <1>2 DEF Goes, Grows, NewViewer
<1>4. QED BY <1>1, <1>3 DEF OneMoves

LEMMA CallerMoves ==
  ASSUME TypeOK, BlankInv, NEW c \in Callers, CallerAct(c) PROVE OneMoves \/ NobodyMoves
<1>1. UNCHANGED <<runtime, apply, stopping, toEnd>> /\ OneUpdate
  BY CallerStep
<1>2. UNCHANGED <<item, room, apply>>
  BY <1>1 DEF runtime
<1>3. CASE UNCHANGED fence
  BY <1>2, <1>3 DEF NobodyMoves, fence
<1>4. ASSUME NEW v \in Viewers, NEW new \in ViewerRec, UpdateViewer(v, new), Keeps(v, new)
      PROVE  OneMoves
  BY <1>2, <1>4, UpdateMoves
<1>5. ASSUME NEW v \in Viewers, NEW e \in Nat, AddViewer(v, e) PROVE OneMoves
  BY <1>2, <1>5, AddMoves
<1>6. QED BY <1>1, <1>3, <1>4, <1>5 DEF OneUpdate

LEMMA EndViewerMoves ==
  ASSUME TypeOK, LivesInv, EndViewer PROVE OneMoves
<1>1. PICK v \in toEnd :
         /\ viewer[v].life # "dropped" /\ toEnd' = toEnd \ {v}
         /\ UpdateViewer(v, [viewer[v] EXCEPT !.life = "ended", !.muted = FALSE, !.presence = @ + 1])
  BY DEF EndViewer
<1> DEFINE new == [viewer[v] EXCEPT !.life = "ended", !.muted = FALSE, !.presence = @ + 1]
<1>2. v \in Viewers /\ viewer[v] \in ViewerRec /\ new \in ViewerRec /\ viewer[v].life # "absent"
  BY <1>1, ViewerChanges DEF TypeOK, FenceOK, LivesInv, EndsRealViewers
<1>3. /\ new.life = "ended" /\ new.presence = viewer[v].presence + 1
      /\ new.moderation = viewer[v].moderation
  BY <1>2 DEF ViewerRec
<1>4. Grows(viewer[v], new)
  BY <1>2, <1>3, GrowsByOne
<1>5. Keeps(v, new)
  BY <1>2, <1>3, <1>4 DEF Keeps, Gone
<1>6. UNCHANGED <<item, room, apply>>
  BY DEF EndViewer, runtime
<1>7. QED BY <1>1, <1>2, <1>5, <1>6, UpdateMoves

\* A viewer's own state takes a sequence, which its standing does not show.
LEMMA EndEffectMovesNobody ==
  ASSUME TypeOK, EndEffect PROVE NobodyMoves
<1>1. UNCHANGED <<population, epoch, apply>>
  BY DEF EndEffect
<1>2. CASE UNCHANGED viewer
  BY <1>1, <1>2 DEF NobodyMoves
<1>3. CASE \E v : \E n : viewer' = [viewer EXCEPT ![v].sequence = n]
  <2>1. PICK v, n : viewer' = [viewer EXCEPT ![v].sequence = n]
    BY <1>3
  <2>2. ASSUME NEW u \in Viewers PROVE Standing(viewer'[u]) = Standing(viewer[u])
    <3>1. viewer[u] \in ViewerRec
      BY DEF TypeOK, FenceOK
    <3>2. viewer'[u] = viewer[u] \/ viewer'[u] = [viewer[u] EXCEPT !.sequence = n]
      BY <2>1 DEF TypeOK, FenceOK
    <3>3. /\ viewer'[u].life = viewer[u].life /\ viewer'[u].muted = viewer[u].muted
          /\ viewer'[u].presence = viewer[u].presence
          /\ viewer'[u].moderation = viewer[u].moderation
      BY <3>1, <3>2 DEF ViewerRec
    <3>4. QED BY <3>3 DEF Standing
  <2>3. QED BY <1>1, <2>2 DEF NobodyMoves
<1>4. QED BY <1>2, <1>3 DEF EndEffect

LEMMA Moves ==
  ASSUME TypeOK, LivesInv, BlankInv, [Next]_vars PROVE CommitApply \/ OneMoves \/ NobodyMoves
<1>1. ASSUME NEW i \in Items, NEW v \in Viewers, Dispatch(i, v) PROVE NobodyMoves
  BY <1>1 DEF Dispatch, NobodyMoves, fence
<1>2. ASSUME NEW i \in Items, Claim(i) \/ DropItem(i) PROVE NobodyMoves
  BY <1>2 DEF Claim, DropItem, NobodyMoves, fence
<1>3. ASSUME NEW i \in Items, NEW kind \in {"publish", "silence", "behaviour"}, BeginEffect(i, kind)
      PROVE  NobodyMoves
  BY <1>3 DEF BeginEffect, NobodyMoves, fence
<1>4. ASSUME NEW t \in Targets, BeginApply(t) PROVE NobodyMoves
  BY <1>4 DEF BeginApply, NobodyMoves, fence
<1>5. CASE ApplyFails \/ StopRuntime \/ StopAudience \/ EndViewerFails \/ StopFence \/ UNCHANGED vars
  BY <1>5 DEF ApplyFails, StopRuntime, StopAudience, EndViewerFails, StopFence, vars, fence,
              NobodyMoves
<1>6. QED BY <1>1, <1>2, <1>3, <1>4, <1>5, CallerMoves, EndViewerMoves, EndEffectMovesNobody
          DEF Next, CallerAct

LEMMA AllGo ==
  ASSUME TypeOK, TypeOK', LivesInv, BlankInv, SnapshotInv, [Next]_vars
  PROVE  \A v \in Viewers : Goes(viewer[v], viewer'[v])
<1>1. \A v \in Viewers : viewer[v] \in ViewerRec /\ viewer'[v] \in ViewerRec
  BY DEF TypeOK, FenceOK
<1>2. CASE CommitApply
  BY <1>2, CommitGoes
<1>3. CASE OneMoves
  <2>1. \A v \in Viewers : viewer'[v] = viewer[v] => Goes(viewer[v], viewer'[v])
    BY <1>1, StandingGoes
  <2>2. QED BY <1>3, <2>1 DEF OneMoves
<1>4. CASE NobodyMoves
  BY <1>1, <1>4, StandingGoes DEF NobodyMoves
<1>5. QED BY <1>2, <1>3, <1>4, Moves

---------------------------------------------------------------------------
\* What a step does to a work item, as far as its question goes.
SameQuestion(w, x) ==
    /\ x.phase # "free"
    /\ x.viewer = w.viewer /\ x.epoch = w.epoch
    /\ x.presence = w.presence /\ x.moderation = w.moderation
    /\ x.sequence <= MaxSequence

LEMMA ItemsStep ==
  ASSUME TypeOK, QuestionInv, [Next]_vars, NEW i \in Items
  PROVE  \/ item'[i].phase = "free"
         \/ item[i].phase # "free" /\ SameQuestion(item[i], item'[i])
         \/ item[i].phase = "free" /\ \E v \in Viewers : Dispatch(i, v)
<1> DEFINE Good == \/ item'[i].phase = "free"
                   \/ item[i].phase # "free" /\ SameQuestion(item[i], item'[i])
                   \/ item[i].phase = "free" /\ \E v \in Viewers : Dispatch(i, v)
<1>a. item \in [Items -> ItemRec] /\ item[i] \in ItemRec
  BY DEF TypeOK, RuntimeOK
<1>0. ASSUME item'[i] = item[i] PROVE Good
  BY <1>0 DEF QuestionInv, SameQuestion
<1>1. ASSUME NEW j \in Items, NEW v \in Viewers, Dispatch(j, v) PROVE Good
  <2>1. CASE j = i
    BY <1>1, <2>1 DEF Dispatch
  <2>2. CASE j # i
    BY <1>a, <1>0, <1>1, <2>2 DEF Dispatch
  <2>3. QED BY <2>1, <2>2
<1>2. ASSUME NEW j \in Items, Claim(j) PROVE Good
  <2>1. CASE j # i
    BY <1>a, <1>0, <1>2, <2>1 DEF Claim
  <2>2. CASE j = i /\ item' = [item EXCEPT ![i] = FreeItem]
    BY <1>a, <2>2 DEF FreeItem
  <2>3. CASE j = i /\ Grants(item[i], Proposed(item[i]))
    <3> DEFINE n == Proposed(item[i])
    <3>1. /\ item[i].phase = "built" /\ n <= MaxSequence
          /\ item' = [item EXCEPT ![i].phase = "claimed", ![i].sequence = n]
      BY <1>2, <2>3 DEF Claim
    <3> HIDE DEF n
    <3>2. item'[i] = [item[i] EXCEPT !.phase = "claimed", !.sequence = n]
      BY <1>a, <3>1
    <3>3. /\ item'[i].phase = "claimed" /\ item'[i].sequence = n
          /\ item'[i].viewer = item[i].viewer /\ item'[i].epoch = item[i].epoch
          /\ item'[i].presence = item[i].presence /\ item'[i].moderation = item[i].moderation
      BY <1>a, <3>2 DEF ItemRec
    <3>4. QED BY <3>1, <3>3 DEF SameQuestion
  <2>4. QED BY <1>2, <2>1, <2>2, <2>3 DEF Claim
<1>3. ASSUME NEW j \in Items, DropItem(j) PROVE Good
  <2>1. CASE j = i
    BY <1>a, <1>3, <2>1 DEF DropItem, FreeItem
  <2>2. CASE j # i
    BY <1>a, <1>0, <1>3, <2>2 DEF DropItem
  <2>3. QED BY <2>1, <2>2
<1>4. CASE EndEffect
  <2>1. CASE i # effect.item
    BY <1>a, <1>0, <1>4, <2>1 DEF EndEffect
  <2>2. CASE i = effect.item /\ item' = [item EXCEPT ![i] = FreeItem]
    BY <1>a, <2>2 DEF FreeItem
  <2>3. CASE i = effect.item /\ item' = [item EXCEPT ![i].phase = "published"]
    <3>1. item'[i] = [item[i] EXCEPT !.phase = "published"]
      BY <1>a, <2>3
    <3>2. /\ item'[i].phase = "published" /\ item'[i].sequence = item[i].sequence
          /\ item'[i].viewer = item[i].viewer /\ item'[i].epoch = item[i].epoch
          /\ item'[i].presence = item[i].presence /\ item'[i].moderation = item[i].moderation
      BY <1>a, <3>1 DEF ItemRec
    <3>3. item[i].phase # "free"
      BY <1>4, <2>3 DEF TypeOK, RuntimeOK, EndEffect
    <3>4. QED BY <3>2, <3>3 DEF SameQuestion, QuestionInv
  <2>4. QED BY <1>4, <2>1, <2>2, <2>3 DEF EndEffect
<1>5. CASE StopRuntime
  BY <1>5 DEF StopRuntime, FreeItem
<1>6. ASSUME NEW c \in Callers, CallerAct(c) PROVE Good
  BY <1>0, <1>6, CallerStep DEF runtime
<1>7. CASE \/ \E j \in Items, kind \in {"publish", "silence", "behaviour"} : BeginEffect(j, kind)
           \/ (\E t \in Targets : BeginApply(t)) \/ CommitApply \/ ApplyFails \/ StopAudience
           \/ EndViewer \/ EndViewerFails \/ StopFence \/ UNCHANGED vars
  BY <1>0, <1>7 DEF BeginEffect, BeginApply, CommitApply, ApplyFails, StopAudience, EndViewer,
                    EndViewerFails, StopFence, runtime, vars
<1>8. QED BY <1>1, <1>2, <1>3, <1>4, <1>5, <1>6, <1>7 DEF Next, CallerAct

LEMMA AskedStep ==
  ASSUME TypeOK, TypeOK', LivesInv, AskedInv, [Next]_vars PROVE AskedInv'
<1>a. BlankInv /\ SnapshotInv /\ QuestionInv
  BY DEF AskedInv
<1>b. \A v \in Viewers : Goes(viewer[v], viewer'[v])
  BY <1>a, AllGo
<1>c. /\ \A v \in Viewers : viewer[v] \in ViewerRec /\ viewer'[v] \in ViewerRec
      /\ item \in [Items -> ItemRec] /\ population \in Nat
      /\ apply # None => apply \in ApplyRec
  BY DEF TypeOK, FenceOK, RuntimeOK
<1>1. BlankInv'
  BY <1>a, <1>b DEF BlankInv, Goes
<1>2. SnapshotInv'
  <2>1. CASE CommitApply
    BY <2>1 DEF CommitApply, SnapshotInv
  <2>2. CASE OneMoves
    <3>1. apply # None => apply.population \in Nat /\ apply.population <= population
      BY <1>c DEF ApplyRec, LivesInv, ApplyFresh
    <3>2. QED BY <1>c, <2>2, <3>1 DEF OneMoves, SnapshotInv
  <2>3. CASE NobodyMoves
    BY <1>a, <2>3 DEF NobodyMoves, SnapshotInv
  <2>4. QED BY <1>a, <2>1, <2>2, <2>3, Moves
<1>3. QuestionInv'
  <2> SUFFICES ASSUME NEW i \in Items, item'[i].phase # "free"
               PROVE  Asked(item'[i], viewer'[item'[i].viewer]) /\ item'[i].sequence <= MaxSequence
    BY DEF QuestionInv
  <2>1. CASE item[i].phase # "free" /\ SameQuestion(item[i], item'[i])
    <3>1. item[i] \in ItemRec /\ item[i].viewer \in Viewers
      BY <1>c, <2>1 DEF ItemRec
    <3>2. Asked(item[i], viewer[item[i].viewer])
      BY <1>a, <2>1 DEF QuestionInv
    <3>3. Grows(viewer[item[i].viewer], viewer'[item[i].viewer])
      BY <1>b, <3>1 DEF Goes
    <3>4. Asked(item[i], viewer'[item[i].viewer])
      BY <1>c, <3>1, <3>2, <3>3, AskedKept
    <3>5. QED BY <2>1, <3>4 DEF SameQuestion, Asked
  <2>2. ASSUME NEW v \in Viewers, Dispatch(i, v)
        PROVE  Asked(item'[i], viewer'[item'[i].viewer]) /\ item'[i].sequence <= MaxSequence
    <3>1. /\ item'[i].viewer = v /\ item'[i].sequence = 0 /\ ~viewer[v].muted
          /\ item'[i].presence = viewer[v].presence /\ item'[i].moderation = viewer[v].moderation
          /\ viewer' = viewer
      BY <1>c, <2>2 DEF Dispatch, fence
    <3>2. viewer[v].presence \in Nat /\ viewer[v].moderation \in Nat /\ MaxSequence \in Nat
      BY <1>c, BoundsAssumption DEF ViewerRec
    <3>3. QED BY <3>1, <3>2 DEF Asked
  <2>3. QED BY <1>a, <2>1, <2>2, ItemsStep
<1>4. QED BY <1>1, <1>2, <1>3 DEF AskedInv

---------------------------------------------------------------------------
(* The steps of AudienceFence, mapped.                                     *)

SameWork == \A i \in Items : Question(item'[i]) = Question(item[i])
SameAudience == \A v \in Viewers : Standing(viewer'[v]) = Standing(viewer[v])

LEMMA SameToAtomic ==
  ASSUME UNCHANGED <<accepting, epoch, room>>, SameAudience, SameWork
  PROVE  UNCHANGED Atomic!vars
BY DEF Atomic!vars, SameAudience, SameWork

\* The items in `items' are dropped, the others keep their questions.
LEMMA DropToAtomic ==
  ASSUME NEW items \in SUBSET Items, UNCHANGED <<accepting, epoch, room>>, SameAudience,
         \A i \in items : item'[i].phase = "free",
         \A i \in Items \ items : item'[i] = item[i]
  PROVE  Atomic!Next
<1>1. \A i \in Items : Question(item'[i]) = IF i \in items THEN {} ELSE Question(item[i])
  BY DEF Question
<1>2. Atomic!Drop(items)
  BY <1>1 DEF Atomic!Drop, SameAudience
<1>3. QED BY <1>2 DEF Atomic!Next

LEMMA LaterFrom ==
  ASSUME NEW r \in ViewerRec, NEW s \in ViewerRec, Goes(r, s), r.life \in Gone => s.life \in Gone
  PROVE  Atomic!Later(Standing(r), Standing(s))
<1>1. /\ Place(r.life) = "gone" <=> r.life \in Gone
      /\ Place(s.life) = "gone" <=> s.life \in Gone
      /\ Place(r.life) = "new" <=> r.life = "absent"
      /\ Place(s.life) = "new" <=> s.life = "absent"
      /\ Place(r.life) = "in" <=> r.life = "active"
      /\ Place(s.life) = "in" <=> s.life = "active"
  BY DEF Place, Gone, ViewerRec, Lives
<1>2. /\ Standing(r).life = Place(r.life) /\ Standing(r).muted = r.muted
      /\ Standing(r).presence = r.presence /\ Standing(r).moderation = r.moderation
      /\ Standing(s).life = Place(s.life) /\ Standing(s).muted = s.muted
      /\ Standing(s).presence = s.presence /\ Standing(s).moderation = s.moderation
  BY DEF Standing
<1>3. QED BY <1>1, <1>2 DEF Atomic!Later, Goes, Grows

LEMMA AllLater ==
  ASSUME TypeOK, TypeOK', LivesInv, AskedInv, [Next]_vars
  PROVE  \A v \in Viewers : Atomic!Later(Standing(viewer[v]), Standing(viewer'[v]))
<1>1. \A v \in Viewers : viewer[v] \in ViewerRec /\ viewer'[v] \in ViewerRec
  BY DEF TypeOK, FenceOK
<1>2. \A v \in Viewers : Goes(viewer[v], viewer'[v])
  BY AllGo DEF AskedInv
<1>3. \A v \in Viewers : viewer[v].life \in Gone => viewer'[v].life \in Gone
  BY LivesStep
<1>4. QED BY <1>1, <1>2, <1>3, LaterFrom

LEMMA MoveToAtomic ==
  ASSUME OneMoves,
         \A v \in Viewers : Atomic!Later(Standing(viewer[v]), Standing(viewer'[v]))
  PROVE  Atomic!Next
<1>1. PICK v \in Viewers : \A u \in Viewers \ {v} : viewer'[u] = viewer[u]
  BY DEF OneMoves
<1>2. UNCHANGED <<accepting, epoch, item, room>>
  BY DEF OneMoves
<1>3. Atomic!Move(v)
  BY <1>1, <1>2 DEF Atomic!Move
<1>4. QED BY <1>3 DEF Atomic!Next

LEMMA DispatchToAtomic ==
  ASSUME TypeOK, NEW i \in Items, NEW v \in Viewers, Dispatch(i, v) PROVE Atomic!Next
<1>1. viewer[v] \in ViewerRec /\ item \in [Items -> ItemRec]
  BY DEF TypeOK, FenceOK, RuntimeOK
<1>2. /\ Standing(viewer[v]).life = "in" /\ Standing(viewer[v]).muted = viewer[v].muted
      /\ Standing(viewer[v]).presence = viewer[v].presence
      /\ Standing(viewer[v]).moderation = viewer[v].moderation
  BY DEF Dispatch, Standing, Place
<1>3. Question(item[i]) = {} /\ \A j \in Items \ {i} : item'[j] = item[j]
  BY <1>1 DEF Dispatch, Question
<1>4. Question(item'[i]) = {[viewer |-> v, epoch |-> epoch, said |-> FALSE,
                             presence |-> viewer[v].presence,
                             moderation |-> viewer[v].moderation]}
  BY <1>1 DEF Dispatch, Question
<1>5. UNCHANGED <<accepting, epoch, viewer, room>> /\ accepting /\ ~viewer[v].muted
  BY DEF Dispatch, fence
<1>6. Atomic!Ask(i, v)
  BY <1>2, <1>3, <1>4, <1>5 DEF Atomic!Ask
<1>7. QED BY <1>6 DEF Atomic!Next

\* The append under the effect lock: what the fence found when it was taken still holds.
LEMMA PublishToAtomic ==
  ASSUME TypeOK, TokenInv, AskedInv, EndEffect, room' # room PROVE Atomic!Next
<1> DEFINE i == effect.item
           w == item[i]
           r == viewer[w.viewer]
           q == [viewer |-> w.viewer, epoch |-> w.epoch, said |-> FALSE,
                 presence |-> w.presence, moderation |-> w.moderation]
<1>1. /\ effect # None /\ effect.kind = "publish" /\ room' = room \cup {Token(w)}
      /\ item' = [item EXCEPT ![i].phase = "published"]
      /\ UNCHANGED <<accepting, epoch, viewer>>
  BY DEF EndEffect
<1>2. /\ i \in Items /\ w \in ItemRec /\ item \in [Items -> ItemRec]
      /\ w.phase = "claimed" /\ Accepts(w)
  BY <1>1 DEF TypeOK, RuntimeOK, EffectRec, TokenInv, EffectHeld
<1>3. w.viewer \in Viewers /\ r \in ViewerRec /\ w.sequence \in Nat
  BY <1>2 DEF ItemRec, TypeOK, FenceOK
<1>4. /\ accepting /\ w.epoch = epoch /\ r.life = "active"
      /\ r.presence = w.presence /\ r.moderation = w.moderation
  BY <1>2 DEF Accepts
<1>5. ~r.muted /\ w.sequence <= MaxSequence
  BY <1>2, <1>4 DEF AskedInv, QuestionInv, Asked
<1>6. Standing(r) = [life |-> "in", muted |-> FALSE, presence |-> w.presence,
                     moderation |-> w.moderation]
  <2>1. r.muted = FALSE
    BY <1>3, <1>5 DEF ViewerRec
  <2>2. QED BY <1>4, <2>1 DEF Standing, Place
<1>7. w.sequence \in 0..MaxSequence
  BY <1>3, <1>5, BoundsAssumption
<1>8. Token(w) = <<w.viewer, epoch, w.sequence>> /\ Token(w) \notin room
  BY <1>2, <1>4 DEF Token, TokenInv, OneTokenOneResult
<1>9. Question(w) = {q}
  BY <1>2 DEF Question
<1>10. item'[i] = [w EXCEPT !.phase = "published"] /\ \A j \in Items \ {i} : item'[j] = item[j]
  BY <1>1, <1>2
<1>11. Question(item'[i]) = {[q EXCEPT !.said = TRUE]}
  <2>1. /\ item'[i].phase = "published" /\ item'[i].viewer = w.viewer
        /\ item'[i].epoch = w.epoch /\ item'[i].presence = w.presence
        /\ item'[i].moderation = w.moderation
    BY <1>2, <1>10 DEF ItemRec
  <2>2. [q EXCEPT !.said = TRUE] = [viewer |-> w.viewer, epoch |-> w.epoch, said |-> TRUE,
                                   presence |-> w.presence, moderation |-> w.moderation]
    <3> DEFINE Q == [viewer : {w.viewer}, epoch : {w.epoch}, said : BOOLEAN,
                     presence : {w.presence}, moderation : {w.moderation}]
    <3> HIDE DEF w
    <3>1. /\ [q EXCEPT !.said = TRUE] \in Q /\ [q EXCEPT !.said = TRUE].said = TRUE
          /\ [viewer |-> w.viewer, epoch |-> w.epoch, said |-> TRUE,
              presence |-> w.presence, moderation |-> w.moderation] \in Q
      OBVIOUS
    <3>2. \A x, y \in Q : x.said = y.said => x = y
      OBVIOUS
    <3>3. QED BY <3>1, <3>2
  <2>3. (item'[i].phase = "published") = TRUE /\ item'[i].phase # "free"
    BY <2>1
  <2> HIDE DEF w, i, q
  <2>4. Question(item'[i]) = {[viewer |-> w.viewer, epoch |-> w.epoch, said |-> TRUE,
                              presence |-> w.presence, moderation |-> w.moderation]}
    BY <2>1, <2>3 DEF Question
  <2>5. QED BY <2>2, <2>4
<1>12. Atomic!Publish(i)
  <2> HIDE DEF q
  <2>1. q.epoch = epoch /\ ~q.said /\ q.viewer = w.viewer
        /\ q.presence = w.presence /\ q.moderation = w.moderation
    BY <1>4 DEF q
  <2>2. [j \in Items |-> Question(item[j])]' =
           [[j \in Items |-> Question(item[j])] EXCEPT ![i] = {[q EXCEPT !.said = TRUE]}]
    BY <1>2, <1>10, <1>11
  <2>3. [u \in Viewers |-> Standing(viewer[u])][w.viewer] =
           [life |-> "in", muted |-> FALSE, presence |-> q.presence, moderation |-> q.moderation]
    BY <1>3, <1>6, <2>1
  <2>4. <<w.viewer, epoch, w.sequence>> \notin room /\ room' = room \cup {<<w.viewer, epoch, w.sequence>>}
    BY <1>1, <1>8
  <2>5. q \in [j \in Items |-> Question(item[j])][i]
    BY <1>2, <1>9
  <2> HIDE DEF i, w, r
  <2>6. QED BY <1>1, <1>4, <1>7, <2>1, <2>2, <2>3, <2>4, <2>5 DEF Atomic!Publish
<1>13. QED BY <1>2, <1>12 DEF Atomic!Next

\* What ends without an answer drops its question.
LEMMA EndToAtomic ==
  ASSUME TypeOK, TokenInv, EndEffect, room' = room PROVE Atomic!Next \/ UNCHANGED Atomic!vars
<1> DEFINE i == effect.item
<1>1. /\ i \in Items /\ item \in [Items -> ItemRec] /\ SameAudience
      /\ UNCHANGED <<accepting, epoch, room>>
  BY EndEffectMovesNobody DEF EndEffect, TypeOK, RuntimeOK, EffectRec, NobodyMoves, SameAudience
<1>2. CASE item' = [item EXCEPT ![i] = FreeItem]
  <2>1. item'[i].phase = "free" /\ \A j \in Items \ {i} : item'[j] = item[j]
    BY <1>1, <1>2 DEF FreeItem
  <2>2. {i} \in SUBSET Items /\ \A j \in {i} : item'[j].phase = "free"
    BY <1>1, <2>1
  <2> HIDE DEF i
  <2>3. QED BY <1>1, <2>1, <2>2, DropToAtomic
\* a claimed token is not in the Room yet
<1>3. CASE effect.kind = "publish" /\ room' = room \cup {Token(item[i])}
           /\ item' = [item EXCEPT ![i].phase = "published"]
  <2>1. Token(item[i]) \in room
    BY <1>1, <1>3
  <2>2. item[i].phase = "claimed"
    BY <1>3 DEF EndEffect, TokenInv, EffectHeld
  <2>3. QED BY <1>1, <2>1, <2>2 DEF TokenInv, OneTokenOneResult
<1>4. QED BY <1>2, <1>3 DEF EndEffect

LEMMA StepToAtomic ==
  ASSUME TypeOK, TypeOK', LivesInv, TokenInv, AskedInv, [Next]_vars
  PROVE  Atomic!Next \/ UNCHANGED Atomic!vars
<1> DEFINE Good == Atomic!Next \/ UNCHANGED Atomic!vars
<1>a. /\ item \in [Items -> ItemRec] /\ BlankInv
      /\ \A v \in Viewers : Atomic!Later(Standing(viewer[v]), Standing(viewer'[v]))
  BY AllLater DEF TypeOK, RuntimeOK, AskedInv
<1>0. ASSUME UNCHANGED <<accepting, epoch, viewer, room, item>> PROVE Good
  BY <1>0, SameToAtomic DEF SameAudience, SameWork
<1>1. ASSUME NEW i \in Items, NEW v \in Viewers, Dispatch(i, v) PROVE Good
  BY <1>1, DispatchToAtomic
<1>2. ASSUME NEW i \in Items, Claim(i) PROVE Good
  <2>1. UNCHANGED <<accepting, epoch, viewer, room>> /\ SameAudience
    BY <1>2 DEF Claim, SameAudience
  <2>2. CASE item' = [item EXCEPT ![i] = FreeItem]
    <3>1. {i} \in SUBSET Items /\ (\A j \in {i} : item'[j].phase = "free")
          /\ \A j \in Items \ {i} : item'[j] = item[j]
      BY <1>a, <2>2 DEF FreeItem
    <3>2. QED BY <2>1, <3>1, DropToAtomic
  <2>3. CASE Grants(item[i], Proposed(item[i]))
    <3> DEFINE n == Proposed(item[i])
    <3>1. /\ item[i].phase = "built"
          /\ item' = [item EXCEPT ![i].phase = "claimed", ![i].sequence = n]
      BY <1>2, <2>3 DEF Claim
    <3> HIDE DEF n
    <3>2. item'[i] = [item[i] EXCEPT !.phase = "claimed", !.sequence = n]
          /\ \A j \in Items \ {i} : item'[j] = item[j]
      BY <1>a, <3>1
    <3>3. /\ item'[i].phase = "claimed" /\ item'[i].viewer = item[i].viewer
          /\ item'[i].epoch = item[i].epoch /\ item'[i].presence = item[i].presence
          /\ item'[i].moderation = item[i].moderation
      BY <1>a, <3>2 DEF ItemRec
    <3>4. (item'[i].phase = "published") = (item[i].phase = "published")
      BY <3>1, <3>3
    <3>5. Question(item'[i]) = Question(item[i])
      BY <3>1, <3>3, <3>4 DEF Question
    <3>6. SameWork
      BY <3>2, <3>5 DEF SameWork
    <3>7. QED BY <2>1, <3>6, SameToAtomic
  <2>4. QED BY <1>2, <2>2, <2>3 DEF Claim
<1>3. ASSUME NEW i \in Items, DropItem(i) PROVE Good
  <2>1. {i} \in SUBSET Items /\ (\A j \in {i} : item'[j].phase = "free")
        /\ \A j \in Items \ {i} : item'[j] = item[j]
    BY <1>a, <1>3 DEF DropItem, FreeItem
  <2>2. UNCHANGED <<accepting, epoch, viewer, room>> /\ SameAudience
    BY <1>3 DEF DropItem, fence, SameAudience
  <2>3. QED BY <2>1, <2>2, DropToAtomic
<1>4. CASE EndEffect
  BY <1>4, PublishToAtomic, EndToAtomic
<1>5. ASSUME NEW c \in Callers, CallerAct(c) PROVE Good
  <2>1. CASE OneMoves
    BY <1>a, <2>1, MoveToAtomic
  <2>2. CASE UNCHANGED fence
    <3>1. UNCHANGED <<item, room>>
      BY <1>5, CallerStep DEF runtime
    <3>2. QED BY <1>0, <2>2, <3>1 DEF fence
  <2>3. OneMoves \/ UNCHANGED fence
    <3>1. UNCHANGED <<item, room, apply>> /\ OneUpdate
      BY <1>5, CallerStep DEF runtime
    <3>2. ASSUME NEW v \in Viewers, NEW new \in ViewerRec, UpdateViewer(v, new), Keeps(v, new)
          PROVE  OneMoves
      BY <3>1, <3>2, UpdateMoves
    <3>3. ASSUME NEW v \in Viewers, NEW e \in Nat, AddViewer(v, e) PROVE OneMoves
      BY <1>a, <3>1, <3>3, AddMoves
    <3>4. QED BY <3>1, <3>2, <3>3 DEF OneUpdate
  <2>4. QED BY <2>1, <2>2, <2>3
<1>6. CASE EndViewer
  BY <1>a, <1>6, EndViewerMoves, MoveToAtomic
<1>7. CASE CommitApply
  <2>1. /\ epoch' = epoch + 1 /\ accepting' = TRUE /\ UNCHANGED <<item, room>>
    BY <1>7 DEF CommitApply, runtime
  <2>2. Atomic!Renew
    BY <1>a, <2>1 DEF Atomic!Renew
  <2>3. QED BY <2>2 DEF Atomic!Next
<1>8. CASE StopRuntime
  <2>1. Items \in SUBSET Items /\ (\A j \in Items : item'[j].phase = "free")
        /\ \A j \in Items \ Items : item'[j] = item[j]
    BY <1>8 DEF StopRuntime, FreeItem
  <2>2. UNCHANGED <<accepting, epoch, viewer, room>> /\ SameAudience
    BY <1>8 DEF StopRuntime, fence, SameAudience
  <2>3. QED BY <2>1, <2>2, DropToAtomic
<1>9. CASE StopFence
  <2>1. accepting' = FALSE /\ UNCHANGED <<epoch, viewer, item, room>>
    BY <1>9 DEF StopFence, runtime
  <2>2. Atomic!Close
    BY <2>1 DEF Atomic!Close
  <2>3. QED BY <2>2 DEF Atomic!Next
<1>10. CASE \/ \E i \in Items, kind \in {"publish", "silence", "behaviour"} : BeginEffect(i, kind)
            \/ (\E t \in Targets : BeginApply(t)) \/ ApplyFails \/ StopAudience
            \/ EndViewerFails \/ UNCHANGED vars
  BY <1>0, <1>10 DEF BeginEffect, BeginApply, ApplyFails, StopAudience, EndViewerFails,
                     runtime, fence, vars
<1>11. QED BY <1>1, <1>2, <1>3, <1>4, <1>5, <1>6, <1>7, <1>8, <1>9, <1>10 DEF Next, CallerAct

LEMMA InitAtomic ==
  ASSUME Init PROVE Atomic!Init /\ LivesInv /\ TokenInv /\ AskedInv
<1>1. InitialTarget \in Nat /\ MaxOrdinal \in Nat
  BY BoundsAssumption
<1>2. LivesInv
  BY <1>1 DEF Init, LivesInv, ApplyFresh, OrdinalFresh, EndsRealViewers, Viewers,
              NewViewer, NoViewer
<1>3. TokenInv
  BY DEF Init, TokenInv, OneTokenOneResult, TokensSeen, AllSeen, EffectHeld, FreeItem
<1>4. AskedInv
  BY DEF Init, AskedInv, BlankInv, SnapshotInv, QuestionInv, NewViewer, NoViewer, FreeItem
<1>5. \A v \in Viewers : Standing(viewer[v]) \in {Atomic!Unborn, Atomic!Newcomer}
  BY DEF Init, Standing, Place, NewViewer, NoViewer, Atomic!Unborn, Atomic!Newcomer
<1>6. \A i \in Items : Question(item[i]) = {}
  BY DEF Init, Question, FreeItem
<1>7. accepting = TRUE /\ epoch = 1 /\ room = {}
  BY DEF Init
<1>8. Atomic!Init
  BY <1>5, <1>6, <1>7 DEF Atomic!Init
<1>9. QED BY <1>2, <1>3, <1>4, <1>8

\* However far the fence's check and the write lie apart, and whatever mutes, departures,
\* hot updates and stops come in between, the Room sees one step with nothing between the
\* check and the write: the fence implements AtomicFence (ResultsAreAtomic).
THEOREM FenceIsAtomic == Spec => ResultsAreAtomic
<1>1. Init => Atomic!Init /\ LivesInv /\ TokenInv /\ AskedInv
  BY InitAtomic
<1>2. TypeOK /\ TypeOK' /\ LivesInv /\ TokenInv /\ AskedInv /\ [Next]_vars
        => LivesInv' /\ TokenInv' /\ AskedInv'
  BY LivesStep, TokenStep, HeldStep, AskedStep DEF TokenInv
<1>3. TypeOK /\ TypeOK' /\ LivesInv /\ TokenInv /\ AskedInv /\ [Next]_vars
        => [Atomic!Next]_(Atomic!vars)
  BY StepToAtomic
<1>4. QED BY <1>1, <1>2, <1>3, TypeCorrect, PTL DEF Spec, ResultsAreAtomic, Atomic!Spec
==============================================================================
