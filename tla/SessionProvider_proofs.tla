------------------------- MODULE SessionProvider_proofs --------------------------
(***************************************************************************)
(* Proofs about the session service and the provider generations.          *)
(*                                                                         *)
(* SessionLifecycle, for any sets of sessions and tasks and any number of  *)
(* resources: types, that every task is accounted for and that resources   *)
(* follow the session.  ProviderGeneration, for any finite set of requests, *)
(* any sessions, specs and number of generations: types, that nobody works *)
(* with closed clients, that no generation is forgotten and that the       *)
(* running session's provider can be leased.                               *)
(***************************************************************************)
EXTENDS SessionLifecycle, ProviderGeneration, FiniteSetTheorems, TLAPS

---------------------------------------------------------------------------
(* The session service.                                                    *)

\* What stop and abandon_runtime_session hand to their second half is well formed.
LEMMA HaltTyped ==
  ASSUME TypeOK, CanStop, NEW abandon \in BOOLEAN, NEW phase \in {"cancel", "join"}
  PROVE  HaltOf(abandon, phase) \in HaltRec
<1>1. current \in Sessions /\ attached \in SUBSET Tasks /\ (state = "ERROR") \in BOOLEAN
  BY DEF TypeOK, CanStop, States
<1>2. NumResources \in Resources
  BY ResourcesAssumption DEF Resources
<1>3. QED BY <1>1, <1>2 DEF HaltOf, HaltRec

\* Cancelling a set of tasks keeps every task's record well formed.
LEMMA CancelledTyped ==
  ASSUME TypeOK, NEW ts PROVE Cancelled(ts) \in [Tasks -> TaskRec]
BY DEF TypeOK, Cancelled, TaskRec

\* A resource being started is one of the registered ones.
LEMMA LaunchTyped ==
  ASSUME TypeOK, launch # None
  PROVE  /\ launch \in LaunchRec /\ launch.sid \in Sessions /\ launch.at \in 0..NumResources
         /\ launch.phase = "start" => launch.at \in Resources
<1>1. launch \in LaunchRec
  BY DEF TypeOK
<1>2. launch.at \in 0..NumResources /\ launch.sid \in Sessions
  BY <1>1 DEF LaunchRec
<1>3. launch.phase = "start" => launch.at > 0
  BY <1>1 DEF LaunchRec
<1>4. QED BY <1>1, <1>2, <1>3, ResourcesAssumption DEF Resources

\* Type correctness of SessionService and SessionResources.
THEOREM TypeCorrect == Spec => []TypeOK
<1>1. Init => TypeOK
  BY DEF Init, TypeOK, States, TaskRec, Quits
<1>2. TypeOK /\ [Next]_vars => TypeOK'
  <2> SUFFICES ASSUME TypeOK, [Next]_vars PROVE TypeOK'
    OBVIOUS
  <2> USE ResourcesAssumption, NoneAssumption DEF TypeOK, States, Resources
  <2>1. ASSUME NEW s \in Sessions, Start(s) PROVE TypeOK'
    BY <2>1 DEF Start, LaunchRec
  <2>2. ASSUME NEW s \in Sessions, Adopt(s) PROVE TypeOK'
    BY <2>2 DEF Adopt, LaunchRec
  <2>3. CASE RecordStarted
    BY <2>3 DEF RecordStarted, LaunchRec
  <2>4. CASE ResourceStarts
    <3>1. launch \in LaunchRec /\ launch.phase = "start"
      BY <2>4, LaunchTyped DEF ResourceStarts
    <3>1a. launch.sid \in Sessions /\ launch.at \in Resources
      BY <3>1, <2>4, LaunchTyped DEF ResourceStarts
    <3>2. CASE launch.at < NumResources
      <4>1. [launch EXCEPT !.at = @ + 1] \in LaunchRec
        BY <3>1, <3>1a, <3>2 DEF LaunchRec
      <4>2. QED BY <2>4, <3>1a, <3>2, <4>1 DEF ResourceStarts
    <3>3. CASE ~(launch.at < NumResources)
      BY <2>4, <3>1a, <3>3 DEF ResourceStarts
    <3>4. QED BY <3>2, <3>3
  <2>5. CASE ResourceRefuses
    <3>1. launch \in LaunchRec /\ launch.at \in Resources
      BY <2>5, LaunchTyped DEF ResourceRefuses
    <3>2. [launch EXCEPT !.phase = "rollback", !.at = @ - 1] \in LaunchRec
      <4>1. launch.at - 1 \in 0..NumResources
        BY <3>1
      <4>2. \A a \in 0..NumResources :
              [launch EXCEPT !.phase = "rollback", !.at = a] \in LaunchRec
        BY <3>1 DEF LaunchRec
      <4>3. QED BY <4>1, <4>2
    <3>3. QED BY <2>5, <3>2 DEF ResourceRefuses
  <2>6. CASE RollBackResource
    <3>1. launch \in LaunchRec /\ launch.phase = "rollback" /\ launch.at \in 0..NumResources
      BY <2>6, LaunchTyped DEF RollBackResource
    <3>2. CASE launch.at > 0
      <4>1. launch.at \in Resources /\ launch.at - 1 \in 0..NumResources
        BY <3>1, <3>2
      <4>2. \A a \in 0..NumResources : [launch EXCEPT !.at = a] \in LaunchRec
        BY <3>1 DEF LaunchRec
      <4>3. launch' \in LaunchRec
        BY <2>6, <3>2, <4>1, <4>2 DEF RollBackResource
      <4>4. res' \in [Resources -> {"off", "on", "stuck"}]
        BY <2>6, <3>2, <4>1 DEF RollBackResource
      <4>5. QED BY <2>6, <4>3, <4>4 DEF RollBackResource
    <3>3. CASE ~(launch.at > 0)
      <4>1. [launch EXCEPT !.phase = "close"] \in LaunchRec
        BY <3>1 DEF LaunchRec
      <4>2. QED BY <2>6, <3>3, <4>1 DEF RollBackResource
    <3>4. QED BY <3>2, <3>3
  <2>7. CASE CloseFailedStart
    BY <2>7 DEF CloseFailedStart, LaunchRec
  <2>8. ASSUME NEW t \in Tasks, StartTask(t) PROVE TypeOK'
    BY <2>8 DEF StartTask, TaskRec
  <2>9. ASSUME NEW t \in Tasks, TaskDone(t) PROVE TypeOK'
    BY <2>9 DEF TaskDone, TaskRec
  <2>10. ASSUME NEW ts \in cancellers, CancelDetached(ts) PROVE TypeOK'
    BY <2>10, CancelledTyped DEF CancelDetached
  <2>11. CASE Pause
    BY <2>11 DEF Pause, Interrupt
  <2>12. CASE MarkError
    BY <2>12 DEF MarkError, Interrupt
  <2>13. CASE Resume
    BY <2>13 DEF Resume
  <2>14. ASSUME BeginStop, quit' \in {quit, "stopping"} PROVE TypeOK'
    BY <2>14, HaltTyped DEF BeginStop, CanStop, Quits
  <2>15. CASE Abandon
    BY <2>15, CancelledTyped, HaltTyped DEF Abandon, CanStop
  <2>16. CASE HaltStep
    <3>1. CASE HaltCancels
      <4>1. [halt EXCEPT !.phase = "join"] \in HaltRec
        BY <3>1 DEF HaltCancels, HaltRec
      <4>2. QED BY <3>1, <4>1, CancelledTyped DEF HaltCancels
    <3>2. CASE HaltJoined
      <4>1. \A p \in {"release", "record"} : [halt EXCEPT !.phase = p] \in HaltRec
        BY <3>2 DEF HaltJoined, HaltRec
      <4>2. QED BY <3>2, <4>1 DEF HaltJoined
    <3>3. CASE HaltReleases
      <4>1. halt \in HaltRec /\ halt.at \in Resources
        BY <3>3 DEF HaltReleases, HaltRec
      <4>2. halt.at > 1 => [halt EXCEPT !.at = @ - 1] \in HaltRec
        BY <4>1 DEF HaltRec
      <4>3. [halt EXCEPT !.phase = "record"] \in HaltRec
        BY <4>1 DEF HaltRec
      <4>4. QED BY <3>3, <4>1, <4>2, <4>3 DEF HaltReleases
    <3>4. CASE HaltRecords
      BY <3>4 DEF HaltRecords, HaltRec
    <3>5. CASE HaltFinishes
      BY <3>5 DEF HaltFinishes, Quits
    <3>6. QED BY <2>16, <3>1, <3>2, <3>3, <3>4, <3>5 DEF HaltStep
  <2>17. CASE ShutdownLooks
    BY <2>17 DEF ShutdownLooks, Quits
  <2>18. CASE ShutdownStops
    BY <2>18, <2>14 DEF ShutdownStops, Quits
  <2>19. CASE UNCHANGED vars
    BY <2>19 DEF vars
  <2>20. QED
    BY <2>1, <2>2, <2>3, <2>4, <2>5, <2>6, <2>7, <2>8, <2>9, <2>10, <2>11, <2>12, <2>13,
       <2>14, <2>15, <2>16, <2>17, <2>18, <2>19 DEF Next, LaunchStep, Stop
<1>3. QED BY <1>1, <1>2, PTL DEF Spec

---------------------------------------------------------------------------
(* The two task invariants are inductive only together with the facts that *)
(* a launch is under way only in IDLE and an ending only in STOPPING, and  *)
(* that a task once detached is never put back on the books.               *)
DetachedForGood ==
    \A ts \in cancellers : \A t \in ts : t \notin attached /\ task[t].life # "unborn"

TaskInv ==
    /\ halt # None => state = "STOPPING"
    /\ launch # None => state = "IDLE"
    /\ DetachedForGood
    /\ AttachedTasksAreCurrent
    /\ NoTaskEscapes

\* The books are well formed, a task is registered only with the session that is RUNNING
\* now, and no uncancelled task is outside both the books and a pending cancellation.
THEOREM TasksAccountedFor == Spec => []TasksAccounted
<1> USE DEF TaskInv, DetachedForGood, AttachedTasksAreCurrent, NoTaskEscapes
<1>1. Init => TaskInv
  BY DEF Init
<1>2. TypeOK /\ TaskInv /\ [Next]_vars => TaskInv'
  <2> SUFFICES ASSUME TypeOK, TaskInv, [Next]_vars PROVE TaskInv'
    OBVIOUS
  <2>1. ASSUME NEW s \in Sessions, Start(s) PROVE TaskInv'
    BY <2>1 DEF Start
  <2>2. ASSUME NEW s \in Sessions, Adopt(s) PROVE TaskInv'
    BY <2>2 DEF Adopt
  <2>3. CASE LaunchStep
    BY <2>3 DEF LaunchStep, RecordStarted, ResourceStarts, ResourceRefuses, RollBackResource,
                CloseFailedStart
  <2>4. ASSUME NEW t \in Tasks, StartTask(t) PROVE TaskInv'
    BY <2>4 DEF StartTask, TypeOK, TaskRec
  <2>5. ASSUME NEW t \in Tasks, TaskDone(t) PROVE TaskInv'
    BY <2>5 DEF TaskDone, TypeOK, TaskRec
  <2>6. ASSUME NEW ts \in cancellers, CancelDetached(ts) PROVE TaskInv'
    BY <2>6 DEF CancelDetached, Cancelled, TypeOK, TaskRec
  <2>7. ASSUME NEW from, NEW to, to # "RUNNING", to # "IDLE", to # "STOPPING",
               from \subseteq {"RUNNING", "PAUSED"}, Interrupt(from, to)
        PROVE  TaskInv'
    <3>1. NoTaskEscapes'
      <4> SUFFICES ASSUME NEW t \in Tasks, task'[t].life = "running"
                   PROVE  \/ t \in attached'
                          \/ \E ts \in cancellers' : t \in ts
                          \/ halt' # None /\ halt'.phase = "cancel" /\ t \in halt'.tasks
        OBVIOUS
      <4>1. CASE t \in attached
        BY <2>7, <4>1 DEF Interrupt
      <4>2. CASE t \notin attached
        BY <2>7, <4>2 DEF Interrupt
      <4>3. QED BY <4>1, <4>2
    <3>2. QED BY <2>7, <3>1 DEF Interrupt
  <2>8. CASE Resume
    BY <2>8 DEF Resume
  <2>9. CASE BeginStop
    BY <2>9, HaltTyped, NoneAssumption DEF BeginStop, HaltOf, CanStop
  <2>10. CASE Abandon
    <3>1. \A t \in Tasks : task'[t].life = "running" => task[t].life = "running" /\ t \notin attached
      BY <2>10 DEF Abandon, Cancelled, TypeOK, TaskRec
    <3>2. halt = None
      BY <2>10 DEF Abandon, CanStop
    <3>3. NoTaskEscapes'
      BY <2>10, <3>1, <3>2 DEF Abandon
    <3>4. DetachedForGood'
      BY <2>10 DEF Abandon, Cancelled, TypeOK, TaskRec
    <3>5. QED BY <2>10, <3>3, <3>4 DEF Abandon, CanStop
  <2>11. CASE HaltStep
    <3>1. CASE HaltCancels
      BY <3>1 DEF HaltCancels, Cancelled, TypeOK, TaskRec
    <3>2. CASE HaltJoined
      BY <3>2 DEF HaltJoined, TypeOK, HaltRec
    <3>3. CASE HaltReleases \/ HaltRecords \/ HaltFinishes
      BY <3>3 DEF HaltReleases, HaltRecords, HaltFinishes, TypeOK, HaltRec
    <3>4. QED BY <2>11, <3>1, <3>2, <3>3 DEF HaltStep
  <2>12. CASE ShutdownLooks
    BY <2>12 DEF ShutdownLooks
  <2>13. CASE ShutdownStops
    BY <2>13, <2>9 DEF ShutdownStops
  <2>14. CASE UNCHANGED vars
    BY <2>14 DEF vars
  <2>15. QED
    BY <2>1, <2>2, <2>3, <2>4, <2>5, <2>6, <2>7, <2>8, <2>9, <2>10, <2>11, <2>12, <2>13, <2>14
       DEF Next, Pause, MarkError, Stop
<1>3. TypeOK /\ TaskInv => TasksAccounted
  BY DEF TasksAccounted
<1>4. QED BY <1>1, <1>2, <1>3, TypeCorrect, PTL DEF Spec
---------------------------------------------------------------------------
(* The resources follow the session because every launch and every stop    *)
(* keeps count of how far it has come: `at' separates the resources that   *)
(* may be on from those that are not.                                      *)
NotOn(S) == \A r \in S : res[r] # "on"

\* What a launch in progress may have switched on: everything before the next resource.
LaunchedSoFar ==
    launch # None =>
        /\ state = "IDLE"
        /\ launch.phase \in {"record", "close"} => NotOn(Resources)
        /\ launch.phase = "record" => launch.at = 1
        /\ launch.phase = "start" => \A r \in Resources : res[r] = "on" <=> r < launch.at
        /\ launch.phase = "rollback" => NotOn({r \in Resources : r > launch.at})

\* What a stop in progress has left on: everything up to the next resource.
ReleasedSoFar ==
    halt # None =>
        /\ state = "STOPPING" /\ halt.sid = current
        /\ halt.phase \in {"cancel", "join"} => owner = current /\ halt.at = NumResources
        /\ halt.phase \notin {"cancel", "join"} => owner = None
        /\ halt.phase = "release" => NotOn({r \in Resources : r > halt.at})
        /\ halt.phase \in {"record", "finish"} => NotOn(Resources)

ResInv ==
    /\ LaunchedSoFar
    /\ ReleasedSoFar
    /\ state = "IDLE" => owner = None
    /\ state = "IDLE" /\ launch = None => NotOn(Resources)
    /\ LiveSessionOwnsResources

\* The places of the resources are ordered.
LEMMA ResourceOrder ==
  ASSUME NEW r \in Resources, NEW k \in 0..NumResources
  PROVE  /\ r > k - 1 <=> (r > k \/ r = k)
         /\ r < k + 1 <=> (r < k \/ r = k)
         /\ ~(r > NumResources)
         /\ ~(k < NumResources) => (r < k \/ r = k)
         /\ ~(k > 1) => (r > k \/ r = k)
         /\ ~(k > 0) => r > k
BY ResourcesAssumption DEF Resources

\* Moving a launch to another place leaves it a launch.
LEMMA LaunchMoves ==
  ASSUME NEW l \in LaunchRec, NEW a \in 0..NumResources, NEW m, m = [l EXCEPT !.at = a],
         l.phase \notin {"record", "start"} \/ a > 0
  PROVE  m # None /\ m.phase = l.phase /\ m.at = a
<1>1. m \in LaunchRec /\ m.phase = l.phase /\ m.at = a
  BY DEF LaunchRec
<1>2. QED BY <1>1, NoneAssumption

\* With nothing under way the resources are off; while a session is up they are on,
\* and they are its own.
THEOREM ResourcesFollow == Spec => []ResourcesFollowSession
<1> USE NoneAssumption DEF NotOn
<1>1. Init => ResInv
  BY DEF Init, ResInv, LaunchedSoFar, ReleasedSoFar, LiveSessionOwnsResources
<1>2. TypeOK /\ ResInv /\ [Next]_vars => ResInv'
  <2> SUFFICES ASSUME TypeOK, ResInv, [Next]_vars PROVE ResInv'
    OBVIOUS
  <2> USE DEF ResInv, LaunchedSoFar, ReleasedSoFar, LiveSessionOwnsResources
  <2>a. res \in [Resources -> {"off", "on", "stuck"}]
    BY DEF TypeOK
  <2>1. ASSUME NEW s \in Sessions, Start(s) PROVE ResInv'
    BY <2>1 DEF Start
  <2>2. ASSUME NEW s \in Sessions, Adopt(s) PROVE ResInv'
    <3>1. launch' = [sid |-> s, adopted |-> TRUE, phase |-> "start", at |-> 1] /\ NotOn(Resources)
      BY <2>2 DEF Adopt
    <3>2. \A r \in Resources : ~(r < 1)
      BY ResourcesAssumption DEF Resources
    <3>3. QED BY <2>2, <3>1, <3>2 DEF Adopt
  <2>3. CASE RecordStarted
    <3>1. launch \in LaunchRec /\ launch.at = 1 /\ NotOn(Resources) /\ state = "IDLE"
      BY <2>3, LaunchTyped DEF RecordStarted
    <3>2. \A r \in Resources : ~(r < 1)
      BY ResourcesAssumption DEF Resources
    <3>3. CASE launch' = [launch EXCEPT !.phase = "start"]
      <4>1. launch'.phase = "start" /\ launch'.at = 1
        BY <3>1, <3>3 DEF LaunchRec
      <4>2. QED BY <2>3, <3>1, <3>2, <4>1 DEF RecordStarted
    <3>4. CASE launch' = None
      BY <2>3, <3>1, <3>4 DEF RecordStarted
    <3>5. QED BY <2>3, <3>3, <3>4 DEF RecordStarted
  <2>4. CASE ResourceStarts
    <3>1. /\ launch \in LaunchRec /\ launch.phase = "start" /\ launch.at \in Resources
          /\ launch.sid \in Sessions /\ state = "IDLE" /\ halt = None /\ owner = None
          /\ \A r \in Resources : res[r] = "on" <=> r < launch.at
      BY <2>4, LaunchTyped DEF ResourceStarts
    <3>2. \A r \in Resources : res'[r] = "on" <=> (r < launch.at \/ r = launch.at)
      BY <2>4, <2>a, <3>1 DEF ResourceStarts
    <3>3. launch.at \in 0..NumResources
      BY <3>1 DEF Resources
    <3>4. CASE launch.at < NumResources
      <4>1. launch' # None /\ launch'.phase = "start" /\ launch'.at = launch.at + 1
        <5>1. launch.at + 1 \in 0..NumResources /\ launch.at + 1 > 0
          BY <3>3, <3>4, ResourcesAssumption
        <5>2. launch' = [launch EXCEPT !.at = launch.at + 1]
          BY <2>4, <3>4 DEF ResourceStarts
        <5>3. QED BY <3>1, <5>1, <5>2, LaunchMoves
      <4>2. QED BY <2>4, <3>1, <3>2, <3>3, <3>4, <4>1, ResourceOrder DEF ResourceStarts
    <3>5. CASE ~(launch.at < NumResources)
      BY <2>4, <3>1, <3>2, <3>3, <3>5, ResourceOrder DEF ResourceStarts
    <3>6. QED BY <3>4, <3>5
  <2>5. CASE ResourceRefuses
    <3>1. /\ launch \in LaunchRec /\ launch.at \in Resources /\ launch.at \in 0..NumResources
          /\ state = "IDLE" /\ halt = None /\ owner = None
          /\ \A r \in Resources : res[r] = "on" <=> r < launch.at
      BY <2>5, LaunchTyped DEF ResourceRefuses
    <3>2. launch' # None /\ launch'.phase = "rollback" /\ launch'.at = launch.at - 1
      <4>1. launch.at - 1 \in 0..NumResources
        BY <3>1, ResourcesAssumption DEF Resources
      <4>2. launch' = [launch EXCEPT !.phase = "rollback", !.at = launch.at - 1]
        BY <2>5 DEF ResourceRefuses
      <4>3. launch' \in LaunchRec /\ launch'.phase = "rollback" /\ launch'.at = launch.at - 1
        BY <3>1, <4>1, <4>2 DEF LaunchRec
      <4>4. QED BY <4>3, NoneAssumption
    <3>3. \A r \in Resources : r > launch.at - 1 => ~(r < launch.at)
      BY <3>1, ResourcesAssumption DEF Resources
    <3>4. QED BY <2>5, <3>1, <3>2, <3>3 DEF ResourceRefuses
  <2>6. CASE RollBackResource
    <3>1. /\ launch \in LaunchRec /\ launch.at \in 0..NumResources /\ state = "IDLE"
          /\ halt = None /\ owner = None /\ \A r \in Resources : r > launch.at => res[r] # "on"
      BY <2>6, LaunchTyped DEF RollBackResource
    <3>2. CASE launch.at > 0
      <4>1. launch' # None /\ launch'.phase = "rollback" /\ launch'.at = launch.at - 1
        <5>1. launch.at - 1 \in 0..NumResources
          BY <3>1, <3>2, ResourcesAssumption
        <5>2. launch' = [launch EXCEPT !.at = launch.at - 1]
          BY <2>6, <3>2 DEF RollBackResource
        <5>3. launch.phase = "rollback"
          BY <2>6 DEF RollBackResource
        <5>4. QED BY <3>1, <5>1, <5>2, <5>3, LaunchMoves
      <4>2. \A r \in Resources : r > launch.at \/ r = launch.at => res'[r] # "on"
        BY <2>6, <2>a, <3>1, <3>2 DEF RollBackResource
      <4>3. /\ state' = "IDLE" /\ halt' = None /\ owner' = None
            /\ \A r \in Resources : r > launch'.at => res'[r] # "on"
        BY <2>6, <3>1, <4>1, <4>2, ResourceOrder DEF RollBackResource
      <4>4. ~(launch'.phase \in {"record", "close"}) /\ launch'.phase # "start"
        BY <4>1
      <4>5. launch' # None /\ ~(state' \in {"RUNNING", "PAUSED", "ERROR"})
        BY <4>1, <4>3
      <4>6. LaunchedSoFar' /\ ReleasedSoFar' /\ LiveSessionOwnsResources'
        BY <4>1, <4>3, <4>4, <4>5
      <4>7. QED BY <4>3, <4>5, <4>6
    <3>3. CASE ~(launch.at > 0)
      <4>1. NotOn(Resources) /\ res' = res
        BY <2>6, <3>1, <3>3, ResourceOrder DEF RollBackResource
      <4>2. launch' = None \/ launch'.phase = "close"
        BY <2>6, <3>1, <3>3 DEF RollBackResource, LaunchRec
      <4>3. QED BY <2>6, <3>1, <4>1, <4>2 DEF RollBackResource
    <3>4. QED BY <3>2, <3>3
  <2>7. CASE CloseFailedStart
    BY <2>7 DEF CloseFailedStart
  <2>8. ASSUME NEW t \in Tasks, StartTask(t) \/ TaskDone(t) PROVE ResInv'
    BY <2>8 DEF StartTask, TaskDone
  <2>9. ASSUME NEW ts \in cancellers, CancelDetached(ts) PROVE ResInv'
    BY <2>9 DEF CancelDetached
  <2>10. CASE Pause \/ MarkError \/ Resume
    BY <2>10 DEF Pause, MarkError, Resume, Interrupt
  <2>11. ASSUME BeginStop \/ Abandon PROVE ResInv'
    <3>1. owner = current /\ state \notin {"IDLE", "STOPPING"} /\ launch = None
      BY <2>11 DEF BeginStop, Abandon, CanStop, TypeOK, States
    <3>2. \E a \in BOOLEAN, p \in {"cancel", "join"} : halt' = HaltOf(a, p)
      BY <2>11 DEF BeginStop, Abandon
    <3>3. /\ halt'.sid = current /\ halt'.at = NumResources /\ halt'.phase \in {"cancel", "join"}
      BY <3>2 DEF HaltOf
    <3>4. QED BY <2>11, <3>1, <3>3 DEF BeginStop, Abandon
  <2>12. CASE HaltStep
    <3>1. halt \in HaltRec /\ halt # None /\ launch = None /\ halt.at \in Resources
      BY <2>12 DEF HaltStep, HaltCancels, HaltJoined, HaltReleases, HaltRecords, HaltFinishes, TypeOK, HaltRec
    <3>2. CASE HaltCancels
      BY <3>1, <3>2 DEF HaltCancels, HaltRec
    <3>3. CASE HaltJoined
      <4>1. halt'.phase = "release" /\ halt'.at = NumResources /\ halt'.sid = current
        BY <3>1, <3>3 DEF HaltJoined, HaltRec
      <4>2. \A r \in Resources : ~(r > NumResources)
        BY ResourceOrder, ResourcesAssumption DEF Resources
      <4>3. QED BY <3>1, <3>3, <4>1, <4>2 DEF HaltJoined
    <3>4. CASE HaltReleases
      <4>1. \A r \in Resources : r > halt.at \/ r = halt.at => res'[r] # "on"
        BY <2>a, <3>1, <3>4 DEF HaltReleases
      <4>2. halt.at \in 0..NumResources
        BY <3>1 DEF Resources
      <4>3. CASE halt.at > 1
        <5>1. halt'.phase = "release" /\ halt'.at = halt.at - 1 /\ halt'.sid = current
          BY <3>1, <3>4, <4>3 DEF HaltReleases, HaltRec
        <5>2. QED BY <3>1, <3>4, <4>1, <4>2, <5>1, ResourceOrder DEF HaltReleases
      <4>4. CASE ~(halt.at > 1)
        <5>1. halt'.phase = "record" /\ halt'.sid = current
          BY <3>1, <3>4, <4>4 DEF HaltReleases, HaltRec
        <5>2. QED BY <3>1, <3>4, <4>1, <4>2, <4>4, <5>1, ResourceOrder DEF HaltReleases
      <4>5. QED BY <4>3, <4>4
    <3>5. CASE HaltRecords
      BY <3>1, <3>5 DEF HaltRecords, HaltRec
    <3>6. CASE HaltFinishes
      BY <3>1, <3>6 DEF HaltFinishes
    <3>7. QED BY <2>12, <3>2, <3>3, <3>4, <3>5, <3>6 DEF HaltStep
  <2>13. CASE ShutdownLooks
    BY <2>13 DEF ShutdownLooks
  <2>14. CASE UNCHANGED vars
    BY <2>14 DEF vars
  <2>15. CASE ShutdownStops
    <3>1. CASE BeginStop
      BY <2>11, <3>1
    <3>2. CASE ~BeginStop
      BY <2>15, <3>2 DEF ShutdownStops
    <3>3. QED BY <3>1, <3>2
  <2>16. QED
    BY <2>1, <2>2, <2>3, <2>4, <2>5, <2>6, <2>7, <2>8, <2>9, <2>10, <2>11, <2>12, <2>13, <2>14, <2>15
       DEF Next, LaunchStep, Stop
<1>3. TasksAccounted /\ ResInv => ResourcesFollowSession
  BY DEF TasksAccounted, ResInv, ReleasedSoFar, AttachedTasksAreCurrent, ResourcesFollowSession, IdleHoldsNothing
<1>4. QED BY <1>1, <1>2, <1>3, TypeCorrect, TasksAccountedFor, PTL DEF Spec

---------------------------------------------------------------------------
(* Provider generations.                                                   *)

---------------------------------------------------------------------------
(* Types.                                                                  *)

LEMMA NoneApart == Null \notin Generations /\ Null \notin RuntimeSessions /\ Null \notin UpdateRec
BY NullAssumption

LEMMA BuiltBound ==
  ASSUME GenerationsTyped PROVE 1..built \subseteq Generations
BY GenerationBound DEF GenerationsTyped, Generations

\* A lease count of one generation that somebody holds is positive: what Release needs.
Counted == \A g \in Generations : leases[g] = Cardinality(Holders(g))

LEMMA HeldIsCounted ==
  ASSUME GenerationsTyped, Counted, NEW r \in Requests, lease[r] # Null
  PROVE  lease[r] \in Generations /\ leases[lease[r]] \in Nat \ {0}
<1>1. lease[r] \in Generations
  BY BuiltBound DEF GenerationsTyped
<1>2. IsFiniteSet(Holders(lease[r]))
  BY RequestsFinite, FS_Subset DEF Holders
<1>3. r \in Holders(lease[r])
  BY DEF Holders
<1>4. Cardinality(Holders(lease[r])) # 0
  BY <1>2, <1>3, FS_EmptySet
<1>5. QED BY <1>1, <1>4 DEF Counted, GenerationsTyped

\* Every step keeps the types; only the release of a lease depends on the count.
LEMMA TypesKept ==
  ASSUME GenerationsTyped, Counted, [ProviderNext]_providerVars PROVE GenerationsTyped'
<1> USE NoneApart, GenerationBound DEF GenerationsTyped, Generations
<1>1. ASSUME NEW p \in Specs, Install(p) PROVE GenerationsTyped'
  <2>1. /\ built + 1 \in 1..MaxGeneration /\ built' = built + 1 /\ active' = built + 1
        /\ spec' = [spec EXCEPT ![built + 1] = p]
        /\ UNCHANGED <<leases, retired, components, bound, accepting, live, update, lease, down>>
    BY <1>1 DEF Install, Build
  <2>2. spec' \in [1..MaxGeneration -> Specs \cup {Null}]
    BY <2>1
  <2>3. /\ active' \in 1..built' \cup {Null} /\ bound' \in [RuntimeSessions -> 1..built' \cup {Null}]
        /\ lease' \in [Requests -> 1..built' \cup {Null}]
    BY <2>1
  <2>4. update' # Null => update'.candidate <= built'
    <3>1. SUFFICES ASSUME update # Null PROVE update.candidate <= built + 1
      BY <2>1
    <3>2. update.candidate \in Nat /\ update.candidate <= built
      BY <3>1 DEF UpdateRec
    <3>3. QED BY <3>2
  <2>5. QED BY <2>1, <2>2, <2>3, <2>4
<1>2. ASSUME NEW p \in Specs, NEW s \in RuntimeSessions, Prepare(s, p) PROVE GenerationsTyped'
  <2>1. built + 1 \in 1..MaxGeneration
    BY <1>2 DEF Prepare, Build
  <2>2. update' \in UpdateRec /\ update'.candidate = built + 1
    BY <1>2, <2>1 DEF Prepare, UpdateRec
  <2>3. QED BY <1>2, <2>2 DEF Prepare, Build
<1>3. ASSUME NEW s \in RuntimeSessions, StartSession(s) PROVE GenerationsTyped'
  BY <1>3 DEF StartSession, generation
<1>4. ASSUME NEW s \in RuntimeSessions, Update(s) PROVE GenerationsTyped'
  <2>1. UNCHANGED <<generation, active, bound, live, update, lease, down>>
    BY <1>4 DEF Update
  <2>2. bound[s] # Null /\ bound' = bound
    BY <1>4, <2>1 DEF Update, Known
  <2>3. QED BY <1>4, <2>1, <2>2 DEF Update, generation
<1>5. CASE PrepareFails
  BY <1>5 DEF PrepareFails, Retire
<1>6. CASE Swap
  <2>1. update \in UpdateRec /\ update.candidate \in 1..built
    BY <1>6 DEF Swap, UpdateRec
  <2>2. update' \in UpdateRec /\ update'.candidate = update.candidate
    BY <1>6, <2>1 DEF Swap, UpdateRec
  <2>3. update.session \in RuntimeSessions
    BY <2>1 DEF UpdateRec
  <2>4. QED BY <1>6, <2>1, <2>2, <2>3 DEF Swap, generation
<1>7. CASE Commit
  <2>1. update \in UpdateRec /\ update.candidate \in 1..built
    BY <1>7 DEF Commit, UpdateRec
  <2>2. QED BY <1>7, <2>1 DEF Commit, Retire
<1>8. CASE StopSession
  BY <1>8 DEF StopSession, generation
<1>9. CASE Shutdown
  BY <1>9 DEF Shutdown, Retire
<1>10. ASSUME NEW r \in Requests, NEW s \in RuntimeSessions, Acquire(r, s) PROVE GenerationsTyped'
  <2>1. bound[s] \in 1..built
    BY <1>10 DEF Acquire
  <2>2. QED BY <1>10, <2>1 DEF Acquire
<1>11. ASSUME NEW r \in Requests, Release(r) PROVE GenerationsTyped'
  <2>1. lease[r] \in 1..MaxGeneration /\ leases[lease[r]] \in Nat \ {0}
    BY <1>11, HeldIsCounted DEF Release
  <2>2. leases[lease[r]] - 1 \in Nat
    BY <2>1
  <2>3. leases' \in [1..MaxGeneration -> Nat]
    BY <1>11, <2>1, <2>2 DEF Release
  <2>4. components' \in [1..MaxGeneration -> {"open", "closing", "closed"}]
    BY <1>11, <2>1 DEF Release
  <2>5. lease' \in [Requests -> 1..built \cup {Null}]
    BY <1>11 DEF Release
  <2>6. QED BY <1>11, <2>3, <2>4, <2>5 DEF Release
<1>12. ASSUME NEW g \in Generations, CloseComponents(g) PROVE GenerationsTyped'
  BY <1>12 DEF CloseComponents
<1>13. CASE UNCHANGED providerVars
  BY <1>13 DEF providerVars
<1>14. QED
  BY <1>1, <1>2, <1>3, <1>4, <1>5, <1>6, <1>7, <1>8, <1>9, <1>10, <1>11, <1>12, <1>13 DEF ProviderNext

---------------------------------------------------------------------------
(* Leases: the count is the number of holders, and a closed generation has *)
(* none and is retired.                                                    *)

ClosedIsIdle == \A g \in Generations : Closed(g) => retired[g] /\ leases[g] = 0

LEMMA CountKept ==
  ASSUME GenerationsTyped, Counted, [ProviderNext]_providerVars PROVE Counted'
<1>1. ASSUME UNCHANGED <<leases, lease>> PROVE Counted'
  BY <1>1 DEF Counted, Holders
<1>2. ASSUME NEW r \in Requests, NEW s \in RuntimeSessions, Acquire(r, s) PROVE Counted'
  <2>1. PICK h \in Generations : h = bound[s]
    BY <1>2, BuiltBound DEF Acquire, GenerationsTyped
  <2>2. \A g : IsFiniteSet(Holders(g))
    BY RequestsFinite, FS_Subset DEF Holders
  <2>3. lease' = [lease EXCEPT ![r] = h] /\ lease[r] = Null /\ leases' = [leases EXCEPT ![h] = @ + 1]
    BY <1>2, <2>1 DEF Acquire
  <2>4. {x \in Requests : lease'[x] = h} = Holders(h) \cup {r} /\ r \notin Holders(h)
    BY <2>1, <2>3, NoneApart DEF Holders, GenerationsTyped
  <2>5. Cardinality({x \in Requests : lease'[x] = h}) = Cardinality(Holders(h)) + 1
    BY <2>2, <2>4, FS_AddElement
  <2>6. QED
    <3>1. SUFFICES ASSUME NEW g \in Generations
          PROVE leases'[g] = Cardinality({x \in Requests : lease'[x] = g})
      BY DEF Counted, Holders
    <3>2. CASE g = h BY <2>1, <2>3, <2>5, <3>2 DEF Counted, GenerationsTyped
    <3>3. CASE g # h
      <4>1. {x \in Requests : lease'[x] = g} = Holders(g)
        BY <2>1, <2>3, <3>3, NoneApart DEF Holders, GenerationsTyped
      <4>2. leases'[g] = leases[g]
        BY <2>3, <3>3 DEF GenerationsTyped
      <4>3. QED BY <4>1, <4>2 DEF Counted
    <3>4. QED BY <3>2, <3>3
<1>3. ASSUME NEW r \in Requests, Release(r) PROVE Counted'
  <2>1. PICK h \in Generations : h = lease[r]
    BY <1>3, HeldIsCounted DEF Release
  <2>2. \A g : IsFiniteSet(Holders(g))
    BY RequestsFinite, FS_Subset DEF Holders
  <2>3. lease' = [lease EXCEPT ![r] = Null] /\ leases' = [leases EXCEPT ![h] = @ - 1]
    BY <1>3, <2>1 DEF Release
  <2>4. {x \in Requests : lease'[x] = h} = Holders(h) \ {r} /\ r \in Holders(h)
    BY <2>1, <2>3, NoneApart DEF Holders, GenerationsTyped
  <2>5. Cardinality({x \in Requests : lease'[x] = h}) = Cardinality(Holders(h)) - 1
    BY <2>2, <2>4, FS_RemoveElement
  <2>6. QED
    <3>1. SUFFICES ASSUME NEW g \in Generations
          PROVE leases'[g] = Cardinality({x \in Requests : lease'[x] = g})
      BY DEF Counted, Holders
    <3>2. CASE g = h BY <2>1, <2>3, <2>5, <3>2 DEF Counted, GenerationsTyped
    <3>3. CASE g # h
      <4>1. {x \in Requests : lease'[x] = g} = Holders(g)
        BY <2>1, <2>3, <3>3, NoneApart DEF Holders, GenerationsTyped
      <4>2. leases'[g] = leases[g]
        BY <2>3, <3>3 DEF GenerationsTyped
      <4>3. QED BY <4>1, <4>2 DEF Counted
    <3>4. QED BY <3>2, <3>3
<1>4. QED
  BY <1>1, <1>2, <1>3 DEF ProviderNext, providerVars, generation, Install, Prepare, Build, StartSession, Update,
     PrepareFails, Swap, Commit, StopSession, Shutdown, CloseComponents

LEMMA IdleKept ==
  ASSUME GenerationsTyped, Counted, ClosedIsIdle, [ProviderNext]_providerVars PROVE ClosedIsIdle'
<1> USE DEF ClosedIsIdle, Closed
<1>1. ASSUME UNCHANGED <<leases, retired, components>> PROVE ClosedIsIdle'
  BY <1>1
<1>2. ASSUME NEW h, Retire(h), UNCHANGED leases PROVE ClosedIsIdle'
  BY <1>2 DEF Retire, GenerationsTyped
<1>3. CASE Shutdown
  BY <1>1, <1>2, <1>3 DEF Shutdown
<1>4. ASSUME NEW r \in Requests, NEW s \in RuntimeSessions, Acquire(r, s) PROVE ClosedIsIdle'
  BY <1>4 DEF Acquire, GenerationsTyped
<1>5. ASSUME NEW r \in Requests, Release(r) PROVE ClosedIsIdle'
  <2> DEFINE h == lease[r]
  <2>1. h \in Generations /\ leases[h] \in Nat \ {0}
    BY <1>5, HeldIsCounted DEF Release
  <2>2. leases' = [leases EXCEPT ![h] = @ - 1] /\ UNCHANGED retired
    BY <1>5 DEF Release
  <2>3. components' = IF retired[h] /\ leases[h] = 1 /\ components[h] = "open"
                      THEN [components EXCEPT ![h] = "closing"] ELSE components
    BY <1>5 DEF Release
  <2>4. QED
    <3> HIDE DEF h
    <3>1. QED BY <2>1, <2>2, <2>3 DEF GenerationsTyped
<1>6. ASSUME NEW g \in Generations, CloseComponents(g) PROVE ClosedIsIdle'
  BY <1>6 DEF CloseComponents, GenerationsTyped
<1>7. QED
  BY <1>1, <1>2, <1>3, <1>4, <1>5, <1>6 DEF ProviderNext, providerVars, generation, Install, Prepare, Build,
     StartSession, Update, PrepareFails, Swap, Commit, StopSession

---------------------------------------------------------------------------
(* Which generations may be retired: neither the active one nor the        *)
(* candidate of an update, nor any that is not built yet.                  *)

\* Where the running session gets its provider from.
Serving == IF update # Null /\ update.phase = "swapped" THEN update.candidate ELSE active

Succession ==
  /\ active # Null => ~retired[active]
  /\ update # Null => /\ active # Null /\ update.candidate # active
                      /\ ~retired[update.candidate]
  /\ \A g \in Generations : g > built => ~retired[g]
  /\ live # Null => /\ active # Null /\ bound[live] = Serving
                    /\ update # Null => update.session = live

LEMMA SuccessionKept ==
  ASSUME GenerationsTyped, Succession, NoGenerationForgotten, [ProviderNext]_providerVars
  PROVE  Succession' /\ NoGenerationForgotten'
<1> USE NoneApart, GenerationBound DEF GenerationsTyped, Generations, Succession, NoGenerationForgotten, Serving
<1>1. ASSUME NEW p \in Specs, Install(p) PROVE Succession' /\ NoGenerationForgotten'
  <2>1. /\ active = Null /\ active' = built + 1 /\ built' = built + 1
        /\ built + 1 \in 1..MaxGeneration
        /\ UNCHANGED <<retired, update, bound, live>>
    BY <1>1 DEF Install, Build
  <2>2. update = Null /\ live = Null /\ ~retired[built + 1]
    BY <2>1
  <2>3. \A g \in 1..MaxGeneration : g > built + 1 => ~retired[g]
    BY <2>1
  <2>4. Succession'
    BY <2>1, <2>2, <2>3
  <2>5. NoGenerationForgotten'
    BY <2>1, <2>2
  <2>6. QED BY <2>4, <2>5
<1>2. ASSUME NEW p \in Specs, NEW s \in RuntimeSessions, Prepare(s, p)
      PROVE Succession' /\ NoGenerationForgotten'
  <2>1. /\ update = Null /\ active # Null /\ live = s /\ built' = built + 1
        /\ update' = [session |-> s, candidate |-> built + 1, phase |-> "prepared"]
        /\ built + 1 \in 1..MaxGeneration
        /\ UNCHANGED <<retired, active, bound, live>>
    BY <1>2 DEF Prepare, Build, Known
  <2>2. Succession'
    <3>1. /\ update' \in UpdateRec /\ update'.candidate = built + 1
          /\ update'.phase = "prepared" /\ update'.session = s
      BY <2>1 DEF UpdateRec
    <3>2. active # built + 1 /\ ~retired[built + 1] /\ ~retired[active]
      BY <2>1
    <3>3. \A g \in 1..MaxGeneration : g > built + 1 => ~retired[g]
      BY <2>1
    <3>4. bound[s] = active /\ live # Null
      BY <2>1
    <3>5. update' # Null
      BY <3>1
    <3>6. QED BY <2>1, <3>1, <3>2, <3>3, <3>4, <3>5
  <2>3. NoGenerationForgotten'
    <3>1. SUFFICES ASSUME NEW g \in 1..(built + 1), g # built + 1
          PROVE retired[g] \/ g = active
      <4>1. update' \in UpdateRec /\ update'.candidate = built + 1
        BY <2>1 DEF UpdateRec
      <4>2. update' # Null
        BY <4>1
      <4>3. QED BY <2>1, <4>1, <4>2
    <3>2. g \in 1..built
      <4>1. built \in Nat
        OBVIOUS
      <4>2. g \in 1..(built + 1) /\ g # built + 1
        BY <3>1
      <4>3. QED
        <5> HIDE DEF GenerationsTyped, Succession, NoGenerationForgotten
        <5>1. QED BY <4>1, <4>2
    <3>3. QED BY <2>1, <3>2
  <2>4. QED BY <2>2, <2>3
<1>3. ASSUME NEW s \in RuntimeSessions, StartSession(s) PROVE Succession' /\ NoGenerationForgotten'
  BY <1>3 DEF StartSession, generation
<1>4. ASSUME NEW s \in RuntimeSessions, Update(s) PROVE Succession' /\ NoGenerationForgotten'
  BY <1>4 DEF Update, generation
<1>5. CASE PrepareFails
  <2>1. update \in UpdateRec /\ update.candidate \in 1..built /\ update.phase = "prepared"
    BY <1>5 DEF PrepareFails, UpdateRec
  <2>2. /\ retired' = [retired EXCEPT ![update.candidate] = TRUE] /\ update' = Null
        /\ UNCHANGED <<built, active, bound, live>>
    BY <1>5 DEF PrepareFails, Retire
  <2>3. QED BY <2>1, <2>2
<1>6. CASE Swap
  <2>1. update \in UpdateRec /\ update.candidate \in 1..built /\ update.phase = "prepared"
    BY <1>6 DEF Swap, UpdateRec
  <2>2. update' = [update EXCEPT !.phase = "swapped"]
    BY <1>6 DEF Swap
  <2>3. update' \in UpdateRec /\ update'.phase = "swapped"
        /\ update'.candidate = update.candidate /\ update'.session = update.session
    BY <2>1, <2>2 DEF UpdateRec
  <2>4. update' # Null /\ update # Null /\ update.session \in RuntimeSessions
    BY <2>1, <2>3 DEF UpdateRec
  <2>5. /\ bound' = [bound EXCEPT ![update.session] = update.candidate]
        /\ UNCHANGED <<built, retired, active, live>>
    BY <1>6 DEF Swap, generation
  <2>6. QED BY <2>1, <2>3, <2>4, <2>5
<1>7. CASE Commit
  <2>1. /\ update \in UpdateRec /\ update # Null /\ update.candidate \in 1..built
        /\ update.phase = "swapped"
    BY <1>7 DEF Commit, UpdateRec
  <2>2. /\ retired' = [retired EXCEPT ![active] = TRUE] /\ update' = Null
        /\ active' = update.candidate /\ UNCHANGED <<built, bound, live>>
    BY <1>7 DEF Commit, Retire
  <2>3. active \in 1..built /\ active' # active /\ active' # Null /\ ~retired[active']
    BY <2>1, <2>2
  <2>4. ~retired'[active']
    BY <2>1, <2>2, <2>3
  <2>5. \A g \in 1..MaxGeneration : g > built => ~retired'[g]
    BY <2>2, <2>3
  <2>6. live # Null => bound[live] = active'
    BY <2>1, <2>2
  <2>7. Succession'
    BY <2>2, <2>3, <2>4, <2>5, <2>6
  <2>8. NoGenerationForgotten'
    BY <2>1, <2>2, <2>3
  <2>9. QED BY <2>7, <2>8
<1>8. CASE StopSession
  BY <1>8 DEF StopSession, generation
<1>9. CASE Shutdown
  <2>1. update = Null /\ live = Null /\ active' = Null /\ UNCHANGED <<built, live, update>>
    BY <1>9 DEF Shutdown
  <2>2. retired' = IF active = Null THEN retired ELSE [retired EXCEPT ![active] = TRUE]
    BY <1>9 DEF Shutdown, Retire
  <2>3. QED BY <2>1, <2>2
<1>10. ASSUME UNCHANGED <<built, retired, active, bound, live, update>>
       PROVE Succession' /\ NoGenerationForgotten'
  BY <1>10
<1>11. QED
  BY <1>1, <1>2, <1>3, <1>4, <1>5, <1>6, <1>7, <1>8, <1>9, <1>10 DEF ProviderNext, providerVars, Acquire, Release,
     CloseComponents

---------------------------------------------------------------------------
IInv == GenerationsTyped /\ Counted /\ ClosedIsIdle /\ Succession /\ NoGenerationForgotten

LEMMA Initially == ProviderInit => IInv
<1>1. SUFFICES ASSUME ProviderInit PROVE IInv
  OBVIOUS
<1>2. GenerationsTyped
  <2>1. /\ built \in 0..MaxGeneration
        /\ spec \in [Generations -> Specs \cup {Null}]
        /\ leases \in [Generations -> Nat] /\ retired \in [Generations -> BOOLEAN]
        /\ components \in [Generations -> {"open", "closing", "closed"}]
    BY <1>1, GenerationBound DEF ProviderInit
  <2>2. /\ active \in 1..built \cup {Null} /\ bound \in [RuntimeSessions -> 1..built \cup {Null}]
        /\ lease \in [Requests -> 1..built \cup {Null}]
    BY <1>1 DEF ProviderInit
  <2>3. /\ accepting \in [RuntimeSessions -> BOOLEAN] /\ live \in RuntimeSessions \cup {Null}
        /\ update \in UpdateRec \cup {Null} /\ (update # Null => update.candidate <= built)
        /\ down \in BOOLEAN /\ \A s \in RuntimeSessions : accepting[s] \/ live = s => bound[s] # Null
    BY <1>1, NoneApart DEF ProviderInit
  <2>4. QED BY <2>1, <2>2, <2>3 DEF GenerationsTyped
<1>3. \A g \in Generations : Holders(g) = {}
  BY <1>1, NoneApart DEF ProviderInit, Holders
<1>4. Counted
  BY <1>1, <1>3, FS_EmptySet DEF ProviderInit, Counted
<1>5. ClosedIsIdle /\ Succession /\ NoGenerationForgotten
  BY <1>1 DEF ProviderInit, ClosedIsIdle, Closed, Succession, NoGenerationForgotten, Generations
<1>6. QED BY <1>2, <1>4, <1>5 DEF IInv

LEMMA Inductive == IInv /\ [ProviderNext]_providerVars => IInv'
BY TypesKept, CountKept, IdleKept, SuccessionKept DEF IInv

LEMMA AlwaysIInv == ProviderSpec => []IInv
BY Initially, Inductive, PTL DEF ProviderSpec

\* The bookkeeping of providers, leases and sessions stays well formed.
THEOREM GenerationsStayTyped == ProviderSpec => []GenerationsTyped
BY AlwaysIInv, PTL DEF IInv

\* Nobody works with a provider whose clients are closed or being closed.
THEOREM LeasesProtect == ProviderSpec => []NoneWorksWithClosed
<1>1. IInv => NoneWorksWithClosed
  <2>1. SUFFICES ASSUME IInv, NEW r \in Requests, lease[r] # Null PROVE ~Closed(lease[r])
    BY DEF NoneWorksWithClosed
  <2>2. lease[r] \in Generations /\ leases[lease[r]] \in Nat \ {0}
    BY <2>1, HeldIsCounted DEF IInv
  <2>3. QED BY <2>1, <2>2 DEF IInv, ClosedIsIdle
<1>2. QED BY AlwaysIInv, <1>1, PTL

\* No failure of an update leaves a provider behind that nobody will close.
THEOREM NothingForgotten == ProviderSpec => []NoGenerationForgotten
BY AlwaysIInv, PTL DEF IInv

\* The running session's provider is not retired under it.
THEOREM ProviderStays == ProviderSpec => []RunningSessionHasProvider
<1>1. IInv => RunningSessionHasProvider
  BY DEF IInv, Succession, Serving, RunningSessionHasProvider
<1>2. QED BY AlwaysIInv, <1>1, PTL

\* The clients of a generation are open for whoever uses it, and nobody forgets to close them.
THEOREM ClientsFollow == ProviderSpec => []ClientsFollowUse
<1>1. /\ GenerationsTyped /\ NoneWorksWithClosed
      /\ RunningSessionHasProvider /\ NoGenerationForgotten
      => ClientsFollowUse
  BY DEF ClientsFollowUse
<1>2. QED BY GenerationsStayTyped, LeasesProtect, ProviderStays, NothingForgotten, <1>1, PTL

=============================================================================
