--------------------------- MODULE ProviderGeneration ---------------------------
(***************************************************************************)
(* The model providers a backend process builds, one generation for every  *)
(* provider configuration: application/runtime_provider.py, with the parts *)
(* of runtime_session_service.py and runtime_state.py that bind a session  *)
(* to a generation.  Requests hold a lease while they call the provider; a *)
(* generation that was replaced is closed when its last lease ends.        *)
(*                                                                         *)
(* The lock of a generation and the boundary of a session are not held     *)
(* across a suspension here, except the boundary during a commit; a step   *)
(* is the code between two suspension points.  RuntimeSessionService._lock *)
(* admits one update at a time.                                            *)
(***************************************************************************)
EXTENDS Naturals, FiniteSets

CONSTANTS Requests,       \* viewer, visual, history and memory work
          RuntimeSessions, \* runtime sessions, one after the other
          Specs,          \* provider specs a client may ask for
          MaxGeneration,  \* bounds the generations of the model
          Null            \* Python's None

ASSUME RequestsFinite == IsFiniteSet(Requests)
ASSUME GenerationBound == MaxGeneration \in Nat \ {0}

Generations == 1..MaxGeneration

VARIABLES
    built,       \* how many generations exist; they are numbered in order
    spec,        \* RuntimeProviderGeneration.provider_spec
    leases,      \* _GenerationLeaseState.leases
    retired,     \* _GenerationLeaseState.retired
    components,  \* the extractor and the provider it owns
    active,      \* RuntimeProviderController._active
    bound,       \* CommittedRuntime.provider_generation of each session
    accepting,   \* CommittedRuntime.accepting_results
    live,        \* the session SessionService runs
    update,      \* the hot update that holds the service's lock
    lease,       \* the generation each request works with
    down         \* the application was shut down

providerVars == <<built, spec, leases, retired, components, active, bound, accepting,
                  live, update, lease, down>>
generation == <<built, spec, leases, retired, components>>

UpdateRec == [session : RuntimeSessions, candidate : Generations,
              phase : {"prepared", "swapped"}]

ASSUME NullAssumption ==
    Null \notin Generations /\ Null \notin RuntimeSessions /\ Null \notin UpdateRec

ProviderInit ==
    /\ built = 0
    /\ spec = [g \in Generations |-> Null]
    /\ leases = [g \in Generations |-> 0]
    /\ retired = [g \in Generations |-> FALSE]
    /\ components = [g \in Generations |-> "open"]
    /\ active = Null
    /\ bound = [s \in RuntimeSessions |-> Null] /\ accepting = [s \in RuntimeSessions |-> FALSE]
    /\ live = Null /\ update = Null
    /\ lease = [r \in Requests |-> Null]
    /\ down = FALSE

\* _GenerationLeaseState.closed is set together with the decision to close.
Closed(g) == components[g] # "open"

---------------------------------------------------------------------------
(* One generation.                                                         *)

Build(p) ==
    /\ built < MaxGeneration
    /\ built' = built + 1
    /\ spec' = [spec EXCEPT ![built + 1] = p]
    /\ UNCHANGED <<leases, retired, components>>

Retire(g) ==
    /\ retired' = [retired EXCEPT ![g] = TRUE]
    /\ components' = IF leases[g] = 0 /\ ~Closed(g)
                     THEN [components EXCEPT ![g] = "closing"] ELSE components

CloseComponents(g) ==
    /\ components[g] = "closing"
    /\ components' = [components EXCEPT ![g] = "closed"]
    /\ UNCHANGED <<built, spec, leases, retired, active, bound, accepting, live, update, lease, down>>

---------------------------------------------------------------------------
(* The controller, and the hot update of a session.                        *)

Install(p) ==
    /\ active = Null /\ ~down
    /\ Build(p)
    /\ active' = built + 1
    /\ UNCHANGED <<bound, accepting, live, update, lease, down>>

\* A session starts with the active generation, which must have the spec it asks for.
StartSession(s) ==
    /\ update = Null /\ live = Null /\ bound[s] = Null /\ active # Null
    /\ live' = s
    /\ bound' = [bound EXCEPT ![s] = active]
    /\ accepting' = [accepting EXCEPT ![s] = TRUE]
    /\ UNCHANGED <<generation, active, update, lease, down>>

\* What current_for demands before anything is changed.  The desktop addresses the
\* session it runs; the code does not insist (see RuntimeRevisions).
Known(s) == live = s /\ active # Null /\ spec[bound[s]] = spec[active]

\* An update that leaves the provider alone keeps the bound generation.
Update(s) ==
    /\ update = Null /\ ~down /\ Known(s)
    /\ accepting' = [accepting EXCEPT ![s] = TRUE]
    /\ UNCHANGED <<generation, active, bound, live, update, lease, down>>

Prepare(s, p) ==
    /\ update = Null /\ ~down /\ Known(s) /\ p # spec[bound[s]]
    /\ Build(p)
    /\ update' = [session |-> s, candidate |-> built + 1, phase |-> "prepared"]
    /\ UNCHANGED <<active, bound, accepting, live, lease, down>>

\* The reconciliation or the commit fails.
PrepareFails ==
    /\ update # Null /\ update.phase = "prepared"
    /\ Retire(update.candidate)
    /\ update' = Null
    /\ UNCHANGED <<built, spec, leases, active, bound, accepting, live, lease, down>>

\* Fault: the controller is told before the runtime is swapped, and retires the
\* generation the session still uses.
CommitEarly ==
    /\ update # Null /\ update.phase = "prepared"
    /\ active' = update.candidate
    /\ Retire(active)
    /\ UNCHANGED <<built, spec, leases, bound, accepting, live, update, lease, down>>

\* replace_after publishes the runtime with the candidate ...
Swap ==
    /\ update # Null /\ update.phase = "prepared"
    /\ bound' = [bound EXCEPT ![update.session] = update.candidate]
    /\ accepting' = [accepting EXCEPT ![update.session] = TRUE]
    /\ update' = [update EXCEPT !.phase = "swapped"]
    /\ UNCHANGED <<generation, active, live, lease, down>>

\* ... and a shielded task tells the controller and retires the previous generation.
Commit ==
    /\ update # Null /\ update.phase = "swapped"
    /\ active' = update.candidate
    /\ Retire(active)
    /\ update' = Null
    /\ UNCHANGED <<built, spec, leases, bound, accepting, live, lease, down>>

StopSession ==
    /\ live # Null
    /\ accepting' = [accepting EXCEPT ![live] = FALSE]
    /\ live' = Null
    /\ UNCHANGED <<generation, active, bound, update, lease, down>>

\* The server ends its requests first, then the session and its background tasks,
\* then retires the active generation; a task that ignored its cancellation may
\* still hold a lease.
Shutdown ==
    /\ ~down /\ update = Null /\ live = Null
    /\ down' = TRUE /\ active' = Null
    /\ IF active = Null THEN UNCHANGED <<retired, components>> ELSE Retire(active)
    /\ UNCHANGED <<built, spec, leases, bound, accepting, live, update, lease>>

---------------------------------------------------------------------------
(* Requests.                                                               *)

\* provider_lease: inside the boundary the runtime must accept results and its
\* generation must not be retired; otherwise the request fails.
Acquire(r, s) ==
    /\ lease[r] = Null /\ accepting[s] /\ ~down
    /\ ~retired[bound[s]] /\ ~Closed(bound[s])
    /\ leases' = [leases EXCEPT ![bound[s]] = @ + 1]
    /\ lease' = [lease EXCEPT ![r] = bound[s]]
    /\ UNCHANGED <<built, spec, retired, components, active, bound, accepting, live, update, down>>

\* Fault: only retire closes a generation.
ReleaseOnly(r) ==
    /\ lease[r] # Null
    /\ LET g == lease[r]
       IN leases' = [leases EXCEPT ![g] = @ - 1]
    /\ lease' = [lease EXCEPT ![r] = Null]
    /\ UNCHANGED <<built, spec, retired, components, active, bound, accepting, live, update, down>>

\* The answer, an error, a timeout or a cancellation: the last lease closes what was
\* retired meanwhile.
Release(r) ==
    /\ lease[r] # Null
    /\ LET g == lease[r]
       IN /\ leases' = [leases EXCEPT ![g] = @ - 1]
          /\ components' = IF retired[g] /\ leases[g] = 1 /\ ~Closed(g)
                           THEN [components EXCEPT ![g] = "closing"] ELSE components
    /\ lease' = [lease EXCEPT ![r] = Null]
    /\ UNCHANGED <<built, spec, retired, active, bound, accepting, live, update, down>>

ProviderNext ==
    \/ \E p \in Specs : Install(p) \/ (\E s \in RuntimeSessions : Prepare(s, p))
    \/ \E s \in RuntimeSessions : StartSession(s) \/ Update(s)
    \/ PrepareFails \/ Swap \/ Commit \/ StopSession \/ Shutdown
    \/ \E r \in Requests, s \in RuntimeSessions : Acquire(r, s)
    \/ \E r \in Requests : Release(r)
    \/ \E g \in Generations : CloseComponents(g)

\* Provider calls have timeouts; closing the clients ends; the shielded commit runs.
ProviderFairness ==
    /\ \A r \in Requests : WF_providerVars(Release(r))
    /\ \A g \in Generations : WF_providerVars(CloseComponents(g))
    /\ WF_providerVars(Commit) /\ WF_providerVars(PrepareFails \/ Swap)

ProviderSpec == ProviderInit /\ [][ProviderNext]_providerVars /\ ProviderFairness

---------------------------------------------------------------------------
Holders(g) == {r \in Requests : lease[r] = g}

GenerationsTyped ==
    /\ built \in 0..MaxGeneration
    /\ spec \in [Generations -> Specs \cup {Null}]
    /\ leases \in [Generations -> Nat] /\ retired \in [Generations -> BOOLEAN]
    /\ components \in [Generations -> {"open", "closing", "closed"}]
    /\ active \in 1..built \cup {Null}
    /\ bound \in [RuntimeSessions -> 1..built \cup {Null}]
    /\ accepting \in [RuntimeSessions -> BOOLEAN]
    /\ live \in RuntimeSessions \cup {Null}
    /\ update \in UpdateRec \cup {Null}
    /\ update # Null => update.candidate <= built
    /\ lease \in [Requests -> 1..built \cup {Null}]
    /\ down \in BOOLEAN
    /\ \A s \in RuntimeSessions : accepting[s] \/ live = s => bound[s] # Null

\* No request works with a provider whose clients are being closed, whatever is
\* replaced or shut down under it.
NoneWorksWithClosed == \A r \in Requests : lease[r] # Null => ~Closed(lease[r])

\* The running session can lease its provider at every moment: no update retires a
\* generation before the session was moved off it.
RunningSessionHasProvider ==
    live # Null /\ accepting[live] => ~retired[bound[live]]

\* A generation that is neither the active one nor the candidate of the update under
\* way has been retired: no failure leaves clients open that nobody will close.
NoGenerationForgotten ==
    \A g \in 1..built :
        retired[g] \/ g = active \/ (update # Null /\ update.candidate = g)

\* Clients stay open for those who need them, and for nobody else.
ClientsFollowUse ==
    /\ GenerationsTyped /\ NoneWorksWithClosed
    /\ RunningSessionHasProvider /\ NoGenerationForgotten

\* Whatever was retired is closed when its requests have ended.
RetiredGenerationsClose == \A g \in Generations : retired[g] ~> components[g] = "closed"

=============================================================================
