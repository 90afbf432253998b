------------------------------ MODULE ModeMemes ------------------------------
(***************************************************************************)
(* The memes of one Mode: candidates a wave proposed, the owner's decision *)
(* about them, the memes they became, and the daily maintenance.           *)
(* SharedBrainService, ModeMemeService and SQLiteModeMemeServiceRepository. *)
(*                                                                         *)
(* A decision about a candidate holds the effect lock of the session from  *)
(* the fence's check to the end of its transaction; everything else only   *)
(* compares and swaps the revision of the meme.  As in RoomMemory, what is *)
(* read before the first write of a transaction may be old by then.        *)
(* A meme is named by its candidate ("meme:" + candidate_id).  Nothing     *)
(* calls record_use, so use_count is 0 and maintenance archives whatever   *)
(* it decays.                                                              *)
(***************************************************************************)
EXTENDS Naturals, FiniteSets

CONSTANTS
    Proposed,    \* candidates of waves
    Legacy,      \* candidates of the import of an old workspace
    Owners,      \* concurrent requests of the meme page
    MaxOrders,   \* bound of the model: requests
    None

Sources == Proposed \cup Legacy

VARIABLES
    candidate,     \* mode_meme_candidates.outcome; "none" without a row
    meme,          \* mode_memes
    log,           \* new_revision of the mode_meme_events of each meme
    auto,          \* mode_meme_settings: enabled and revision
    accepting,     \* the fence accepts the epoch the candidates come from
    decision,      \* what holds the effect lock
    order,         \* of each owner, the request in progress
    ordered        \* how many requests were made

memeVars == <<candidate, meme, log, auto, accepting, decision, order, ordered>>

Outcomes == {"none", "pending", "accepted", "rejected"}
MemeStates == {"none", "active", "disabled", "revoked", "archived"}
NoMeme == [state |-> "none", revision |-> 0, pinned |-> FALSE, idle |-> FALSE]

MemeInit ==
    /\ candidate = [c \in Sources |-> "none"]
    /\ meme = [c \in Sources |-> NoMeme]
    /\ log = [c \in Sources |-> {}]
    /\ auto = [enabled |-> TRUE, revision |-> 0]
    /\ accepting = TRUE /\ decision = None
    /\ order = [o \in Owners |-> None] /\ ordered = 0

-----------------------------------------------------------------------------
(* Under the fence: a candidate is committed, imported, approved, rejected, or its meme undone. *)

Verbs == {"commit", "import", "approve", "reject", "undo"}

\* Which verb meets which candidate: approve and reject look the row up first, and undo the meme.
Speaks(verb, c) ==
    CASE verb = "commit" -> c \in Proposed
      [] verb = "import" -> c \in Legacy
      [] verb = "undo"   -> meme[c].state # "none"
      [] OTHER           -> candidate[c] # "none"

\* Admitted by the fence; what the handler reads then is kept in the decision.  An undo carries the
\* revision its author saw: an older one than the present is a decision left undecided.
Admit(verb, c) ==
    /\ decision = None /\ ordered < MaxOrders /\ ordered' = ordered + 1
    /\ Speaks(verb, c)
    /\ decision' = IF accepting
                   THEN [verb |-> verb, candidate |-> c, enabled |-> auto.enabled,
                         outcome |-> candidate[c], revision |-> meme[c].revision]
                   ELSE None
    /\ UNCHANGED <<candidate, meme, log, auto, accepting, order>>

Create(c) ==
    /\ meme' = [meme EXCEPT ![c] = [state |-> "active", revision |-> 1, pinned |-> FALSE, idle |-> FALSE]]
    /\ log' = [log EXCEPT ![c] = {1}]
    /\ candidate' = [candidate EXCEPT ![c] = "accepted"]

\* Compare and swap of a meme's revision, with its audit event.
Revise(c, revision, state, pinned) ==
    /\ meme[c].revision = revision
    /\ meme' = [meme EXCEPT ![c] = [state |-> state, revision |-> revision + 1, pinned |-> pinned, idle |-> FALSE]]
    /\ log' = [log EXCEPT ![c] = @ \cup {revision + 1}]

\* UPDATE ... WHERE outcome = 'pending', or an INSERT.
Still(outcomes) == candidate[decision.candidate] \in outcomes

\* Ingested at once, or accepted by the owner: meme, audit event and outcome in one transaction.
Accept ==
    /\ \/ decision.verb = "commit" /\ decision.enabled
       \/ decision.verb \in {"approve", "import"}
    /\ decision.outcome # "accepted"
    /\ Still(IF decision.verb = "approve" THEN {"pending"} ELSE {"none", "pending"})
    /\ Create(decision.candidate)

\* Automatic ingest is off: the candidate waits for its owner.
Park ==
    /\ decision.verb = "commit" /\ ~decision.enabled /\ decision.outcome = "none"
    /\ candidate' = [candidate EXCEPT ![decision.candidate] = "pending"]
    /\ UNCHANGED <<meme, log>>

Reject ==
    /\ decision.verb = "reject" /\ Still({"pending"})
    /\ candidate' = [candidate EXCEPT ![decision.candidate] = "rejected"]
    /\ UNCHANGED <<meme, log>>

Undo ==
    /\ decision.verb = "undo"
    /\ Revise(decision.candidate, decision.revision, "revoked", meme[decision.candidate].pinned)
    /\ UNCHANGED candidate

Decide ==
    /\ decision # None
    /\ Accept \/ Park \/ Reject \/ Undo
    /\ decision' = None
    /\ UNCHANGED <<auto, accepting, order, ordered>>

\* Already decided, a conflict, or cancelled: the transaction leaves nothing.
LeaveUndecided ==
    /\ decision # None /\ decision' = None
    /\ UNCHANGED <<candidate, meme, log, auto, accepting, order, ordered>>

-----------------------------------------------------------------------------
(* Requests of the meme page, each with the revision its author saw. *)

Actions == [edit |-> "", revoke |-> "revoked", disable |-> "disabled", restore |-> "active",
            archive |-> "archived", pin |-> "", unpin |-> ""]

Stored == {c \in Sources : meme[c].state # "none"}

Order(o) ==
    /\ order[o] = None /\ ordered < MaxOrders /\ ordered' = ordered + 1
    /\ \/ \E action \in DOMAIN Actions, c \in Stored :
             order' = [order EXCEPT ![o] = [action |-> action, meme |-> c, revision |-> meme[c].revision]]
       \/ order' = [order EXCEPT ![o] = [action |-> "switch", revision |-> auto.revision]]
       \* maintain_memes lists the active memes nobody touched for 30 days
       \/ order' = [order EXCEPT ![o] =
             [action |-> "maintain",
              listed |-> [c \in {d \in Stored : meme[d].state = "active" /\ meme[d].idle /\ ~meme[d].pinned}
                          |-> meme[c].revision]]]
    /\ UNCHANGED <<candidate, meme, log, auto, accepting, decision>>

Change(o) ==
    LET r == order[o] IN
    /\ r # None /\ r.action \in DOMAIN Actions
    /\ Revise(r.meme, r.revision,
              IF Actions[r.action] = "" THEN meme[r.meme].state ELSE Actions[r.action],
              IF r.action \in {"pin", "unpin"} THEN r.action = "pin" ELSE meme[r.meme].pinned)
    /\ order' = [order EXCEPT ![o] = None]
    /\ UNCHANGED <<candidate, auto, accepting, decision, ordered>>

Switch(o) ==
    LET r == order[o] IN
    /\ r # None /\ r.action = "switch" /\ r.revision = auto.revision
    /\ auto' = [enabled |-> ~auto.enabled, revision |-> auto.revision + 1]
    /\ order' = [order EXCEPT ![o] = None]
    /\ UNCHANGED <<candidate, meme, log, accepting, decision, ordered>>

\* Every listed meme still has the revision it was listed with.
ListedUnchanged(listed) == \A c \in DOMAIN listed : meme[c].revision = listed[c]

\* One transaction: each listed meme decays (one revision) and is archived (another).
Maintain(o) ==
    LET r == order[o] IN
    /\ r # None /\ r.action = "maintain" /\ ListedUnchanged(r.listed)
    /\ meme' = [c \in Sources |->
          IF c \in DOMAIN r.listed
          THEN [meme[c] EXCEPT !.state = "archived", !.revision = @ + 2, !.idle = FALSE] ELSE meme[c]]
    /\ log' = [c \in Sources |->
          IF c \in DOMAIN r.listed THEN log[c] \cup {meme[c].revision + 1, meme[c].revision + 2} ELSE log[c]]
    /\ order' = [order EXCEPT ![o] = None]
    /\ UNCHANGED <<candidate, auto, accepting, decision, ordered>>

\* A stale revision: 409.
Refuse(o) ==
    /\ order[o] # None /\ order' = [order EXCEPT ![o] = None]
    /\ UNCHANGED <<candidate, meme, log, auto, accepting, decision, ordered>>

\* Thirty days pass.
Idle(c) ==
    /\ c \in Stored /\ ~meme[c].idle
    /\ meme' = [meme EXCEPT ![c].idle = TRUE]
    /\ UNCHANGED <<candidate, log, auto, accepting, decision, order, ordered>>

\* The epoch advances or the session stops, under the effect lock.
CloseFence ==
    /\ decision = None /\ accepting /\ accepting' = FALSE
    /\ UNCHANGED <<candidate, meme, log, auto, decision, order, ordered>>

MemeNext ==
    \/ \E verb \in Verbs, c \in Sources : Admit(verb, c)
    \/ Decide \/ LeaveUndecided \/ CloseFence
    \/ \E o \in Owners : Order(o) \/ Change(o) \/ Switch(o) \/ Maintain(o) \/ Refuse(o)
    \/ \E c \in Sources : Idle(c)

MemeSpec == MemeInit /\ [][MemeNext]_memeVars

-----------------------------------------------------------------------------
(* Properties. *)

\* The store is well formed: a candidate is accepted exactly when its meme exists, an imported one is
\* never parked or rejected, and every revision of a meme has its audit event (mode_meme_events), also
\* when the maintenance makes two revisions in one transaction.
MemesConsistent ==
    /\ candidate \in [Sources -> Outcomes]
    /\ \A c \in Sources :
          /\ meme[c].state \in MemeStates
          /\ candidate[c] = "accepted" <=> meme[c].state # "none"
          /\ c \in Legacy => candidate[c] \in {"none", "accepted"}
          /\ log[c] = 1..meme[c].revision

\* A decision about a candidate is final: what the owner rejected is not ingested when the candidate
\* arrives again, what was accepted is not parked or rejected, and a meme is never made anew.
DecisionsAreFinal ==
    [][\A c \in Sources :
          /\ candidate[c] \in {"accepted", "rejected"} => candidate'[c] = candidate[c]
          /\ meme[c].state # "none" => meme'[c].revision >= meme[c].revision]_memeVars

\* The maintenance archives only memes that nobody touched for thirty days up to the moment it writes:
\* one that was pinned, edited or restored after it was listed is spared, and the whole run with it.
MaintenanceSparesKept ==
    [][\A o \in Owners, c \in Sources :
          order[o] # None /\ order'[o] = None /\ order[o].action = "maintain"
             /\ meme[c].state # "archived" /\ meme'[c].state = "archived"
          => meme[c].state = "active" /\ meme[c].idle /\ ~meme[c].pinned]_memeVars
==============================================================================
