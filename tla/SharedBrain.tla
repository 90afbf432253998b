----------------------------- MODULE SharedBrain -----------------------------
(***************************************************************************)
(* SharedBrainService as a whole: the memory of a Room and the memes of a  *)
(* Mode, which share the database, the fence and the page that edits them, *)
(* and no row.  A behaviour works on the one or on the other, so that the  *)
(* state space is the sum of theirs.                                       *)
(***************************************************************************)
EXTENDS RoomMemory

CONSTANTS Proposed, Legacy, Owners, MaxOrders   \* of ModeMemes

ASSUME MemeAssumption == MaxOrders \in Nat /\ Proposed \cap Legacy = {}

VARIABLES
    page,   \* which of the two this behaviour is about
    candidate, meme, log, auto, accepting, decision, order, ordered

Memes == INSTANCE ModeMemes

memeVars == <<candidate, meme, log, auto, accepting, decision, order, ordered>>
vars == <<page, memoryVars, memeVars>>

Init == page \in {"memory", "memes"} /\ MemoryInit /\ Memes!MemeInit

Next ==
    \/ page = "memory" /\ MemoryNext /\ UNCHANGED <<page, memeVars>>
    \/ page = "memes" /\ Memes!MemeNext /\ UNCHANGED <<page, memoryVars>>

Spec == Init /\ [][Next]_vars

-----------------------------------------------------------------------------
(* Properties. *)

\* Both stores stay well formed, whichever requests, extractions and decisions meet: evidence, heads,
\* idempotency records, candidates, memes and audit events agree (see MemoryConsistent, MemesConsistent).
StoresConsistent == MemoryConsistent /\ Memes!MemesConsistent

\* The owner has the last word on a meme: a decision about a candidate is final, and the maintenance
\* archives nothing that was touched after it was listed (see DecisionsAreFinal, MaintenanceSparesKept).
OwnersDecide == Memes!DecisionsAreFinal /\ Memes!MaintenanceSparesKept

\* People decide what stays: a memory they forgot, a meme they decided about.
PeopleDecide == ForgottenStaysForgotten /\ OwnersDecide

==============================================================================
