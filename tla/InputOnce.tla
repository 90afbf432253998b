----------------------------- MODULE InputOnce ------------------------------
(***************************************************************************)
(* What a client of the ingest protocol may rely on, whatever happens to   *)
(* its messages: the service knows the inputs it was asked for, takes each *)
(* of them once, those of a kind in the order of their timestamps, and an  *)
(* acknowledged input has been taken.  Its memory has a limit: one that    *)
(* knows Capacity inputs drops an old one for a new one, and only an input *)
(* dropped so can be taken again, as if it had never been asked for.  A    *)
(* client that is refused, or hears nothing, knows nothing.                *)
(***************************************************************************)
EXTENDS Naturals, FiniteSets

CONSTANTS Inputs,   \* the inputs, numbered by their timestamps
          Kinds,
          Capacity  \* how many inputs the service can always remember

VARIABLES kind,   \* of each input
          known,  \* the inputs the service remembers
          open,   \* those of them it has not taken since they were asked for
          taken,  \* how often each input was taken
          told    \* what its client was told

vars == <<kind, known, open, taken, told>>

Init ==
    /\ kind \in [Inputs -> Kinds]
    /\ known = {} /\ open = {}
    /\ taken = [i \in Inputs |-> 0]
    /\ told = [i \in Inputs |-> "nothing"]

\* A stranger is remembered, in the place of another one when the memory is
\* full.
Admit(i) ==
    /\ i \notin known
    /\ \/ known' = known \cup {i}
       \/ /\ Cardinality(known) >= Capacity
          /\ \E j \in known : known' = (known \ {j}) \cup {i}

Use(i) ==
    /\ \A j \in Inputs : kind[j] = kind[i] /\ j > i => taken[j] = 0
    /\ taken' = [taken EXCEPT ![i] = @ + 1]

Ask(i) ==
    /\ Admit(i)
    /\ open' = (open \cap known') \cup {i}
    /\ UNCHANGED <<kind, taken, told>>

Take(i) ==
    /\ i \in open
    /\ Use(i)
    /\ open' = open \ {i}
    /\ UNCHANGED <<kind, known, told>>

AskAndTake(i) ==
    /\ Admit(i)
    /\ Use(i)
    /\ open' = open \cap known'
    /\ UNCHANGED <<kind, told>>

\* What could not be taken may be asked for again.
GiveUp(i) ==
    /\ i \in open
    /\ known' = known \ {i} /\ open' = open \ {i}
    /\ UNCHANGED <<kind, taken, told>>

Acknowledge(i) ==
    /\ told[i] = "nothing"
    /\ taken[i] > 0
    /\ told' = [told EXCEPT ![i] = "acknowledged"]
    /\ UNCHANGED <<kind, known, open, taken>>

\* Several clients' calls fail at once when a connection is lost.
Fail(failed) ==
    /\ \A i \in failed : told[i] = "nothing"
    /\ told' = [i \in Inputs |-> IF i \in failed THEN "failed" ELSE told[i]]
    /\ UNCHANGED <<kind, known, open, taken>>

Next ==
    \/ \E i \in Inputs : Ask(i) \/ Take(i) \/ AskAndTake(i) \/ GiveUp(i) \/ Acknowledge(i)
    \/ \E failed \in SUBSET Inputs : Fail(failed)

Spec == Init /\ [][Next]_vars
=============================================================================
