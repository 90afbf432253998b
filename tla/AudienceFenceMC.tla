--------------------------- MODULE AudienceFenceMC ---------------------------
(* AudienceFence for TLC: work items and callers are interchangeable. *)
EXTENDS AudienceFence, TLC

Symmetry == Permutations(Items) \cup Permutations(Callers)

==============================================================================
