---------------------------- MODULE SharedBrainMC ----------------------------
(* SharedBrain for TLC: users, owners and candidates are interchangeable. *)
EXTENDS SharedBrain, TLC

Symmetry == Permutations(Users) \cup Permutations(Candidates) \cup Permutations(Owners)

==============================================================================
