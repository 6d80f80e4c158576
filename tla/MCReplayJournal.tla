-------------------------- MODULE MCReplayJournal --------------------------
(* Two processes and three ids are interchangeable. *)
EXTENDS ReplayJournal, TLC

Symmetry == Permutations(Processes) \cup Permutations(Inputs)
=============================================================================
