-------------------------- MODULE MCTriggerArchive --------------------------
(* TriggerArchive for TLC: recorders are alike, and so are the deliveries    *)
(* that carry a uuid.                                                        *)
EXTENDS TriggerArchive, TLC

Symmetry == Permutations(Recorders) \cup Permutations(Deliveries \ Unnamed)

=============================================================================
