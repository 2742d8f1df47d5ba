--------------------------- MODULE MCTriggerBridge ---------------------------
(* Small instances of TriggerBridge for TLC. *)
EXTENDS TriggerBridge, TLC

\* Events of a kind are interchangeable.
EventSymmetry == Permutations(Event \ (NoId \cup Unusable)) \cup Permutations(NoId)

=============================================================================
