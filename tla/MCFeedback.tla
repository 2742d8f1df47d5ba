----------------------------- MODULE MCFeedback -----------------------------
(* Small instances of Feedback for TLC. *)
EXTENDS Feedback, TLC

CONSTANTS up, plus, down, smile, positive, negative

\* Two emojis of one label, one of the opposite, one of none.
MCLabelOf == [e \in {up, plus, down, smile} |->
                CASE e \in {up, plus} -> positive [] e = down -> negative [] e = smile -> NoLabel]

MCScalar == [l \in {positive, negative, NoLabel} |->
               CASE l = positive -> 1 [] l = negative -> -1 [] l = NoLabel -> 0]

\* Replicas are interchangeable, and so are the emojis of one label.
ReplicaSymmetry == Permutations(Replica) \cup Permutations({up, plus})

=============================================================================
