--------------------------- MODULE MCSlackChannel ---------------------------
(* Small instances of SlackChannelScraper for TLC. *)
EXTENDS SlackChannelScraper, TLC

\* Jobs are interchangeable: no action and no safety property names one.
JobSymmetry == Permutations(Job)

=============================================================================
