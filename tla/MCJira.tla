------------------------------- MODULE MCJira -------------------------------
(* Small instances of JiraScraper for TLC. *)
EXTENDS JiraScraper, TLC

MCDocument == Issue \X (1..MaxTime)

\* Issues are interchangeable, and so are jobs.
IssueSymmetry == Permutations(Issue) \cup Permutations(Job)

=============================================================================
