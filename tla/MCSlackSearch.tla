---------------------------- MODULE MCSlackSearch ----------------------------
(* Small instances of SlackSearchScraper for TLC. *)
EXTENDS SlackSearchScraper

\* Message 2 begins a thread that 3, 5 and 6 answer; the others stand alone.
MCRoot == [m \in Message |-> IF m \in {3, 5, 6} THEN 2 ELSE m]

\* The search finds an answer in the thread, then its first message, then a later
\* message.
MCRanking == <<3, 2, 4>>

=============================================================================
