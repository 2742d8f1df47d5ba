---------------------------- MODULE TraceSession ----------------------------
(***************************************************************************)
(* What a tracing plugin promises of a run: its session is opened once,    *)
(* takes the calls of tools while it is open, each at most once, and is    *)
(* closed for good, after all the calls that the run has made.             *)
(***************************************************************************)
CONSTANTS Run, Call, RunOf(_)

VARIABLES
  state,          \* of each run's session: "none", "open" or "closed"
  calls,          \* the calls each session took
  pending         \* calls that were made and have not ended

vars == <<state, calls, pending>>

Init ==
  /\ state = [r \in Run |-> "none"]
  /\ calls = {} /\ pending = {}

Open(r) ==
  /\ state[r] = "none"
  /\ state' = [state EXCEPT ![r] = "open"]
  /\ UNCHANGED <<calls, pending>>

\* A call is made while its run is not over.
Make(C) ==
  /\ \A c \in C : state[RunOf(c)] # "closed"
  /\ pending' = pending \cup C
  /\ UNCHANGED <<state, calls>>

Take(c) ==
  /\ state[RunOf(c)] = "open" /\ c \in pending \ calls
  /\ calls' = calls \cup {c}
  /\ UNCHANGED <<state, pending>>

\* Calls end, in any number where the process does.
End(C) ==
  /\ pending' = pending \ C
  /\ UNCHANGED <<state, calls>>

Close(r) ==
  /\ state[r] = "open"
  /\ \A c \in pending : RunOf(c) # r
  /\ state' = [state EXCEPT ![r] = "closed"]
  /\ UNCHANGED <<calls, pending>>

Next ==
  \/ \E r \in Run : Open(r) \/ Close(r)
  \/ \E C \in SUBSET Call : Make(C) \/ End(C)
  \/ \E c \in Call : Take(c)

Spec == Init /\ [][Next]_vars

=============================================================================
