--------------------------- MODULE Feedback_proofs ---------------------------
(***************************************************************************)
(* Proofs about Feedback, for any replicas, users, messages, emojis,       *)
(* labels and bounds, and either store.                                    *)
(*                                                                         *)
(* Three arguments meet in IInv.  A home knows a message by a correlation  *)
(* that was recorded after the side effect, and only its handlers get past *)
(* the look-up (PostInv, HandlerInv, StoredInv, ExpectedInv).  A handler   *)
(* that is alone with its user and message has an ever smaller list of     *)
(* opposing labels left (RaceInv, SideInv, OpposeInv).  And reactions that *)
(* came in turn are handled up to one of them, at which the feedback is    *)
(* what those before it said but for what this one has done so far         *)
(* (OrderInv, MirrorInv).                                                  *)
(***************************************************************************)
EXTENDS Feedback, SequenceTheorems, TLAPS

\* Handlers that have got past the look-up.
Working == {"retract", "oppose", "insert", "publish"}

\* An event has been sent when it is in the log.
LogInv == \A n \in 1..MaxEvents : pc[n] = "none" <=> n \notin DOMAIN log

\* A post makes its records in their order, both at its own home.
PostInv ==
  /\ \A m \in Message :
       /\ post[m] = "effect" => m \in effects[HomeOf(poster[m])]
       /\ post[m] = "answered" => m \in corr[HomeOf(poster[m])]
  /\ \A h \in Home : \A m \in corr[h] : m \in effects[h] /\ h = HomeOf(poster[m])

\* Who is past the look-up found the correlation and a label.
HandlerInv ==
  \A n \in DOMAIN log :
    /\ pc[n] \in Working => /\ log[n].message \in corr[HomeOf(at[n])]
                            /\ LabelFor(n) \in Label
    /\ pc[n] = "retract" => log[n].type = "reaction_removed"
    /\ pc[n] \in {"oppose", "insert", "publish"} => log[n].type = "reaction_added"
    /\ pc[n] = "oppose" => todo[n] \subseteq Opposing(LabelFor(n))

\* Feedback is kept where its message is known.
StoredInv == \A h \in Home : \A k \in stored[h] : k[2] \in corr[h]

\* A reaction to a message that was answered for will be or was found.
ExpectedInv ==
  \A n \in expected :
    /\ n \in DOMAIN log
    /\ pc[n] = "lookup" => log[n].message \in corr[HomeOf(at[n])]
    /\ pc[n] # "orphan"

\* Two handlers of one user and message have raced.
RaceInv ==
  \A n, k \in Handled : Whose(n) = Whose(k) => n = k \/ Whose(n) \in raced

\* Without a race no home has both sides ...
SideInv ==
  \A h \in Home : \A u \in User, m \in Message : <<u, m>> \notin raced =>
    \A k, l \in Label :
      <<u, m, k>> \in stored[h] /\ <<u, m, l>> \in stored[h] => k \notin Opposing(l)

\* ... since what opposes the label to be recorded is retracted or in todo.
OpposeInv ==
  \A n \in DOMAIN log : Whose(n) \notin raced =>
    \A l \in Opposing(LabelFor(n)) :
      /\ pc[n] = "oppose" /\ KeyOf(n, l) \in stored[HomeOf(at[n])] => l \in todo[n]
      /\ pc[n] = "insert" => KeyOf(n, l) \notin stored[HomeOf(at[n])]

Mine(u, m) == {n \in DOMAIN log : Whose(n) = <<u, m>>}
Done(u, m) == {n \in Mine(u, m) : pc[n] = "done"}

\* What the reactions in D say in the end, when lg is the log.
Said(lg, D) ==
  {LabelOf[lg[n].emoji] : n \in
     {n \in D :
        /\ LabelOf[lg[n].emoji] # NoLabel
        /\ lg[n].type = "reaction_added"
        /\ \A k \in D : LabelOf[lg[k].emoji] # NoLabel /\ k > n =>
             IF lg[k].type = "reaction_removed"
             THEN LabelOf[lg[k].emoji] # LabelOf[lg[n].emoji]
             ELSE LabelOf[lg[n].emoji] \notin Opposing(LabelOf[lg[k].emoji])}}

\* What the feedback is while a handler for label l is at p, with left still to
\* retract, and the reactions before it said before.
Between(p, left, l, before, labels) ==
  /\ p \in {"lookup", "retract"} => labels = before
  /\ p = "oppose" => labels = before \ (Opposing(l) \ left)
  /\ p = "insert" => labels = (before \ Opposing(l)) \ {l}
  /\ p = "publish" => labels = (before \ Opposing(l)) \cup {l}

\* Reactions that came in turn were handled one after the other.
OrderInv ==
  \A u \in User, m \in Message : <<u, m>> \notin spoiled =>
    \A k, n \in Mine(u, m) : k < n /\ pc[n] # "waiting" => pc[k] = "done"

\* The feedback is what those handled say, but for what the one under way has
\* done.
MirrorAt(u, m) ==
  /\ (\A n \in Mine(u, m) : pc[n] \in {"waiting", "done"}) =>
       LabelsOf(u, m) = Said(log, Done(u, m))
  /\ \A n \in Mine(u, m) :
       Between(pc[n], todo[n], LabelFor(n), Said(log, Done(u, m)), LabelsOf(u, m))
MirrorInv == \A u \in User, m \in Message : <<u, m>> \notin spoiled => MirrorAt(u, m)

IInv ==
  /\ TypeOK /\ LogInv
  /\ PostInv /\ HandlerInv /\ StoredInv /\ ExpectedInv
  /\ RaceInv /\ SideInv /\ OpposeInv
  /\ OrderInv /\ MirrorInv
-----------------------------------------------------------------------------
(* What the steps that are not plain assignments do *)

\* An event's number is its place in the log.
LEMMA LogDomain ==
  ASSUME TypeOK
  PROVE  /\ Len(log) \in Nat /\ DOMAIN log = 1..Len(log) /\ DOMAIN log \subseteq 1..MaxEvents
         /\ \A n \in DOMAIN log :
              /\ log[n] \in Event /\ log[n].user \in User /\ log[n].message \in Message
              /\ Whose(n) \in User \X Message
              /\ log[n].type \in {"reaction_added", "reaction_removed"}
              /\ LabelFor(n) \in Label \cup {NoLabel}
<1>1. Len(log) \in Nat /\ DOMAIN log = 1..Len(log) /\ Len(log) <= MaxEvents
      /\ MaxEvents \in Nat
  BY LenProperties, FeedbackAssumption DEF TypeOK
<1>2. \A n \in DOMAIN log : log[n] \in Event
  BY <1>1, ElementOfSeq DEF TypeOK
<1> QED
  BY <1>1, <1>2, FeedbackAssumption DEF Event, Whose, LabelFor

\* One more event x, which waits, of user u and message m.
Grown(x, u, m) ==
  /\ x \in 1..MaxEvents /\ x \notin DOMAIN log /\ pc[x] = "none"
  /\ \A n \in DOMAIN log : n < x
  /\ DOMAIN log' = DOMAIN log \cup {x} /\ Len(log') = x
  /\ log' \in Seq(Event)
  /\ \A n \in DOMAIN log : log'[n] = log[n] /\ pc'[n] = pc[n]
  /\ pc' = [pc EXCEPT ![x] = "waiting"]
  /\ log'[x].user = u /\ log'[x].message = m

\* A reaction of a user to a message is one.
LEMMA ReactLog ==
  ASSUME IInv, NEW u \in User, NEW m \in Message, NEW e \in Emoji, React(u, m, e)
  PROVE  \E x \in 1..MaxEvents : Grown(x, u, m)
<1> DEFINE x == Len(log) + 1
           ev == [type |-> IF <<u, m, e>> \in Shown
                           THEN "reaction_removed" ELSE "reaction_added",
                  user |-> u, message |-> m, emoji |-> e]
<1>1. log' = Append(log, ev) /\ pc' = [pc EXCEPT ![x] = "waiting"] /\ Len(log) < MaxEvents
  BY DEF React
<1>2. ev \in Event
  BY DEF Event
<1>3. ev.user = u /\ ev.message = m /\ ev.emoji = e
  OBVIOUS
<1> HIDE DEF ev
<1>4. Len(log) \in Nat /\ DOMAIN log = 1..Len(log) /\ DOMAIN log \subseteq 1..MaxEvents
  BY LogDomain DEF IInv
<1>5. /\ log' \in Seq(Event) /\ Len(log') = x /\ log'[x] = ev
      /\ \A n \in 1..Len(log) : log'[n] = log[n]
  BY <1>1, <1>2, AppendProperties DEF IInv, TypeOK
<1>6. DOMAIN log' = 1..x
  BY <1>5, LenProperties
<1>7. x \in 1..MaxEvents /\ x \notin DOMAIN log /\ 1..x = 1..Len(log) \cup {x}
      /\ \A n \in DOMAIN log : n < x
  BY <1>1, <1>4, FeedbackAssumption
<1>8. pc[x] = "none"
  BY <1>7 DEF IInv, LogInv
<1> QED
  BY <1>1, <1>3, <1>4, <1>5, <1>6, <1>7, <1>8 DEF IInv, TypeOK, Grown

\* The outcomes of a look-up.
LookedUp(n, where) ==
  /\ n \in DOMAIN log /\ pc[n] = "lookup" /\ pc' = [pc EXCEPT ![n] = where]
  /\ where = "orphan" <=> log[n].message \notin corr[HomeOf(at[n])]
  /\ orphans' = IF where = "orphan" THEN orphans \cup {n} ELSE orphans
  /\ where = "done" => LabelFor(n) = NoLabel
  /\ where = "retract" => LabelFor(n) \in Label /\ log[n].type = "reaction_removed"
  /\ where = "oppose" => LabelFor(n) \in Label /\ log[n].type = "reaction_added"
  /\ todo' = [todo EXCEPT ![n] = IF where = "oppose"
                                 THEN Opposing(LabelFor(n)) ELSE {}]
  /\ UNCHANGED <<kind, posts, log, at, stored, history, again, faults>>

\* A look-up has one of them.
LEMMA LookUpCases ==
  ASSUME IInv, NEW n \in 1..MaxEvents, LookUp(n)
  PROVE  \E where \in {"orphan", "done", "retract", "oppose"} : LookedUp(n, where)
<1> DEFINE known == log[n].message \in corr[HomeOf(at[n])]
           next == CASE ~known -> "orphan"
                     [] known /\ ~Resolved(n) -> "done"
                     [] known /\ Resolved(n) /\ Type(n) = "reaction_removed" -> "retract"
                     [] known /\ Resolved(n) /\ Type(n) = "reaction_added" -> "oppose"
           left == IF known /\ Resolved(n) /\ Type(n) = "reaction_added"
                   THEN Opposing(LabelFor(n)) ELSE {}
<1>1. /\ pc[n] = "lookup" /\ pc' = [pc EXCEPT ![n] = next]
      /\ orphans' = IF known THEN orphans ELSE orphans \cup {n}
      /\ todo' = [todo EXCEPT ![n] = left]
      /\ UNCHANGED <<kind, posts, log, at, stored, history, again, faults>>
  BY DEF LookUp, Goto
<1>2. n \in DOMAIN log
  BY <1>1 DEF IInv, LogInv
<1>3. LabelFor(n) \in Label \cup {NoLabel}
      /\ log[n].type \in {"reaction_added", "reaction_removed"}
      /\ (Resolved(n) <=> LabelFor(n) \in Label) /\ Type(n) = log[n].type
  BY <1>2, LogDomain, FeedbackAssumption DEF IInv, Resolved, Type
<1>4. CASE ~known
  <2>1. next = "orphan" /\ left = {}
    BY <1>4
  <2> QED
    BY <1>1, <1>2, <1>4, <2>1 DEF LookedUp
<1>5. CASE known /\ LabelFor(n) = NoLabel
  <2>1. next = "done" /\ left = {}
    BY <1>3, <1>5, FeedbackAssumption
  <2> QED
    BY <1>1, <1>2, <1>5, <2>1 DEF LookedUp
<1>6. CASE known /\ LabelFor(n) \in Label /\ log[n].type = "reaction_removed"
  <2>1. next = "retract" /\ left = {}
    BY <1>3, <1>6
  <2> QED
    BY <1>1, <1>2, <1>6, <2>1 DEF LookedUp
<1>7. CASE known /\ LabelFor(n) \in Label /\ log[n].type = "reaction_added"
  <2>1. next = "oppose" /\ left = Opposing(LabelFor(n))
    BY <1>3, <1>7
  <2> QED
    BY <1>1, <1>2, <1>7, <2>1 DEF LookedUp
<1> QED
  BY <1>3, <1>4, <1>5, <1>6, <1>7

\* Opposition is mutual, between labels whose scalars have opposite signs.
LEMMA OppositionIsMutual ==
  ASSUME NEW k \in Label, NEW l \in Label
  PROVE  /\ k \in Opposing(l) <=> l \in Opposing(k)
         /\ k \in Opposing(l) <=> ~(Scalar[k] * Scalar[l] >= 0)
         /\ k \in Opposing(l) <=> ~(Scalar[l] * Scalar[k] >= 0)
         /\ l \notin Opposing(l)
<1>1. Scalar[k] \in {-1, 0, 1} /\ Scalar[l] \in {-1, 0, 1}
  BY FeedbackAssumption
<1> QED
  BY <1>1 DEF Opposing

-----------------------------------------------------------------------------
(* The parts of the invariant *)

\* Each step keeps the types.
LEMMA TypeNext == IInv /\ [Next]_vars => TypeOK'
<1> SUFFICES ASSUME IInv, [Next]_vars PROVE TypeOK'
  OBVIOUS
<1>0. DOMAIN log \subseteq 1..MaxEvents
  BY LogDomain DEF IInv
<1>1. ASSUME NEW u \in User, NEW m \in Message, NEW e \in Emoji, React(u, m, e)
      PROVE  TypeOK'
  <2>1. PICK x \in 1..MaxEvents : Grown(x, u, m)
    BY <1>1, ReactLog
  <2>2. /\ pc' = [pc EXCEPT ![x] = "waiting"] /\ log' \in Seq(Event)
        /\ Len(log') = x
    BY <2>1 DEF Grown
  <2>3. Len(log') <= MaxEvents
    BY <2>2, FeedbackAssumption
  <2> QED
    BY <1>1, <2>2, <2>3 DEF React, TypeOK, IInv, posts, handlers, history
<1>2. ASSUME NEW n \in 1..MaxEvents, LookUp(n) PROVE TypeOK'
  <2>1. PICK where \in {"orphan", "done", "retract", "oppose"} : LookedUp(n, where)
    BY <1>2, LookUpCases
  <2> QED
    BY <2>1 DEF LookedUp, IInv, TypeOK, Opposing, posts, history
<1> USE DEF IInv, posts, handlers, history, PostAt, Goto, HomeOf, Forget, TypeOK
<1>3. ASSUME NEW m \in Message, Send(m) PROVE TypeOK'
  BY <1>0, <1>3, FeedbackAssumption, LogDomain DEF Send
<1>4. ASSUME NEW m \in Message, RecordEffect(m) PROVE TypeOK'
  BY <1>0, <1>4, FeedbackAssumption, LogDomain, ZenonT(60) DEF RecordEffect
<1>5. ASSUME NEW m \in Message, Correlate(m) PROVE TypeOK'
  BY <1>0, <1>5, FeedbackAssumption, LogDomain, ZenonT(60) DEF Correlate
<1>6. ASSUME NEW m \in Message, PostFails(m) PROVE TypeOK'
  BY <1>0, <1>6, FeedbackAssumption, LogDomain DEF PostFails
<1>7. ASSUME NEW n \in 1..MaxEvents, NEW a \in Replica, Receive(n, a) PROVE TypeOK'
  BY <1>0, <1>7, FeedbackAssumption, LogDomain DEF Receive
<1>8. ASSUME NEW n \in 1..MaxEvents, Retract(n) PROVE TypeOK'
  BY <1>0, <1>8, FeedbackAssumption, LogDomain DEF Retract
<1>9. ASSUME NEW n \in 1..MaxEvents, Oppose(n) PROVE TypeOK'
  <2>1. PICK l \in todo[n] : /\ stored' = [stored EXCEPT ![HomeOf(at[n])] = @ \ {KeyOf(n, l)}]
                             /\ todo' = [todo EXCEPT ![n] = @ \ {l}]
    BY <1>9 DEF Oppose
  <2> HIDE DEF HomeOf
  <2>2. stored' \in [Home -> SUBSET Key] /\ todo' \in [1..MaxEvents -> SUBSET Label]
    BY <2>1
  <2> QED
    BY <1>9, <2>2 DEF Oppose
<1>10. ASSUME NEW n \in 1..MaxEvents, Delete(n) PROVE TypeOK'
  BY <1>0, <1>10, FeedbackAssumption, LogDomain DEF Delete
<1>11. ASSUME NEW n \in 1..MaxEvents, Insert(n) PROVE TypeOK'
  <2>1. n \in DOMAIN log /\ LabelFor(n) \in Label
    BY <1>11 DEF Insert, LogInv, HandlerInv, Working
  <2>2. KeyOf(n, LabelFor(n)) \in Key
    BY <2>1, LogDomain DEF KeyOf, Key
  <2>3. PICK h, k : /\ k \in Key
                    /\ stored' = [stored EXCEPT ![h] = @ \cup {k}]
    BY <1>11, <2>2 DEF Insert
  <2>4. stored' \in [Home -> SUBSET Key]
    BY <2>3
  <2>5. PICK where \in {"failed", "publish"} : pc' = [pc EXCEPT ![n] = where]
    BY <1>11 DEF Insert
  <2> QED
    BY <1>11, <2>4, <2>5 DEF Insert
<1>12. ASSUME NEW n \in 1..MaxEvents, Publish(n) PROVE TypeOK'
  BY <1>0, <1>12, FeedbackAssumption, LogDomain DEF Publish
<1>13. ASSUME NEW n \in 1..MaxEvents, Fail(n) PROVE TypeOK'
  BY <1>0, <1>13, FeedbackAssumption, LogDomain DEF Fail
<1>14. ASSUME NEW a \in Replica, Restart(a) PROVE TypeOK'
  <2>1. post' \in [Message -> {"unsent", "sent", "effect", "answered", "lost"}]
    BY <1>14 DEF Restart
  <2>2. pc' \in [1..MaxEvents -> {"none", "waiting", "lookup", "retract", "oppose",
                                "insert", "publish", "done", "orphan", "failed"}]
    BY <1>14 DEF Restart
  <2>3. /\ effects' \in [Home -> SUBSET Message] /\ corr' \in [Home -> SUBSET Message]
        /\ stored' \in [Home -> SUBSET Key] /\ spoiled' \subseteq User \X Message
    BY <1>14 DEF Restart
  <2>4. faults' \in 0..MaxFaults
    BY <1>14, FeedbackAssumption DEF Restart
  <2>5. expected' \subseteq 1..MaxEvents
    BY <1>14 DEF Restart
  <2> QED
    BY <1>14, <2>1, <2>2, <2>3, <2>4, <2>5 DEF Restart
<1>15. CASE UNCHANGED vars
  BY <1>15 DEF vars
<1> QED
  BY <1>1, <1>2, <1>3, <1>4, <1>5, <1>6, <1>7, <1>8, <1>9, <1>10, <1>11, <1>12, <1>13, <1>14, <1>15
     DEF Next

\* An event is none until it is in the log.
LEMMA LogNext == IInv /\ [Next]_vars => LogInv'
<1> SUFFICES ASSUME IInv, [Next]_vars PROVE LogInv'
  OBVIOUS
<1>0. DOMAIN log \subseteq 1..MaxEvents
  BY LogDomain DEF IInv
<1>1. ASSUME NEW u \in User, NEW m \in Message, NEW e \in Emoji, React(u, m, e)
      PROVE  LogInv'
  <2>1. PICK x \in 1..MaxEvents : Grown(x, u, m)
    BY <1>1, ReactLog
  <2> QED
    BY <1>0, <1>1, <2>1
       DEF React, Grown, IInv, posts, handlers, history, PostAt, Goto, HomeOf, Forget,
           TypeOK, LogInv, Over, Handled
<1>2. ASSUME NEW n \in 1..MaxEvents, LookUp(n) PROVE LogInv'
  <2>1. PICK where \in {"orphan", "done", "retract", "oppose"} : LookedUp(n, where)
    BY <1>2, LookUpCases
  <2> QED
    BY <1>0, <2>1
       DEF LookedUp, IInv, posts, handlers, history, PostAt, Goto, HomeOf, Forget, TypeOK,
           LogInv, Over, Handled
<1> USE DEF IInv, posts, handlers, history, PostAt, Goto, HomeOf, Forget, TypeOK, LogInv,
           Over, Handled
<1>3. ASSUME NEW m \in Message, Send(m) PROVE LogInv'
  BY <1>0, <1>3, LogDomain DEF Send
<1>4. ASSUME NEW m \in Message, RecordEffect(m) PROVE LogInv'
  BY <1>0, <1>4, LogDomain DEF RecordEffect
<1>5. ASSUME NEW m \in Message, Correlate(m) PROVE LogInv'
  BY <1>0, <1>5, LogDomain DEF Correlate
<1>6. ASSUME NEW m \in Message, PostFails(m) PROVE LogInv'
  BY <1>0, <1>6, LogDomain DEF PostFails
<1>7. ASSUME NEW n \in 1..MaxEvents, NEW a \in Replica, Receive(n, a) PROVE LogInv'
  BY <1>0, <1>7, LogDomain DEF Receive
<1>8. ASSUME NEW n \in 1..MaxEvents, Retract(n) PROVE LogInv'
  BY <1>0, <1>8, LogDomain DEF Retract
<1>9. ASSUME NEW n \in 1..MaxEvents, Oppose(n) PROVE LogInv'
  BY <1>0, <1>9, LogDomain DEF Oppose
<1>10. ASSUME NEW n \in 1..MaxEvents, Delete(n) PROVE LogInv'
  BY <1>0, <1>10, LogDomain DEF Delete
<1>11. ASSUME NEW n \in 1..MaxEvents, Insert(n) PROVE LogInv'
  BY <1>0, <1>11, LogDomain DEF Insert
<1>12. ASSUME NEW n \in 1..MaxEvents, Publish(n) PROVE LogInv'
  BY <1>0, <1>12, LogDomain DEF Publish
<1>13. ASSUME NEW n \in 1..MaxEvents, Fail(n) PROVE LogInv'
  BY <1>0, <1>13, LogDomain DEF Fail
<1>14. ASSUME NEW a \in Replica, Restart(a) PROVE LogInv'
  BY <1>0, <1>14, LogDomain DEF Restart
<1>15. CASE UNCHANGED vars
  BY <1>15 DEF vars
<1> QED
  BY <1>1, <1>2, <1>3, <1>4, <1>5, <1>6, <1>7, <1>8, <1>9, <1>10, <1>11, <1>12, <1>13, <1>14, <1>15
     DEF Next

\* Records are only ever dropped with the posts of their home.
LEMMA PostNext == IInv /\ [Next]_vars => PostInv'
<1> SUFFICES ASSUME IInv, [Next]_vars PROVE PostInv'
  OBVIOUS
<1>0. DOMAIN log \subseteq 1..MaxEvents
  BY LogDomain DEF IInv
<1>1. ASSUME NEW u \in User, NEW m \in Message, NEW e \in Emoji, React(u, m, e)
      PROVE  PostInv'
  <2>1. PICK x \in 1..MaxEvents : Grown(x, u, m)
    BY <1>1, ReactLog
  <2> QED
    BY <1>0, <1>1, <2>1
       DEF React, Grown, IInv, posts, handlers, history, PostAt, Goto, HomeOf, Forget,
           TypeOK, PostInv, Home
<1>2. ASSUME NEW n \in 1..MaxEvents, LookUp(n) PROVE PostInv'
  <2>1. PICK where \in {"orphan", "done", "retract", "oppose"} : LookedUp(n, where)
    BY <1>2, LookUpCases
  <2> QED
    BY <1>0, <2>1
       DEF LookedUp, IInv, posts, handlers, history, PostAt, Goto, HomeOf, Forget, TypeOK,
           PostInv, Home
<1> USE DEF IInv, posts, handlers, history, PostAt, Goto, HomeOf, Forget, TypeOK, PostInv,
           Home
<1>3. ASSUME NEW m \in Message, Send(m) PROVE PostInv'
  BY <1>0, <1>3, FeedbackAssumption DEF Send
<1>4. ASSUME NEW m \in Message, RecordEffect(m) PROVE PostInv'
  <2>1. CASE kind = "postgres"
    BY <1>0, <1>4, <2>1, FeedbackAssumption DEF RecordEffect
  <2>2. CASE kind # "postgres"
    BY <1>0, <1>4, <2>2, FeedbackAssumption DEF RecordEffect
  <2> QED
    BY <2>1, <2>2
<1>5. ASSUME NEW m \in Message, Correlate(m) PROVE PostInv'
  <2>1. CASE kind = "postgres"
    BY <1>0, <1>5, <2>1, FeedbackAssumption DEF Correlate
  <2>2. CASE kind # "postgres"
    BY <1>0, <1>5, <2>2, FeedbackAssumption DEF Correlate
  <2> QED
    BY <2>1, <2>2
<1>6. ASSUME NEW m \in Message, PostFails(m) PROVE PostInv'
  BY <1>0, <1>6, FeedbackAssumption DEF PostFails
<1>7. ASSUME NEW n \in 1..MaxEvents, NEW a \in Replica, Receive(n, a) PROVE PostInv'
  BY <1>0, <1>7, FeedbackAssumption DEF Receive
<1>8. ASSUME NEW n \in 1..MaxEvents, Retract(n) PROVE PostInv'
  BY <1>0, <1>8, FeedbackAssumption DEF Retract
<1>9. ASSUME NEW n \in 1..MaxEvents, Oppose(n) PROVE PostInv'
  BY <1>0, <1>9, FeedbackAssumption DEF Oppose
<1>10. ASSUME NEW n \in 1..MaxEvents, Delete(n) PROVE PostInv'
  BY <1>0, <1>10, FeedbackAssumption DEF Delete
<1>11. ASSUME NEW n \in 1..MaxEvents, Insert(n) PROVE PostInv'
  BY <1>0, <1>11, FeedbackAssumption DEF Insert
<1>12. ASSUME NEW n \in 1..MaxEvents, Publish(n) PROVE PostInv'
  BY <1>0, <1>12, FeedbackAssumption DEF Publish
<1>13. ASSUME NEW n \in 1..MaxEvents, Fail(n) PROVE PostInv'
  BY <1>0, <1>13, FeedbackAssumption DEF Fail
<1>14. ASSUME NEW a \in Replica, Restart(a) PROVE PostInv'
  <2>1. CASE kind = "postgres"
    BY <1>0, <1>14, <2>1, FeedbackAssumption DEF Restart
  <2>2. CASE kind # "postgres"
    <3>1. kind = "memory" /\ kind' = "memory" /\ a \in Home
      BY <1>14, <2>2, FeedbackAssumption DEF Restart, TypeOK, Home
    <3>2. /\ effects' = [effects EXCEPT ![a] = {}] /\ corr' = [corr EXCEPT ![a] = {}]
          /\ poster' = poster
      BY <1>14, <3>1 DEF Restart
    <3>3. \A m \in Message : /\ post'[m] \in {"effect", "answered"} => poster[m] # a
                             /\ post'[m] = post[m] \/ post'[m] = "lost"
      BY <1>14, <3>1 DEF Restart
    <3>4. \A m \in Message :
            /\ post'[m] = "effect" => m \in effects'[poster'[m]]
            /\ post'[m] = "answered" => m \in corr'[poster'[m]]
      BY <3>1, <3>2, <3>3
    <3>5. \A h \in Home : \A m \in corr'[h] : m \in effects'[h] /\ h = poster'[m]
      BY <3>1, <3>2
    <3> QED
      BY <3>1, <3>4, <3>5
  <2> QED
    BY <2>1, <2>2
<1>15. CASE UNCHANGED vars
  BY <1>15 DEF vars
<1> QED
  BY <1>1, <1>2, <1>3, <1>4, <1>5, <1>6, <1>7, <1>8, <1>9, <1>10, <1>11, <1>12, <1>13, <1>14, <1>15
     DEF Next

\* Nobody gets past the look-up but through it.
LEMMA HandlerNext == IInv /\ [Next]_vars => HandlerInv'
<1> SUFFICES ASSUME IInv, [Next]_vars PROVE HandlerInv'
  OBVIOUS
<1>0. DOMAIN log \subseteq 1..MaxEvents
  BY LogDomain DEF IInv
<1>1. ASSUME NEW u \in User, NEW m \in Message, NEW e \in Emoji, React(u, m, e)
      PROVE  HandlerInv'
  <2>1. PICK x \in 1..MaxEvents : Grown(x, u, m)
    BY <1>1, ReactLog
  <2> QED
    BY <1>0, <1>1, <2>1
       DEF React, Grown, IInv, posts, handlers, history, PostAt, Goto, HomeOf, Forget,
           TypeOK, LogInv, HandlerInv, Working, Over, Handled, LabelFor, Opposing
<1>2. ASSUME NEW n \in 1..MaxEvents, LookUp(n) PROVE HandlerInv'
  <2>1. PICK where \in {"orphan", "done", "retract", "oppose"} : LookedUp(n, where)
    BY <1>2, LookUpCases
  <2> QED
    BY <1>0, <2>1
       DEF LookedUp, IInv, posts, handlers, history, PostAt, Goto, HomeOf, Forget, TypeOK,
           LogInv, HandlerInv, Working, Over, Handled, LabelFor, Opposing
<1> USE DEF IInv, posts, handlers, history, PostAt, Goto, HomeOf, Forget, TypeOK, LogInv,
           HandlerInv, Working, Over, Handled, LabelFor, Opposing
<1>3. ASSUME NEW m \in Message, Send(m) PROVE HandlerInv'
  BY <1>0, <1>3, FeedbackAssumption DEF Send
<1>4. ASSUME NEW m \in Message, RecordEffect(m) PROVE HandlerInv'
  BY <1>0, <1>4, FeedbackAssumption DEF RecordEffect
<1>5. ASSUME NEW m \in Message, Correlate(m) PROVE HandlerInv'
  BY <1>0, <1>5, FeedbackAssumption DEF Correlate
<1>6. ASSUME NEW m \in Message, PostFails(m) PROVE HandlerInv'
  BY <1>0, <1>6, FeedbackAssumption DEF PostFails
<1>7. ASSUME NEW n \in 1..MaxEvents, NEW a \in Replica, Receive(n, a) PROVE HandlerInv'
  BY <1>0, <1>7, FeedbackAssumption DEF Receive
<1>8. ASSUME NEW n \in 1..MaxEvents, Retract(n) PROVE HandlerInv'
  BY <1>0, <1>8, FeedbackAssumption DEF Retract
<1>9. ASSUME NEW n \in 1..MaxEvents, Oppose(n) PROVE HandlerInv'
  BY <1>0, <1>9, FeedbackAssumption DEF Oppose
<1>10. ASSUME NEW n \in 1..MaxEvents, Delete(n) PROVE HandlerInv'
  BY <1>0, <1>10, FeedbackAssumption DEF Delete
<1>11. ASSUME NEW n \in 1..MaxEvents, Insert(n) PROVE HandlerInv'
  BY <1>0, <1>11, FeedbackAssumption DEF Insert
<1>12. ASSUME NEW n \in 1..MaxEvents, Publish(n) PROVE HandlerInv'
  BY <1>0, <1>12, FeedbackAssumption DEF Publish
<1>13. ASSUME NEW n \in 1..MaxEvents, Fail(n) PROVE HandlerInv'
  BY <1>0, <1>13, FeedbackAssumption DEF Fail
<1>14. ASSUME NEW a \in Replica, Restart(a) PROVE HandlerInv'
  <2>1. CASE kind = "postgres"
    BY <1>0, <1>14, <2>1, FeedbackAssumption DEF Restart
  <2>2. CASE kind # "postgres"
    <3>1. kind = "memory" /\ kind' = "memory" /\ a \in Home
      BY <1>14, <2>2, FeedbackAssumption DEF Restart, TypeOK, Home
    <3>2. corr' = [corr EXCEPT ![a] = {}] /\ at' = at /\ log' = log /\ todo' = todo
      BY <1>14, <3>1 DEF Restart
    <3>3. \A n \in DOMAIN log : pc'[n] \in Working => pc'[n] = pc[n] /\ at[n] # a
      BY <1>0, <1>14 DEF Restart
    <3> QED
      BY <1>0, <3>1, <3>2, <3>3
  <2> QED
    BY <2>1, <2>2
<1>15. CASE UNCHANGED vars
  BY <1>15 DEF vars
<1> QED
  BY <1>1, <1>2, <1>3, <1>4, <1>5, <1>6, <1>7, <1>8, <1>9, <1>10, <1>11, <1>12, <1>13, <1>14, <1>15
     DEF Next

\* Feedback is only stored by handlers past the look-up.
LEMMA StoredNext == IInv /\ [Next]_vars => StoredInv'
<1> SUFFICES ASSUME IInv, [Next]_vars PROVE StoredInv'
  OBVIOUS
<1>0. DOMAIN log \subseteq 1..MaxEvents
  BY LogDomain DEF IInv
<1>1. ASSUME NEW u \in User, NEW m \in Message, NEW e \in Emoji, React(u, m, e)
      PROVE  StoredInv'
  <2>1. PICK x \in 1..MaxEvents : Grown(x, u, m)
    BY <1>1, ReactLog
  <2> QED
    BY <1>0, <1>1, <2>1
       DEF React, Grown, IInv, posts, handlers, history, PostAt, Goto, HomeOf, Forget,
           TypeOK, LogInv, HandlerInv, StoredInv, Working, KeyOf, Home
<1>2. ASSUME NEW n \in 1..MaxEvents, LookUp(n) PROVE StoredInv'
  <2>1. PICK where \in {"orphan", "done", "retract", "oppose"} : LookedUp(n, where)
    BY <1>2, LookUpCases
  <2> QED
    BY <1>0, <2>1
       DEF LookedUp, IInv, posts, handlers, history, PostAt, Goto, HomeOf, Forget, TypeOK,
           LogInv, HandlerInv, StoredInv, Working, KeyOf, Home
<1> USE DEF IInv, posts, handlers, history, PostAt, Goto, HomeOf, Forget, TypeOK, LogInv,
           HandlerInv, StoredInv, Working, KeyOf, Home
<1>3. ASSUME NEW m \in Message, Send(m) PROVE StoredInv'
  BY <1>0, <1>3, FeedbackAssumption DEF Send
<1>4. ASSUME NEW m \in Message, RecordEffect(m) PROVE StoredInv'
  BY <1>0, <1>4, FeedbackAssumption DEF RecordEffect
<1>5. ASSUME NEW m \in Message, Correlate(m) PROVE StoredInv'
  BY <1>0, <1>5, FeedbackAssumption DEF Correlate
<1>6. ASSUME NEW m \in Message, PostFails(m) PROVE StoredInv'
  BY <1>0, <1>6, FeedbackAssumption DEF PostFails
<1>7. ASSUME NEW n \in 1..MaxEvents, NEW a \in Replica, Receive(n, a) PROVE StoredInv'
  BY <1>0, <1>7, FeedbackAssumption DEF Receive
<1>8. ASSUME NEW n \in 1..MaxEvents, Retract(n) PROVE StoredInv'
  BY <1>0, <1>8, FeedbackAssumption DEF Retract
<1>9. ASSUME NEW n \in 1..MaxEvents, Oppose(n) PROVE StoredInv'
  BY <1>0, <1>9, FeedbackAssumption DEF Oppose
<1>10. ASSUME NEW n \in 1..MaxEvents, Delete(n) PROVE StoredInv'
  BY <1>0, <1>10, FeedbackAssumption DEF Delete
<1>11. ASSUME NEW n \in 1..MaxEvents, Insert(n) PROVE StoredInv'
  <2>1. CASE kind = "postgres"
    BY <1>0, <1>11, <2>1, FeedbackAssumption DEF Insert
  <2>2. CASE kind # "postgres"
    BY <1>0, <1>11, <2>2, FeedbackAssumption DEF Insert
  <2> QED
    BY <2>1, <2>2
<1>12. ASSUME NEW n \in 1..MaxEvents, Publish(n) PROVE StoredInv'
  BY <1>0, <1>12, FeedbackAssumption DEF Publish
<1>13. ASSUME NEW n \in 1..MaxEvents, Fail(n) PROVE StoredInv'
  BY <1>0, <1>13, FeedbackAssumption DEF Fail
<1>14. ASSUME NEW a \in Replica, Restart(a) PROVE StoredInv'
  BY <1>0, <1>14, FeedbackAssumption DEF Restart
<1>15. CASE UNCHANGED vars
  BY <1>15 DEF vars
<1> QED
  BY <1>1, <1>2, <1>3, <1>4, <1>5, <1>6, <1>7, <1>8, <1>9, <1>10, <1>11, <1>12, <1>13, <1>14, <1>15
     DEF Next

\* What a look-up can rely on stays there while its replica is up.
LEMMA ExpectedNext == IInv /\ [Next]_vars => ExpectedInv'
<1> SUFFICES ASSUME IInv, [Next]_vars PROVE ExpectedInv'
  OBVIOUS
<1>0. DOMAIN log \subseteq 1..MaxEvents
  BY LogDomain DEF IInv
<1>1. ASSUME NEW u \in User, NEW m \in Message, NEW e \in Emoji, React(u, m, e)
      PROVE  ExpectedInv'
  <2>1. PICK x \in 1..MaxEvents : Grown(x, u, m)
    BY <1>1, ReactLog
  <2> QED
    BY <1>0, <1>1, <2>1
       DEF React, Grown, IInv, posts, handlers, history, PostAt, Goto, HomeOf, Forget,
           TypeOK, LogInv, PostInv, ExpectedInv, Over, Handled
<1>2. ASSUME NEW n \in 1..MaxEvents, LookUp(n) PROVE ExpectedInv'
  <2>1. PICK where \in {"orphan", "done", "retract", "oppose"} : LookedUp(n, where)
    BY <1>2, LookUpCases
  <2> QED
    BY <1>0, <2>1
       DEF LookedUp, IInv, posts, handlers, history, PostAt, Goto, HomeOf, Forget, TypeOK,
           LogInv, PostInv, ExpectedInv, Over, Handled
<1> USE DEF IInv, posts, handlers, history, PostAt, Goto, HomeOf, Forget, TypeOK, LogInv,
           PostInv, ExpectedInv, Over, Handled
<1>3. ASSUME NEW m \in Message, Send(m) PROVE ExpectedInv'
  BY <1>0, <1>3, FeedbackAssumption DEF Send
<1>4. ASSUME NEW m \in Message, RecordEffect(m) PROVE ExpectedInv'
  BY <1>0, <1>4, FeedbackAssumption DEF RecordEffect
<1>5. ASSUME NEW m \in Message, Correlate(m) PROVE ExpectedInv'
  BY <1>0, <1>5, FeedbackAssumption DEF Correlate
<1>6. ASSUME NEW m \in Message, PostFails(m) PROVE ExpectedInv'
  BY <1>0, <1>6, FeedbackAssumption DEF PostFails
<1>7. ASSUME NEW n \in 1..MaxEvents, NEW a \in Replica, Receive(n, a) PROVE ExpectedInv'
  <2> DEFINE m == log[n].message
             known == post[m] = "answered" /\ HomeOf(poster[m]) = HomeOf(a)
  <2>1. /\ n \in DOMAIN log /\ pc' = [pc EXCEPT ![n] = "lookup"] /\ at' = [at EXCEPT ![n] = a]
        /\ expected' = IF known THEN expected \cup {n} ELSE expected \ {n}
        /\ log' = log /\ corr' = corr /\ kind' = kind
    BY <1>7 DEF Receive
  <2>2. m \in Message
    BY <2>1, LogDomain
  <2>3. known => m \in corr[HomeOf(a)]
    BY <2>2
  <2> HIDE DEF known
  <2> QED
    BY <1>0, <2>1, <2>3
<1>8. ASSUME NEW n \in 1..MaxEvents, Retract(n) PROVE ExpectedInv'
  BY <1>0, <1>8, FeedbackAssumption DEF Retract
<1>9. ASSUME NEW n \in 1..MaxEvents, Oppose(n) PROVE ExpectedInv'
  BY <1>0, <1>9, FeedbackAssumption DEF Oppose
<1>10. ASSUME NEW n \in 1..MaxEvents, Delete(n) PROVE ExpectedInv'
  BY <1>0, <1>10, FeedbackAssumption DEF Delete
<1>11. ASSUME NEW n \in 1..MaxEvents, Insert(n) PROVE ExpectedInv'
  BY <1>0, <1>11, FeedbackAssumption DEF Insert
<1>12. ASSUME NEW n \in 1..MaxEvents, Publish(n) PROVE ExpectedInv'
  BY <1>0, <1>12, FeedbackAssumption DEF Publish
<1>13. ASSUME NEW n \in 1..MaxEvents, Fail(n) PROVE ExpectedInv'
  BY <1>0, <1>13, FeedbackAssumption DEF Fail
<1>14. ASSUME NEW a \in Replica, Restart(a) PROVE ExpectedInv'
  <2>1. CASE kind = "postgres"
    BY <1>0, <1>14, <2>1, FeedbackAssumption DEF Restart
  <2>2. CASE kind # "postgres"
    <3>1. kind = "memory" /\ kind' = "memory" /\ a \in Home
      BY <1>14, <2>2, FeedbackAssumption DEF Restart, TypeOK, Home
    <3>2. corr' = [corr EXCEPT ![a] = {}] /\ at' = at /\ log' = log
      BY <1>14, <3>1 DEF Restart
    <3>3. \A n \in expected' :
            /\ n \in expected /\ n \in DOMAIN log
            /\ pc'[n] = pc[n] /\ (pc[n] = "lookup" => at[n] # a)
      BY <1>0, <1>14 DEF Restart
    <3> QED
      BY <1>0, <3>1, <3>2, <3>3
  <2> QED
    BY <2>1, <2>2
<1>15. CASE UNCHANGED vars
  BY <1>15 DEF vars
<1> QED
  BY <1>1, <1>2, <1>3, <1>4, <1>5, <1>6, <1>7, <1>8, <1>9, <1>10, <1>11, <1>12, <1>13, <1>14, <1>15
     DEF Next

\* Who joins another handler is noted.
LEMMA RaceNext == IInv /\ [Next]_vars => RaceInv'
<1> SUFFICES ASSUME IInv, [Next]_vars PROVE RaceInv'
  OBVIOUS
<1>0. DOMAIN log \subseteq 1..MaxEvents
  BY LogDomain DEF IInv
<1>1. ASSUME NEW u \in User, NEW m \in Message, NEW e \in Emoji, React(u, m, e)
      PROVE  RaceInv'
  <2>1. PICK x \in 1..MaxEvents : Grown(x, u, m)
    BY <1>1, ReactLog
  <2>2. /\ DOMAIN log' = DOMAIN log \cup {x} /\ raced' = raced
        /\ \A n \in DOMAIN log : log'[n] = log[n] /\ pc'[n] = pc[n]
        /\ pc' = [pc EXCEPT ![x] = "waiting"]
    BY <1>1, <2>1 DEF React, Grown, history
  <2>3. \A n \in Handled' : n \in Handled /\ log'[n] = log[n]
    BY <2>2 DEF Handled, Over, IInv, TypeOK
  <2> QED
    BY <2>2, <2>3 DEF IInv, RaceInv, Whose
<1>2. ASSUME NEW n \in 1..MaxEvents, LookUp(n) PROVE RaceInv'
  <2>1. PICK where \in {"orphan", "done", "retract", "oppose"} : LookedUp(n, where)
    BY <1>2, LookUpCases
  <2>2. Handled' \subseteq Handled /\ log' = log /\ raced' = raced
    BY <1>0, <2>1 DEF LookedUp, Handled, Over, IInv, TypeOK, history
  <2> QED
    BY <2>2 DEF IInv, RaceInv, Whose
<1> USE DEF IInv, posts, handlers, history, PostAt, Goto, HomeOf, Forget, RaceInv, Whose
<1>3. ASSUME NEW m \in Message, Send(m) PROVE RaceInv'
  <2>1. Handled' \subseteq Handled /\ log' = log /\ raced' = raced
    BY <1>0, <1>3 DEF Send, Handled, Over, TypeOK
  <2> QED
    BY <2>1
<1>4. ASSUME NEW m \in Message, RecordEffect(m) PROVE RaceInv'
  <2>1. Handled' \subseteq Handled /\ log' = log /\ raced' = raced
    BY <1>0, <1>4 DEF RecordEffect, Handled, Over, TypeOK
  <2> QED
    BY <2>1
<1>5. ASSUME NEW m \in Message, Correlate(m) PROVE RaceInv'
  <2>1. Handled' \subseteq Handled /\ log' = log /\ raced' = raced
    BY <1>0, <1>5 DEF Correlate, Handled, Over, TypeOK
  <2> QED
    BY <2>1
<1>6. ASSUME NEW m \in Message, PostFails(m) PROVE RaceInv'
  <2>1. Handled' \subseteq Handled /\ log' = log /\ raced' = raced
    BY <1>0, <1>6 DEF PostFails, Handled, Over, TypeOK
  <2> QED
    BY <2>1
<1>7. ASSUME NEW n \in 1..MaxEvents, NEW a \in Replica, Receive(n, a) PROVE RaceInv'
  <2>1. /\ n \in DOMAIN log /\ log' = log
        /\ raced' = raced \cup {Whose(k) : k \in {k \in Handled : Whose(k) = Whose(n)}}
        /\ pc' = [pc EXCEPT ![n] = "lookup"]
    BY <1>7 DEF Receive
  <2>2. \A k \in Handled' : k \in Handled \/ k = n
    BY <1>0, <2>1 DEF Handled, Over, TypeOK
  <2>3. \A k \in Handled : Whose(k) = Whose(n) => Whose(n) \in raced'
    BY <2>1
  <2> QED
    BY <2>1, <2>2, <2>3
<1>8. ASSUME NEW n \in 1..MaxEvents, Retract(n) PROVE RaceInv'
  <2>1. Handled' \subseteq Handled /\ log' = log /\ raced' = raced
    BY <1>0, <1>8 DEF Retract, Handled, Over, TypeOK
  <2> QED
    BY <2>1
<1>9. ASSUME NEW n \in 1..MaxEvents, Oppose(n) PROVE RaceInv'
  <2>1. Handled' \subseteq Handled /\ log' = log /\ raced' = raced
    BY <1>0, <1>9 DEF Oppose, Handled, Over, TypeOK
  <2> QED
    BY <2>1
<1>10. ASSUME NEW n \in 1..MaxEvents, Delete(n) PROVE RaceInv'
  <2>1. Handled' \subseteq Handled /\ log' = log /\ raced' = raced
    BY <1>0, <1>10 DEF Delete, Handled, Over, TypeOK
  <2> QED
    BY <2>1
<1>11. ASSUME NEW n \in 1..MaxEvents, Insert(n) PROVE RaceInv'
  <2>1. Handled' \subseteq Handled /\ log' = log /\ raced' = raced
    BY <1>0, <1>11 DEF Insert, Handled, Over, TypeOK
  <2> QED
    BY <2>1
<1>12. ASSUME NEW n \in 1..MaxEvents, Publish(n) PROVE RaceInv'
  <2>1. Handled' \subseteq Handled /\ log' = log /\ raced' = raced
    BY <1>0, <1>12 DEF Publish, Handled, Over, TypeOK
  <2> QED
    BY <2>1
<1>13. ASSUME NEW n \in 1..MaxEvents, Fail(n) PROVE RaceInv'
  <2>1. Handled' \subseteq Handled /\ log' = log /\ raced' = raced
    BY <1>0, <1>13 DEF Fail, Handled, Over, TypeOK
  <2> QED
    BY <2>1
<1>14. ASSUME NEW a \in Replica, Restart(a) PROVE RaceInv'
  <2>1. Handled' \subseteq Handled /\ log' = log /\ raced' = raced
    BY <1>0, <1>14 DEF Restart, Handled, Over, TypeOK
  <2> QED
    BY <2>1
<1>15. CASE UNCHANGED vars
  BY <1>15 DEF vars, Handled, Over
<1> QED
  BY <1>1, <1>2, <1>3, <1>4, <1>5, <1>6, <1>7, <1>8, <1>9, <1>10, <1>11, <1>12, <1>13, <1>14, <1>15
     DEF Next

\* Only an insertion could bring the other side in.
LEMMA SideNext == IInv /\ [Next]_vars => SideInv'
<1> SUFFICES ASSUME IInv, [Next]_vars PROVE SideInv'
  OBVIOUS
<1>0. DOMAIN log \subseteq 1..MaxEvents
  BY LogDomain DEF IInv
<1>1. ASSUME NEW u \in User, NEW m \in Message, NEW e \in Emoji, React(u, m, e)
      PROVE  SideInv'
  <2>1. PICK x \in 1..MaxEvents : Grown(x, u, m)
    BY <1>1, ReactLog
  <2>2. /\ \A h \in Home : stored'[h] \subseteq stored[h]
        /\ raced \subseteq raced'
    BY <1>0, <1>1 DEF React, handlers, history, IInv, TypeOK
  <2> QED
    BY <2>2 DEF IInv, SideInv
<1>2. ASSUME NEW n \in 1..MaxEvents, LookUp(n) PROVE SideInv'
  <2>1. PICK where \in {"orphan", "done", "retract", "oppose"} : LookedUp(n, where)
    BY <1>2, LookUpCases
  <2>2. /\ \A h \in Home : stored'[h] \subseteq stored[h]
        /\ raced \subseteq raced'
    BY <1>0, <2>1 DEF LookedUp, history, IInv, TypeOK
  <2> QED
    BY <2>2 DEF IInv, SideInv
<1> USE DEF IInv, posts, handlers, history, PostAt, Goto, Forget, SideInv
<1>3. ASSUME NEW m \in Message, Send(m) PROVE SideInv'
  <2>1. /\ \A h \in Home : stored'[h] \subseteq stored[h]
        /\ raced \subseteq raced'
    BY <1>0, <1>3 DEF Send, TypeOK
  <2> QED
    BY <2>1
<1>4. ASSUME NEW m \in Message, RecordEffect(m) PROVE SideInv'
  <2>1. /\ \A h \in Home : stored'[h] \subseteq stored[h]
        /\ raced \subseteq raced'
    BY <1>0, <1>4 DEF RecordEffect, TypeOK
  <2> QED
    BY <2>1
<1>5. ASSUME NEW m \in Message, Correlate(m) PROVE SideInv'
  <2>1. /\ \A h \in Home : stored'[h] \subseteq stored[h]
        /\ raced \subseteq raced'
    BY <1>0, <1>5 DEF Correlate, TypeOK
  <2> QED
    BY <2>1
<1>6. ASSUME NEW m \in Message, PostFails(m) PROVE SideInv'
  <2>1. /\ \A h \in Home : stored'[h] \subseteq stored[h]
        /\ raced \subseteq raced'
    BY <1>0, <1>6 DEF PostFails, TypeOK
  <2> QED
    BY <2>1
<1>7. ASSUME NEW n \in 1..MaxEvents, NEW a \in Replica, Receive(n, a) PROVE SideInv'
  <2>1. /\ \A h \in Home : stored'[h] \subseteq stored[h]
        /\ raced \subseteq raced'
    BY <1>0, <1>7 DEF Receive, TypeOK
  <2> QED
    BY <2>1
<1>8. ASSUME NEW n \in 1..MaxEvents, Retract(n) PROVE SideInv'
  <2>1. /\ \A h \in Home : stored'[h] \subseteq stored[h]
        /\ raced \subseteq raced'
    BY <1>0, <1>8 DEF Retract, TypeOK
  <2> QED
    BY <2>1
<1>9. ASSUME NEW n \in 1..MaxEvents, Oppose(n) PROVE SideInv'
  <2>1. /\ \A h \in Home : stored'[h] \subseteq stored[h]
        /\ raced \subseteq raced'
    BY <1>0, <1>9 DEF Oppose, TypeOK
  <2> QED
    BY <2>1
<1>10. ASSUME NEW n \in 1..MaxEvents, Delete(n) PROVE SideInv'
  <2>1. /\ \A h \in Home : stored'[h] \subseteq stored[h]
        /\ raced \subseteq raced'
    BY <1>0, <1>10 DEF Delete, TypeOK
  <2> QED
    BY <2>1
<1>11. ASSUME NEW n \in 1..MaxEvents, Insert(n) PROVE SideInv'
  <2> DEFINE lab == LabelFor(n)
             here == HomeOf(at[n])
  <2>1. n \in DOMAIN log /\ lab \in Label
    BY <1>11 DEF Insert, LogInv, HandlerInv, Working
  <2>2. Whose(n) \notin raced => \A l \in Opposing(lab) : KeyOf(n, l) \notin stored[here]
    BY <1>11, <2>1 DEF Insert, OpposeInv
  <2>3. \A k \in Label, l \in Label : k \in Opposing(l) <=> l \in Opposing(k)
    BY OppositionIsMutual
  <2>4. lab \notin Opposing(lab)
    BY <2>1, OppositionIsMutual
  <2>5. /\ stored' = [stored EXCEPT ![here] = @ \cup {KeyOf(n, lab)}]
        /\ raced' = raced
    BY <1>11 DEF Insert
  <2> HIDE DEF lab, here
  <2> SUFFICES ASSUME NEW h \in Home, NEW u \in User, NEW m \in Message,
                      <<u, m>> \notin raced, NEW k \in Label, NEW l \in Label,
                      <<u, m, k>> \in stored'[h], <<u, m, l>> \in stored'[h]
               PROVE  k \notin Opposing(l)
    BY <2>5
  <2>6. \A j \in Label : <<u, m, j>> \in stored'[h] =>
          \/ <<u, m, j>> \in stored[h]
          \/ <<u, m, j>> = KeyOf(n, lab) /\ h = here
    BY <2>5 DEF TypeOK
  <2>7. \A j \in Label : <<u, m, j>> = KeyOf(n, lab) =>
          j = lab /\ <<u, m>> = Whose(n) /\ \A i \in Label : KeyOf(n, i) = <<u, m, i>>
    BY DEF KeyOf, Whose
  <2>8. CASE <<u, m, k>> \in stored[h] /\ <<u, m, l>> \in stored[h]
    BY <2>8
  <2>9. CASE <<u, m, k>> = KeyOf(n, lab) /\ h = here /\ <<u, m, l>> \in stored[h]
    BY <2>1, <2>2, <2>3, <2>7, <2>9
  <2>10. CASE <<u, m, l>> = KeyOf(n, lab) /\ h = here /\ <<u, m, k>> \in stored[h]
    BY <2>1, <2>2, <2>3, <2>7, <2>10
  <2>11. CASE <<u, m, k>> = KeyOf(n, lab) /\ <<u, m, l>> = KeyOf(n, lab)
    BY <2>4, <2>7, <2>11
  <2> QED
    BY <2>6, <2>8, <2>9, <2>10, <2>11
<1>12. ASSUME NEW n \in 1..MaxEvents, Publish(n) PROVE SideInv'
  <2>1. /\ \A h \in Home : stored'[h] \subseteq stored[h]
        /\ raced \subseteq raced'
    BY <1>0, <1>12 DEF Publish, TypeOK
  <2> QED
    BY <2>1
<1>13. ASSUME NEW n \in 1..MaxEvents, Fail(n) PROVE SideInv'
  <2>1. /\ \A h \in Home : stored'[h] \subseteq stored[h]
        /\ raced \subseteq raced'
    BY <1>0, <1>13 DEF Fail, TypeOK
  <2> QED
    BY <2>1
<1>14. ASSUME NEW a \in Replica, Restart(a) PROVE SideInv'
  <2>1. /\ \A h \in Home : stored'[h] \subseteq stored[h]
        /\ raced \subseteq raced'
    BY <1>0, <1>14 DEF Restart, TypeOK
  <2> QED
    BY <2>1
<1>15. CASE UNCHANGED vars
  BY <1>15 DEF vars
<1> QED
  BY <1>1, <1>2, <1>3, <1>4, <1>5, <1>6, <1>7, <1>8, <1>9, <1>10, <1>11, <1>12, <1>13, <1>14, <1>15
     DEF Next

\* What opposes the label to be recorded stays away once it is retracted.
LEMMA OpposeNext == IInv /\ [Next]_vars => OpposeInv'
<1> SUFFICES ASSUME IInv, [Next]_vars PROVE OpposeInv'
  OBVIOUS
<1>0. DOMAIN log \subseteq 1..MaxEvents
  BY LogDomain DEF IInv
<1>1. ASSUME NEW u \in User, NEW m \in Message, NEW e \in Emoji, React(u, m, e)
      PROVE  OpposeInv'
  <2>1. PICK x \in 1..MaxEvents : Grown(x, u, m)
    BY <1>1, ReactLog
  <2>2. /\ DOMAIN log' = DOMAIN log \cup {x} /\ raced' = raced /\ at' = at /\ todo' = todo
        /\ stored' = stored /\ kind' = kind /\ pc'[x] = "waiting"
        /\ \A n \in DOMAIN log : log'[n] = log[n] /\ pc'[n] = pc[n]
    BY <1>1, <2>1 DEF React, Grown, history, IInv, TypeOK
  <2> QED
    BY <2>2 DEF IInv, OpposeInv, Whose, KeyOf, LabelFor, HomeOf
<1>2. ASSUME NEW n \in 1..MaxEvents, LookUp(n) PROVE OpposeInv'
  <2>1. PICK where \in {"orphan", "done", "retract", "oppose"} : LookedUp(n, where)
    BY <1>2, LookUpCases
  <2>2. /\ log' = log /\ raced' = raced /\ at' = at /\ stored' = stored /\ kind' = kind
        /\ pc' = [pc EXCEPT ![n] = where] /\ where # "insert"
        /\ where = "oppose" => todo'[n] = Opposing(LabelFor(n))
        /\ \A k \in DOMAIN log : k # n => pc'[k] = pc[k] /\ todo'[k] = todo[k]
        /\ pc'[n] = where
    BY <1>0, <2>1 DEF LookedUp, IInv, TypeOK, history
  <2> QED
    BY <2>2 DEF IInv, OpposeInv, Whose, KeyOf, LabelFor, HomeOf
<1> USE DEF IInv, posts, handlers, history, PostAt, Goto, Forget, OpposeInv
<1>3. ASSUME NEW m \in Message, Send(m) PROVE OpposeInv'
  <2>1. /\ log' = log /\ raced \subseteq raced'
        /\ \A h \in Home : stored'[h] \subseteq stored[h]
        /\ \A k \in DOMAIN log : pc'[k] \in {"oppose", "insert"} =>
             pc'[k] = pc[k] /\ at'[k] = at[k] /\ todo'[k] = todo[k] /\ at[k] \in Replica
        /\ kind' = kind
    BY <1>0, <1>3 DEF Send, TypeOK
  <2> QED
    BY <2>1 DEF Whose, KeyOf, LabelFor, HomeOf, Home
<1>4. ASSUME NEW m \in Message, RecordEffect(m) PROVE OpposeInv'
  <2>1. /\ log' = log /\ raced \subseteq raced'
        /\ \A h \in Home : stored'[h] \subseteq stored[h]
        /\ \A k \in DOMAIN log : pc'[k] \in {"oppose", "insert"} =>
             pc'[k] = pc[k] /\ at'[k] = at[k] /\ todo'[k] = todo[k] /\ at[k] \in Replica
        /\ kind' = kind
    BY <1>0, <1>4 DEF RecordEffect, TypeOK
  <2> QED
    BY <2>1 DEF Whose, KeyOf, LabelFor, HomeOf, Home
<1>5. ASSUME NEW m \in Message, Correlate(m) PROVE OpposeInv'
  <2>1. /\ log' = log /\ raced \subseteq raced'
        /\ \A h \in Home : stored'[h] \subseteq stored[h]
        /\ \A k \in DOMAIN log : pc'[k] \in {"oppose", "insert"} =>
             pc'[k] = pc[k] /\ at'[k] = at[k] /\ todo'[k] = todo[k] /\ at[k] \in Replica
        /\ kind' = kind
    BY <1>0, <1>5 DEF Correlate, TypeOK
  <2> QED
    BY <2>1 DEF Whose, KeyOf, LabelFor, HomeOf, Home
<1>6. ASSUME NEW m \in Message, PostFails(m) PROVE OpposeInv'
  <2>1. /\ log' = log /\ raced \subseteq raced'
        /\ \A h \in Home : stored'[h] \subseteq stored[h]
        /\ \A k \in DOMAIN log : pc'[k] \in {"oppose", "insert"} =>
             pc'[k] = pc[k] /\ at'[k] = at[k] /\ todo'[k] = todo[k] /\ at[k] \in Replica
        /\ kind' = kind
    BY <1>0, <1>6 DEF PostFails, TypeOK
  <2> QED
    BY <2>1 DEF Whose, KeyOf, LabelFor, HomeOf, Home
<1>7. ASSUME NEW n \in 1..MaxEvents, NEW a \in Replica, Receive(n, a) PROVE OpposeInv'
  <2>1. /\ log' = log /\ raced \subseteq raced'
        /\ \A h \in Home : stored'[h] \subseteq stored[h]
        /\ \A k \in DOMAIN log : pc'[k] \in {"oppose", "insert"} =>
             pc'[k] = pc[k] /\ at'[k] = at[k] /\ todo'[k] = todo[k] /\ at[k] \in Replica
        /\ kind' = kind
    BY <1>0, <1>7 DEF Receive, TypeOK
  <2> QED
    BY <2>1 DEF Whose, KeyOf, LabelFor, HomeOf, Home
<1>8. ASSUME NEW n \in 1..MaxEvents, Retract(n) PROVE OpposeInv'
  <2>1. /\ log' = log /\ raced \subseteq raced'
        /\ \A h \in Home : stored'[h] \subseteq stored[h]
        /\ \A k \in DOMAIN log : pc'[k] \in {"oppose", "insert"} =>
             pc'[k] = pc[k] /\ at'[k] = at[k] /\ todo'[k] = todo[k] /\ at[k] \in Replica
        /\ kind' = kind
    BY <1>0, <1>8 DEF Retract, TypeOK
  <2> QED
    BY <2>1 DEF Whose, KeyOf, LabelFor, HomeOf, Home
<1>9. ASSUME NEW n \in 1..MaxEvents, Oppose(n) PROVE OpposeInv'
  <2>1. PICK d \in todo[n] : /\ stored' = [stored EXCEPT ![HomeOf(at[n])] = @ \ {KeyOf(n, d)}]
                             /\ todo' = [todo EXCEPT ![n] = @ \ {d}]
    BY <1>9 DEF Oppose
  <2>2. /\ log' = log /\ raced' = raced /\ at' = at /\ kind' = kind /\ pc' = pc
    BY <1>9 DEF Oppose
  <2>3. /\ \A k \in DOMAIN log : HomeOf(at[k]) \in Home
        /\ \A h \in Home : stored'[h] \subseteq stored[h]
        /\ KeyOf(n, d) \notin stored'[HomeOf(at[n])]
        /\ \A k \in DOMAIN log : k # n => todo'[k] = todo[k]
        /\ \A l : l \in todo[n] /\ l # d => l \in todo'[n]
    BY <1>0, <2>1 DEF TypeOK, HomeOf, Home
  <2> SUFFICES ASSUME NEW k \in DOMAIN log, Whose(k) \notin raced,
                      NEW l \in Opposing(LabelFor(k))
               PROVE  /\ pc[k] = "oppose" /\ KeyOf(k, l) \in stored'[HomeOf(at[k])] => l \in todo'[k]
                      /\ pc[k] = "insert" => KeyOf(k, l) \notin stored'[HomeOf(at[k])]
    BY <2>2 DEF KeyOf, HomeOf, Whose, LabelFor
  <2> QED
    BY <2>3
<1>10. ASSUME NEW n \in 1..MaxEvents, Delete(n) PROVE OpposeInv'
  <2>1. /\ log' = log /\ raced' = raced /\ at' = at /\ todo' = todo /\ kind' = kind
        /\ pc[n] = "oppose" /\ todo[n] = {} /\ pc' = [pc EXCEPT ![n] = "insert"]
        /\ stored' = [stored EXCEPT ![HomeOf(at[n])] = @ \ {KeyOf(n, LabelFor(n))}]
    BY <1>10 DEF Delete
  <2>2. /\ \A k \in DOMAIN log : HomeOf(at[k]) \in Home
        /\ \A h \in Home : stored'[h] \subseteq stored[h]
        /\ \A k \in DOMAIN log : k # n => pc'[k] = pc[k]
        /\ pc'[n] = "insert"
    BY <1>0, <2>1 DEF TypeOK, HomeOf, Home
  <2> SUFFICES ASSUME NEW k \in DOMAIN log, Whose(k) \notin raced,
                      NEW l \in Opposing(LabelFor(k))
               PROVE  /\ pc'[k] = "oppose" /\ KeyOf(k, l) \in stored'[HomeOf(at[k])] => l \in todo[k]
                      /\ pc'[k] = "insert" => KeyOf(k, l) \notin stored'[HomeOf(at[k])]
    BY <2>1 DEF KeyOf, HomeOf, Whose, LabelFor
  <2> QED
    BY <2>1, <2>2
<1>11. ASSUME NEW n \in 1..MaxEvents, Insert(n) PROVE OpposeInv'
  <2>1. /\ log' = log /\ raced' = raced /\ at' = at /\ todo' = todo /\ kind' = kind
        /\ stored' = [stored EXCEPT ![HomeOf(at[n])] = @ \cup {KeyOf(n, LabelFor(n))}]
        /\ n \in DOMAIN log /\ n \in Handled
    BY <1>11 DEF Insert, LogInv, Over, Handled
  <2>2. \A k \in DOMAIN log : pc'[k] \in {"oppose", "insert"} =>
          k # n /\ pc'[k] = pc[k] /\ k \in Handled
    BY <1>0, <1>11 DEF Insert, TypeOK, Over, Handled
  <2>3. \A k \in DOMAIN log : pc'[k] \in {"oppose", "insert"} /\ Whose(k) \notin raced =>
          Whose(k) # Whose(n)
    BY <2>1, <2>2 DEF RaceInv
  <2>4. \A k \in DOMAIN log : \A l \in Label :
          /\ HomeOf(at[k]) \in Home
          /\ Whose(k) # Whose(n) /\ KeyOf(k, l) \in stored'[HomeOf(at[k])] =>
                KeyOf(k, l) \in stored[HomeOf(at[k])]
    BY <1>0, <2>1 DEF TypeOK, HomeOf, Home, KeyOf, Whose
  <2>5. \A l : Opposing(l) \subseteq Label
    BY DEF Opposing
  <2> SUFFICES ASSUME NEW k \in DOMAIN log, Whose(k) \notin raced,
                      NEW l \in Opposing(LabelFor(k))
               PROVE  /\ pc'[k] = "oppose" /\ KeyOf(k, l) \in stored'[HomeOf(at[k])] => l \in todo[k]
                      /\ pc'[k] = "insert" => KeyOf(k, l) \notin stored'[HomeOf(at[k])]
    BY <2>1 DEF KeyOf, HomeOf, Whose, LabelFor
  <2> QED
    BY <2>2, <2>3, <2>4, <2>5
<1>12. ASSUME NEW n \in 1..MaxEvents, Publish(n) PROVE OpposeInv'
  <2>1. /\ log' = log /\ raced \subseteq raced'
        /\ \A h \in Home : stored'[h] \subseteq stored[h]
        /\ \A k \in DOMAIN log : pc'[k] \in {"oppose", "insert"} =>
             pc'[k] = pc[k] /\ at'[k] = at[k] /\ todo'[k] = todo[k] /\ at[k] \in Replica
        /\ kind' = kind
    BY <1>0, <1>12 DEF Publish, TypeOK
  <2> QED
    BY <2>1 DEF Whose, KeyOf, LabelFor, HomeOf, Home
<1>13. ASSUME NEW n \in 1..MaxEvents, Fail(n) PROVE OpposeInv'
  <2>1. /\ log' = log /\ raced \subseteq raced'
        /\ \A h \in Home : stored'[h] \subseteq stored[h]
        /\ \A k \in DOMAIN log : pc'[k] \in {"oppose", "insert"} =>
             pc'[k] = pc[k] /\ at'[k] = at[k] /\ todo'[k] = todo[k] /\ at[k] \in Replica
        /\ kind' = kind
    BY <1>0, <1>13 DEF Fail, TypeOK
  <2> QED
    BY <2>1 DEF Whose, KeyOf, LabelFor, HomeOf, Home
<1>14. ASSUME NEW a \in Replica, Restart(a) PROVE OpposeInv'
  <2>1. /\ log' = log /\ raced \subseteq raced'
        /\ \A h \in Home : stored'[h] \subseteq stored[h]
        /\ \A k \in DOMAIN log : pc'[k] \in {"oppose", "insert"} =>
             pc'[k] = pc[k] /\ at'[k] = at[k] /\ todo'[k] = todo[k] /\ at[k] \in Replica
        /\ kind' = kind
    BY <1>0, <1>14 DEF Restart, TypeOK
  <2> QED
    BY <2>1 DEF Whose, KeyOf, LabelFor, HomeOf, Home
<1>15. CASE UNCHANGED vars
  BY <1>15 DEF vars, Whose, KeyOf, LabelFor, HomeOf
<1> QED
  BY <1>1, <1>2, <1>3, <1>4, <1>5, <1>6, <1>7, <1>8, <1>9, <1>10, <1>11, <1>12, <1>13, <1>14, <1>15
     DEF Next

\* The order stays if nobody is done no more or begins.
LEMMA OrderStays ==
  ASSUME IInv, log' = log, spoiled \subseteq spoiled',
         \A k \in DOMAIN log : /\ pc[k] = "done" => pc'[k] = "done"
                               /\ pc'[k] # "waiting" => pc[k] # "waiting"
  PROVE  OrderInv'
<1> SUFFICES ASSUME NEW u \in User, NEW m \in Message, <<u, m>> \notin spoiled',
                    NEW k \in Mine(u, m), NEW j \in Mine(u, m), k < j, pc'[j] # "waiting"
             PROVE  pc'[k] = "done"
  BY DEF OrderInv, Mine, Whose
<1>1. <<u, m>> \notin spoiled /\ k \in DOMAIN log /\ j \in DOMAIN log
  BY DEF Mine
<1>2. pc[j] # "waiting"
  BY <1>1
<1>3. pc[k] = "done"
  BY <1>1, <1>2 DEF IInv, OrderInv
<1> QED
  BY <1>1, <1>3

\* Whoever does not come in turn spoils the order.
LEMMA OrderNext == IInv /\ [Next]_vars => OrderInv'
<1> SUFFICES ASSUME IInv, [Next]_vars PROVE OrderInv'
  OBVIOUS
<1>0. DOMAIN log \subseteq 1..MaxEvents
  BY LogDomain DEF IInv
<1>1. ASSUME NEW u \in User, NEW m \in Message, NEW e \in Emoji, React(u, m, e)
      PROVE  OrderInv'
  <2>1. PICK x \in 1..MaxEvents : Grown(x, u, m)
    BY <1>1, ReactLog
  <2>2. /\ DOMAIN log' = DOMAIN log \cup {x} /\ spoiled' = spoiled /\ pc'[x] = "waiting"
        /\ \A n \in DOMAIN log : log'[n] = log[n] /\ pc'[n] = pc[n] /\ n < x
    BY <1>1, <2>1 DEF React, Grown, history, IInv, TypeOK
  <2>3. \A u1 \in User, m1 \in Message : \A n \in Mine(u1, m1)' :
          n \in Mine(u1, m1) \/ n = x
    BY <2>2 DEF Mine, Whose
  <2>4. \A u1 \in User, m1 \in Message : Mine(u1, m1) \subseteq DOMAIN log
    BY DEF Mine
  <2>5. x \notin DOMAIN log /\ x \in Int /\ DOMAIN log \subseteq Int
    BY <1>0, <2>1, FeedbackAssumption DEF Grown
  <2> QED
    BY <2>2, <2>3, <2>4, <2>5 DEF IInv, OrderInv
<1>2. ASSUME NEW n \in 1..MaxEvents, LookUp(n) PROVE OrderInv'
  <2>1. PICK where \in {"orphan", "done", "retract", "oppose"} : LookedUp(n, where)
    BY <1>2, LookUpCases
  <2>2. /\ log' = log /\ spoiled \subseteq spoiled'
        /\ \A k \in DOMAIN log : /\ pc[k] = "done" => pc'[k] = "done"
                                 /\ pc'[k] # "waiting" => pc[k] # "waiting"
    BY <1>0, <2>1 DEF LookedUp, history, IInv, TypeOK
  <2> QED
    BY <2>2, OrderStays
<1> USE DEF posts, handlers, history, PostAt, Goto, Forget
<1>3. ASSUME NEW m \in Message, Send(m) PROVE OrderInv'
  <2>1. /\ log' = log /\ spoiled \subseteq spoiled'
        /\ \A k \in DOMAIN log : /\ pc[k] = "done" => pc'[k] = "done"
                                 /\ pc'[k] # "waiting" => pc[k] # "waiting"
    BY <1>0, <1>3 DEF Send, Over, Handled, IInv, TypeOK
  <2> QED
    BY <2>1, OrderStays
<1>4. ASSUME NEW m \in Message, RecordEffect(m) PROVE OrderInv'
  <2>1. /\ log' = log /\ spoiled \subseteq spoiled'
        /\ \A k \in DOMAIN log : /\ pc[k] = "done" => pc'[k] = "done"
                                 /\ pc'[k] # "waiting" => pc[k] # "waiting"
    BY <1>0, <1>4 DEF RecordEffect, Over, Handled, IInv, TypeOK
  <2> QED
    BY <2>1, OrderStays
<1>5. ASSUME NEW m \in Message, Correlate(m) PROVE OrderInv'
  <2>1. /\ log' = log /\ spoiled \subseteq spoiled'
        /\ \A k \in DOMAIN log : /\ pc[k] = "done" => pc'[k] = "done"
                                 /\ pc'[k] # "waiting" => pc[k] # "waiting"
    BY <1>0, <1>5 DEF Correlate, Over, Handled, IInv, TypeOK
  <2> QED
    BY <2>1, OrderStays
<1>6. ASSUME NEW m \in Message, PostFails(m) PROVE OrderInv'
  <2>1. /\ log' = log /\ spoiled \subseteq spoiled'
        /\ \A k \in DOMAIN log : /\ pc[k] = "done" => pc'[k] = "done"
                                 /\ pc'[k] # "waiting" => pc[k] # "waiting"
    BY <1>0, <1>6 DEF PostFails, Over, Handled, IInv, TypeOK
  <2> QED
    BY <2>1, OrderStays
<1>7. ASSUME NEW n \in 1..MaxEvents, NEW a \in Replica, Receive(n, a) PROVE OrderInv'
  <2>1. /\ n \in DOMAIN log /\ log' = log /\ pc' = [pc EXCEPT ![n] = "lookup"]
        /\ spoiled' = IF InTurn(n) THEN spoiled ELSE spoiled \cup {Whose(n)}
    BY <1>7 DEF Receive
  <2> SUFFICES ASSUME NEW u \in User, NEW m \in Message, <<u, m>> \notin spoiled',
                      NEW k \in Mine(u, m), NEW j \in Mine(u, m), k < j, pc'[j] # "waiting"
               PROVE  pc'[k] = "done"
    BY <2>1 DEF Mine, Whose, OrderInv
  <2>2. <<u, m>> \notin spoiled /\ (<<u, m>> = Whose(n) => InTurn(n))
    BY <2>1
  <2>3. k \in DOMAIN log /\ j \in DOMAIN log /\ Whose(k) = <<u, m>> /\ Whose(j) = <<u, m>>
        /\ k \in Int /\ j \in Int /\ n \in Int /\ k # j
    BY <1>0, FeedbackAssumption DEF Mine
  <2>4. \A i \in DOMAIN log : i # n => pc'[i] = pc[i]
    BY <1>0, <2>1 DEF IInv, TypeOK
  <2>5. CASE <<u, m>> = Whose(n)
    BY <2>2, <2>3, <2>4, <2>5 DEF InTurn
  <2>6. CASE <<u, m>> # Whose(n)
    BY <2>2, <2>3, <2>4, <2>6 DEF IInv, OrderInv
  <2> QED
    BY <2>5, <2>6
<1>8. ASSUME NEW n \in 1..MaxEvents, Retract(n) PROVE OrderInv'
  <2>1. /\ log' = log /\ spoiled \subseteq spoiled'
        /\ \A k \in DOMAIN log : /\ pc[k] = "done" => pc'[k] = "done"
                                 /\ pc'[k] # "waiting" => pc[k] # "waiting"
    BY <1>0, <1>8 DEF Retract, Over, Handled, IInv, TypeOK
  <2> QED
    BY <2>1, OrderStays
<1>9. ASSUME NEW n \in 1..MaxEvents, Oppose(n) PROVE OrderInv'
  <2>1. /\ log' = log /\ spoiled \subseteq spoiled'
        /\ \A k \in DOMAIN log : /\ pc[k] = "done" => pc'[k] = "done"
                                 /\ pc'[k] # "waiting" => pc[k] # "waiting"
    BY <1>0, <1>9 DEF Oppose, Over, Handled, IInv, TypeOK
  <2> QED
    BY <2>1, OrderStays
<1>10. ASSUME NEW n \in 1..MaxEvents, Delete(n) PROVE OrderInv'
  <2>1. /\ log' = log /\ spoiled \subseteq spoiled'
        /\ \A k \in DOMAIN log : /\ pc[k] = "done" => pc'[k] = "done"
                                 /\ pc'[k] # "waiting" => pc[k] # "waiting"
    BY <1>0, <1>10 DEF Delete, Over, Handled, IInv, TypeOK
  <2> QED
    BY <2>1, OrderStays
<1>11. ASSUME NEW n \in 1..MaxEvents, Insert(n) PROVE OrderInv'
  <2>1. /\ log' = log /\ spoiled \subseteq spoiled'
        /\ \A k \in DOMAIN log : /\ pc[k] = "done" => pc'[k] = "done"
                                 /\ pc'[k] # "waiting" => pc[k] # "waiting"
    BY <1>0, <1>11 DEF Insert, Over, Handled, IInv, TypeOK
  <2> QED
    BY <2>1, OrderStays
<1>12. ASSUME NEW n \in 1..MaxEvents, Publish(n) PROVE OrderInv'
  <2>1. /\ log' = log /\ spoiled \subseteq spoiled'
        /\ \A k \in DOMAIN log : /\ pc[k] = "done" => pc'[k] = "done"
                                 /\ pc'[k] # "waiting" => pc[k] # "waiting"
    BY <1>0, <1>12 DEF Publish, Over, Handled, IInv, TypeOK
  <2> QED
    BY <2>1, OrderStays
<1>13. ASSUME NEW n \in 1..MaxEvents, Fail(n) PROVE OrderInv'
  <2>1. /\ log' = log /\ spoiled \subseteq spoiled'
        /\ \A k \in DOMAIN log : /\ pc[k] = "done" => pc'[k] = "done"
                                 /\ pc'[k] # "waiting" => pc[k] # "waiting"
    BY <1>0, <1>13 DEF Fail, Over, Handled, IInv, TypeOK
  <2> QED
    BY <2>1, OrderStays
<1>14. ASSUME NEW a \in Replica, Restart(a) PROVE OrderInv'
  <2>1. /\ log' = log /\ spoiled \subseteq spoiled'
        /\ \A k \in DOMAIN log : /\ pc[k] = "done" => pc'[k] = "done"
                                 /\ pc'[k] # "waiting" => pc[k] # "waiting"
    BY <1>0, <1>14 DEF Restart, Over, Handled, IInv, TypeOK
  <2> QED
    BY <2>1, OrderStays
<1>15. CASE UNCHANGED vars
  BY <1>15 DEF vars, IInv, OrderInv, Mine, Whose
<1> QED
  BY <1>1, <1>2, <1>3, <1>4, <1>5, <1>6, <1>7, <1>8, <1>9, <1>10, <1>11, <1>12, <1>13, <1>14, <1>15
     DEF Next
-----------------------------------------------------------------------------
(* That the feedback mirrors the log *)

\* What one more reaction, the latest, adds to what was said, and takes away.
LEMMA OneMoreSays ==
  ASSUME TypeOK, NEW D \in SUBSET DOMAIN log, NEW n \in DOMAIN log, \A k \in D : k < n
  PROVE  LET l == LabelFor(n) IN
         /\ l = NoLabel => Said(log, D \cup {n}) = Said(log, D)
         /\ l # NoLabel /\ log[n].type = "reaction_removed" =>
              Said(log, D \cup {n}) = Said(log, D) \ {l}
         /\ l # NoLabel /\ log[n].type = "reaction_added" =>
              Said(log, D \cup {n}) = (Said(log, D) \ Opposing(l)) \cup {l}
<1> DEFINE Lab(k) == LabelOf[log[k].emoji]
           Beats(k, i) == IF log[k].type = "reaction_removed" THEN Lab(k) # Lab(i)
                          ELSE Lab(i) \notin Opposing(Lab(k))
           Says(E) == {i \in E : /\ Lab(i) # NoLabel
                                 /\ log[i].type = "reaction_added"
                                 /\ \A k \in E : Lab(k) # NoLabel /\ k > i => Beats(k, i)}
           E == D \cup {n}
<1>1. n \notin D /\ ~(n > n) /\ \A i \in D : n > i /\ ~(i > n)
  BY LogDomain, FeedbackAssumption
<1>2. log[n].type \in {"reaction_added", "reaction_removed"}
      /\ LabelFor(n) = Lab(n) /\ LabelFor(n) \in Label \cup {NoLabel}
  BY LogDomain DEF LabelFor
<1>3. Said(log, D) = {Lab(i) : i \in Says(D)} /\ Said(log, E) = {Lab(i) : i \in Says(E)}
  BY DEF Said
<1> HIDE DEF Lab, Beats
<1>4. \A i \in D : i \in Says(E) <=> i \in Says(D) /\ (Lab(n) # NoLabel => Beats(n, i))
  BY <1>1
<1>5. n \in Says(E) <=> Lab(n) # NoLabel /\ log[n].type = "reaction_added"
  BY <1>1
<1>6. Says(D) \subseteq D /\ Says(E) \subseteq E
  OBVIOUS
<1> HIDE DEF Says
<1>7. CASE Lab(n) = NoLabel
  <2>1. Says(E) = Says(D)
    BY <1>4, <1>5, <1>6, <1>7
  <2> QED
    BY <1>2, <1>3, <1>7, <2>1
<1>8. CASE Lab(n) # NoLabel /\ log[n].type = "reaction_removed"
  <2>1. Says(E) = {i \in Says(D) : Lab(i) # Lab(n)}
    BY <1>4, <1>5, <1>6, <1>8 DEF Beats
  <2>2. Said(log, E) = Said(log, D) \ {Lab(n)}
    BY <1>3, <2>1
  <2> QED
    BY <1>2, <1>8, <2>2
<1>9. CASE Lab(n) # NoLabel /\ log[n].type = "reaction_added"
  <2>1. Says(E) = {i \in Says(D) : Lab(i) \notin Opposing(Lab(n))} \cup {n}
    BY <1>4, <1>5, <1>6, <1>9 DEF Beats
  <2>2. Said(log, E) = (Said(log, D) \ Opposing(Lab(n))) \cup {Lab(n)}
    BY <1>3, <2>1
  <2> QED
    BY <1>2, <1>9, <2>2
<1> QED
  BY <1>2, <1>7, <1>8, <1>9

\* Only one home knows a message, so that the feedback on it is there.
LEMMA OneHome ==
  ASSUME IInv, NEW n \in DOMAIN log, pc[n] \in Working,
         NEW h \in Home, h # HomeOf(at[n]), NEW u \in User, NEW l \in Label
  PROVE  <<u, log[n].message, l>> \notin stored[h]
<1>1. HomeOf(at[n]) \in Home /\ log[n].message \in corr[HomeOf(at[n])]
      /\ log[n].message \in Message /\ log[n].user \in User
  BY LogDomain DEF IInv, HandlerInv, TypeOK, HomeOf, Home
<1>2. HomeOf(at[n]) = HomeOf(poster[log[n].message])
  BY <1>1 DEF IInv, PostInv
<1>3. log[n].message \notin corr[h]
  BY <1>2 DEF IInv, PostInv
<1> QED
  BY <1>3 DEF IInv, StoredInv

\* So a handler's deletion takes a label from the feedback ...
LEMMA Forgotten ==
  ASSUME IInv, NEW n \in DOMAIN log, pc[n] \in Working, NEW d \in Label,
         Forget(n, d),
         NEW u \in User, NEW m \in Message
  PROVE  /\ Whose(n) = <<u, m>> => LabelsOf(u, m)' = LabelsOf(u, m) \ {d}
         /\ Whose(n) # <<u, m>> => LabelsOf(u, m)' = LabelsOf(u, m)
<1> DEFINE here == HomeOf(at[n])
<1>1. here \in Home /\ stored \in [Home -> SUBSET Key]
  BY LogDomain DEF IInv, TypeOK, HomeOf, Home
<1>2. \A h \in Home : stored'[h] = IF h = here THEN stored[h] \ {KeyOf(n, d)} ELSE stored[h]
  BY <1>1 DEF Forget
<1>3. Whose(n) = <<u, m>> => \A h \in Home, l \in Label :
        h # here => <<u, m, l>> \notin stored[h]
  BY OneHome DEF Whose
<1>4. \A l \in Label : <<u, m, l>> = KeyOf(n, d) <=> Whose(n) = <<u, m>> /\ l = d
  BY DEF KeyOf, Whose
<1> HIDE DEF here
<1> QED
  BY <1>1, <1>2, <1>3, <1>4 DEF LabelsOf

\* ... and its insertion gives it one.
Remember(n, l) == stored' = [stored EXCEPT ![HomeOf(at[n])] = @ \cup {KeyOf(n, l)}]

\* What a handler's insertion adds to the feedback of its user and message,
\* and that it adds nothing to anybody else's.
LEMMA Recorded ==
  ASSUME IInv, NEW n \in DOMAIN log, pc[n] \in Working, NEW d \in Label,
         Remember(n, d),
         NEW u \in User, NEW m \in Message
  PROVE  /\ Whose(n) = <<u, m>> => LabelsOf(u, m)' = LabelsOf(u, m) \cup {d}
         /\ Whose(n) # <<u, m>> => LabelsOf(u, m)' = LabelsOf(u, m)
<1> DEFINE here == HomeOf(at[n])
<1>1. here \in Home /\ stored \in [Home -> SUBSET Key]
  BY LogDomain DEF IInv, TypeOK, HomeOf, Home
<1>2. \A h \in Home : stored'[h] = IF h = here THEN stored[h] \cup {KeyOf(n, d)} ELSE stored[h]
  BY <1>1 DEF Remember
<1>3. \A l \in Label : <<u, m, l>> = KeyOf(n, d) <=> Whose(n) = <<u, m>> /\ l = d
  BY DEF KeyOf, Whose
<1> HIDE DEF here
<1> QED
  BY <1>1, <1>2, <1>3 DEF LabelsOf

\* Where no handler of the user and message moves, all stays.
LEMMA Untouched ==
  ASSUME NEW u, NEW m, MirrorAt(u, m), log' = log, LabelsOf(u, m)' = LabelsOf(u, m),
         \A k \in Mine(u, m) : pc'[k] = pc[k] /\ todo'[k] = todo[k]
  PROVE  MirrorAt(u, m)'
<1>1. Mine(u, m)' = Mine(u, m)
  BY DEF Mine, Whose
<1>2. Done(u, m)' = Done(u, m)
  BY <1>1 DEF Done
<1> QED
  BY <1>1, <1>2 DEF MirrorAt, LabelFor

\* Who is under way in turn has the done before it and the waiting behind it.
LEMMA Alone ==
  ASSUME IInv, NEW u \in User, NEW m \in Message, <<u, m>> \notin spoiled,
         NEW n \in Mine(u, m), pc[n] \notin {"waiting", "done"}
  PROVE  /\ \A k \in Mine(u, m) : k # n => pc[k] \in {"waiting", "done"}
         /\ Done(u, m) \subseteq DOMAIN log
         /\ \A k \in Done(u, m) : k < n
         /\ Between(pc[n], todo[n], LabelFor(n), Said(log, Done(u, m)), LabelsOf(u, m))
<1>1. Mine(u, m) \subseteq DOMAIN log /\ DOMAIN log \subseteq Int
  BY LogDomain, FeedbackAssumption DEF IInv, Mine
<1>2. \A k \in Mine(u, m) : /\ k < n => pc[k] = "done"
                            /\ n < k => pc[k] = "waiting"
  BY DEF IInv, OrderInv
<1>3. \A k \in Mine(u, m) : k < n \/ n < k \/ k = n
  BY <1>1
<1>4. Between(pc[n], todo[n], LabelFor(n), Said(log, Done(u, m)), LabelsOf(u, m))
  BY DEF IInv, MirrorInv, MirrorAt
<1> QED
  BY <1>1, <1>2, <1>3, <1>4 DEF Done

\* A step of the one that is under way.
LEMMA MirrorStep ==
  ASSUME IInv, NEW u \in User, NEW m \in Message, <<u, m>> \notin spoiled,
         NEW n \in Mine(u, m), pc[n] \notin {"waiting", "done"},
         NEW p, p # "waiting", log' = log, pc' = [pc EXCEPT ![n] = p],
         p # "done" =>
           Between(p, todo'[n], LabelFor(n), Said(log, Done(u, m)), LabelsOf(u, m)'),
         p = "done" => LabelsOf(u, m)' = Said(log, Done(u, m) \cup {n})
  PROVE  MirrorAt(u, m)'
<1>1. Mine(u, m)' = Mine(u, m)
  BY DEF Mine, Whose
<1>2. n \in DOMAIN log /\ DOMAIN log \subseteq 1..MaxEvents /\ Mine(u, m) \subseteq DOMAIN log
  BY LogDomain DEF Mine, IInv
<1>3. pc'[n] = p /\ \A k \in Mine(u, m) : k # n => pc'[k] = pc[k] /\ pc[k] \in {"waiting", "done"}
  BY <1>2, Alone DEF IInv, TypeOK
<1>4. Done(u, m)' = IF p = "done" THEN Done(u, m) \cup {n} ELSE Done(u, m)
  BY <1>1, <1>3 DEF Done
<1>5. \A q, left, l, before, labels :
        q \in {"waiting", "done"} => Between(q, left, l, before, labels)
  BY DEF Between
<1>6. LabelFor(n)' = LabelFor(n)
  BY DEF LabelFor
<1>7. CASE p = "done"
  BY <1>1, <1>3, <1>4, <1>5, <1>7 DEF MirrorAt
<1>8. CASE p # "done"
  BY <1>1, <1>3, <1>4, <1>5, <1>6, <1>8 DEF MirrorAt
<1> QED
  BY <1>7, <1>8

\* For other users and messages than the handler's, all stays.
LEMMA MirrorsElsewhere ==
  ASSUME IInv, NEW u \in User, NEW m \in Message, <<u, m>> \notin spoiled,
         NEW n \in DOMAIN log, Whose(n) # <<u, m>>, NEW p,
         log' = log, pc' = [pc EXCEPT ![n] = p],
         \A k \in DOMAIN log : k # n => todo'[k] = todo[k],
         LabelsOf(u, m)' = LabelsOf(u, m)
  PROVE  MirrorAt(u, m)'
<1>1. MirrorAt(u, m)
  BY DEF IInv, MirrorInv
<1>2. \A k \in Mine(u, m) : k \in DOMAIN log /\ k # n /\ k \in 1..MaxEvents
  BY LogDomain DEF IInv, Mine
<1>3. \A k \in Mine(u, m) : pc'[k] = pc[k] /\ todo'[k] = todo[k]
  BY <1>2 DEF IInv, TypeOK
<1> QED
  BY <1>1, <1>3, Untouched

\* Whether a handler of the user and message is at work, and for what.
LEMMA UnderWay ==
  ASSUME IInv, NEW n \in 1..MaxEvents, pc[n] \in Working
  PROVE  /\ n \in DOMAIN log /\ LabelFor(n) \in Label /\ LabelFor(n) # NoLabel
         /\ pc[n] \notin {"waiting", "done"}
         /\ pc[n] = "retract" => log[n].type = "reaction_removed"
         /\ pc[n] = "publish" => log[n].type = "reaction_added"
         /\ pc[n] = "oppose" => todo[n] \subseteq Opposing(LabelFor(n))
<1>1. n \in DOMAIN log
  BY DEF IInv, LogInv, Working
<1>2. LabelFor(n) \in Label
  BY <1>1 DEF IInv, HandlerInv
<1> QED
  BY <1>1, <1>2, FeedbackAssumption DEF IInv, HandlerInv, Working

\* Each step keeps the feedback of those that came in turn.
LEMMA MirrorNext == IInv /\ [Next]_vars => MirrorInv'
<1> SUFFICES ASSUME IInv, [Next]_vars, NEW u \in User, NEW m \in Message,
                    <<u, m>> \notin spoiled'
             PROVE  MirrorAt(u, m)'
  BY DEF MirrorInv
<1>0. DOMAIN log \subseteq 1..MaxEvents
  BY LogDomain DEF IInv
<1>i. <<u, m>> \notin spoiled => MirrorAt(u, m)
  BY DEF IInv, MirrorInv
<1>s. ASSUME <<u, m>> \notin spoiled, UNCHANGED <<log, pc, todo, stored>>
      PROVE  MirrorAt(u, m)'
  <2>1. LabelsOf(u, m)' = LabelsOf(u, m)
    BY <1>s DEF LabelsOf
  <2> QED
    BY <1>i, <1>s, <2>1, Untouched
<1>1. ASSUME NEW r \in User, NEW t \in Message, NEW e \in Emoji, React(r, t, e)
      PROVE  MirrorAt(u, m)'
  <2>1. PICK x \in 1..MaxEvents : Grown(x, r, t)
    BY <1>1, ReactLog
  <2>2. /\ DOMAIN log' = DOMAIN log \cup {x} /\ x \notin DOMAIN log /\ pc'[x] = "waiting"
        /\ \A n \in DOMAIN log : log'[n] = log[n] /\ pc'[n] = pc[n]
    BY <2>1 DEF Grown, IInv, TypeOK
  <2>3. stored' = stored /\ todo' = todo /\ spoiled' = spoiled
    BY <1>1 DEF React, history
  <2>4. Mine(u, m) \subseteq DOMAIN log /\ Mine(u, m) \subseteq Mine(u, m)'
        /\ \A n \in Mine(u, m)' : n \in Mine(u, m) \/ n = x
    BY <2>2 DEF Mine, Whose
  <2>5. Done(u, m)' = Done(u, m) /\ Done(u, m) \subseteq DOMAIN log
    BY <2>2, <2>4 DEF Done
  <2>6. ASSUME NEW D \in SUBSET DOMAIN log PROVE Said(log', D) = Said(log, D)
    BY <2>2 DEF Said
  <2>7. Said(log', Done(u, m)') = Said(log, Done(u, m))
    BY <2>5, <2>6
  <2>8. LabelsOf(u, m)' = LabelsOf(u, m)
    BY <2>3 DEF LabelsOf
  <2>9. MirrorAt(u, m)
    BY <1>i, <2>3
  <2>10. \A left, l, before, labels : Between("waiting", left, l, before, labels)
    BY DEF Between
  <2>11. (\A n \in Mine(u, m)' : pc'[n] \in {"waiting", "done"}) =>
           LabelsOf(u, m)' = Said(log', Done(u, m)')
    BY <2>2, <2>4, <2>7, <2>8, <2>9 DEF MirrorAt
  <2>12. ASSUME NEW n \in Mine(u, m)'
         PROVE  Between(pc'[n], todo'[n], LabelOf[log'[n].emoji], Said(log', Done(u, m)'),
                        LabelsOf(u, m)')
    <3>1. CASE n = x
      BY <2>2, <2>10, <3>1
    <3>2. CASE n # x
      <4>1. n \in Mine(u, m) /\ log'[n] = log[n] /\ pc'[n] = pc[n]
        BY <2>2, <2>4, <3>2
      <4> QED
        BY <2>3, <2>7, <2>8, <2>9, <4>1 DEF MirrorAt, LabelFor
    <3> QED
      BY <3>1, <3>2
  <2> QED
    BY <2>11, <2>12 DEF MirrorAt, LabelFor
<1>2. ASSUME NEW n \in 1..MaxEvents, LookUp(n) PROVE MirrorAt(u, m)'
  <2>l. PICK where \in {"orphan", "done", "retract", "oppose"} : LookedUp(n, where)
    BY <1>2, LookUpCases
  <2>1. /\ n \in DOMAIN log /\ pc[n] = "lookup" /\ pc' = [pc EXCEPT ![n] = where]
        /\ where = "done" => LabelFor(n) = NoLabel
        /\ todo' = [todo EXCEPT ![n] = IF where = "oppose"
                                       THEN Opposing(LabelFor(n)) ELSE {}]
        /\ UNCHANGED <<log, stored, history>>
    BY <2>l DEF LookedUp
  <2>2. log' = log /\ stored' = stored /\ spoiled' = spoiled
    BY <2>1 DEF history
  <2>3. LabelsOf(u, m)' = LabelsOf(u, m)
    BY <2>2 DEF LabelsOf
  <2>4. /\ \A k \in DOMAIN log : k # n => todo'[k] = todo[k]
        /\ where = "oppose" => todo'[n] = Opposing(LabelFor(n))
    BY <1>0, <2>1 DEF IInv, TypeOK
  <2>5. CASE Whose(n) # <<u, m>>
    BY <2>1, <2>2, <2>3, <2>4, <2>5, MirrorsElsewhere
  <2>6. CASE Whose(n) = <<u, m>>
    <3>1. n \in Mine(u, m) /\ pc[n] \notin {"waiting", "done"} /\ <<u, m>> \notin spoiled
      BY <2>1, <2>2, <2>6 DEF Mine
    <3>2. /\ LabelsOf(u, m) = Said(log, Done(u, m))
          /\ Done(u, m) \in SUBSET DOMAIN log /\ \A k \in Done(u, m) : k < n
      BY <2>1, <3>1, Alone DEF Between
    <3>3. where = "done" => LabelsOf(u, m)' = Said(log, Done(u, m) \cup {n})
      BY <2>1, <2>3, <3>2, OneMoreSays DEF IInv
    <3>4. where # "done" =>
            Between(where, todo'[n], LabelFor(n), Said(log, Done(u, m)), LabelsOf(u, m)')
      BY <2>1, <2>3, <2>4, <3>2 DEF Between
    <3>5. where # "waiting"
      BY <2>1
    <3> QED
      BY <2>1, <2>2, <3>1, <3>3, <3>4, <3>5, MirrorStep
  <2> QED
    BY <2>5, <2>6
<1>3. ASSUME NEW t \in Message, Send(t) PROVE MirrorAt(u, m)'
  BY <1>3, <1>s DEF Send, handlers, history
<1>4. ASSUME NEW t \in Message, RecordEffect(t) PROVE MirrorAt(u, m)'
  BY <1>4, <1>s DEF RecordEffect, handlers, history
<1>5. ASSUME NEW t \in Message, Correlate(t) PROVE MirrorAt(u, m)'
  BY <1>5, <1>s DEF Correlate, handlers, history
<1>6. ASSUME NEW t \in Message, PostFails(t) PROVE MirrorAt(u, m)'
  BY <1>6, <1>s DEF PostFails, handlers, history
<1>7. ASSUME NEW n \in 1..MaxEvents, NEW a \in Replica, Receive(n, a)
      PROVE  MirrorAt(u, m)'
  <2>1. /\ n \in DOMAIN log /\ log' = log /\ pc' = [pc EXCEPT ![n] = "lookup"]
        /\ spoiled' = IF InTurn(n) THEN spoiled ELSE spoiled \cup {Whose(n)}
        /\ stored' = stored /\ todo' = todo
    BY <1>7 DEF Receive, Goto
  <2>2. <<u, m>> \notin spoiled /\ (Whose(n) = <<u, m>> => InTurn(n))
    BY <2>1
  <2>3. LabelsOf(u, m)' = LabelsOf(u, m)
    BY <2>1 DEF LabelsOf
  <2>4. CASE Whose(n) # <<u, m>>
    BY <2>1, <2>2, <2>3, <2>4, MirrorsElsewhere
  <2>5. CASE Whose(n) = <<u, m>>
    <3>1. n \in Mine(u, m) /\ Mine(u, m) \subseteq DOMAIN log
          /\ Mine(u, m)' = Mine(u, m)
      BY <2>1, <2>5 DEF Mine, Whose
    <3>2. pc[n] = "waiting" /\ \A k \in Mine(u, m) : pc[k] \in {"waiting", "done"}
      <4>1. /\ pc[n] = "waiting"
            /\ \A k \in Mine(u, m) : k < n => pc[k] = "done"
            /\ \A k \in Mine(u, m) : k > n => pc[k] = "waiting"
        BY <2>2, <2>5 DEF InTurn, Mine
      <4>2. \A k \in Mine(u, m) : k < n \/ k > n \/ k = n
        BY <1>0, <3>1, FeedbackAssumption
      <4> QED
        BY <4>1, <4>2
    <3>3. LabelsOf(u, m) = Said(log, Done(u, m))
      BY <1>i, <2>2, <3>2 DEF MirrorAt
    <3>4. pc'[n] = "lookup" /\ \A k \in Mine(u, m) : k # n => pc'[k] = pc[k]
      BY <1>0, <2>1, <3>1 DEF IInv, TypeOK
    <3>5. Done(u, m)' = Done(u, m)
      BY <3>1, <3>2, <3>4 DEF Done
    <3>6. \A q, left, l, before, labels :
            q \in {"waiting", "done"} => Between(q, left, l, before, labels)
      BY DEF Between
    <3>7. \A left, l, before : Between("lookup", left, l, before, before)
      BY DEF Between
    <3>8. \A k \in Mine(u, m) :
            Between(pc'[k], todo'[k], LabelOf[log'[k].emoji], Said(log', Done(u, m)'),
                    LabelsOf(u, m)')
      BY <2>1, <2>3, <3>2, <3>3, <3>4, <3>5, <3>6, <3>7
    <3> QED
      BY <3>1, <3>4, <3>8 DEF MirrorAt, LabelFor
  <2> QED
    BY <2>4, <2>5
<1>8. ASSUME NEW n \in 1..MaxEvents, Retract(n) PROVE MirrorAt(u, m)'
  <2>1. /\ log' = log /\ spoiled' = spoiled
        /\ todo' = todo /\ pc[n] = "retract" /\ pc' = [pc EXCEPT ![n] = "done"]
        /\ Forget(n, LabelFor(n))
    BY <1>8 DEF Retract, Goto, history
  <2>2. /\ n \in DOMAIN log /\ LabelFor(n) \in Label /\ LabelFor(n) # NoLabel
        /\ pc[n] \in Working /\ pc[n] \notin {"waiting", "done"}
    BY <2>1, UnderWay DEF Working
  <2>3. /\ Whose(n) = <<u, m>> => LabelsOf(u, m)' = LabelsOf(u, m) \ {LabelFor(n)}
        /\ Whose(n) # <<u, m>> => LabelsOf(u, m)' = LabelsOf(u, m)
    BY <2>1, <2>2, Forgotten
  <2>4. \A k \in DOMAIN log : k # n => todo'[k] = todo[k]
    BY <2>1
  <2>5. CASE Whose(n) # <<u, m>>
    BY <2>1, <2>2, <2>3, <2>4, <2>5, MirrorsElsewhere
  <2>6. CASE Whose(n) = <<u, m>>
    <3>1. n \in Mine(u, m) /\ <<u, m>> \notin spoiled
      BY <2>1, <2>2, <2>6 DEF Mine
    <3>2. /\ LabelsOf(u, m) = Said(log, Done(u, m)) /\ log[n].type = "reaction_removed"
          /\ Done(u, m) \in SUBSET DOMAIN log /\ \A k \in Done(u, m) : k < n
      BY <2>1, <2>2, <3>1, Alone, UnderWay DEF Between
    <3>3. LabelsOf(u, m)' = Said(log, Done(u, m) \cup {n})
      BY <2>2, <2>3, <2>6, <3>2, OneMoreSays DEF IInv
    <3> QED
      BY <2>1, <2>2, <3>1, <3>3, MirrorStep
  <2> QED
    BY <2>5, <2>6
<1>9. ASSUME NEW n \in 1..MaxEvents, Oppose(n) PROVE MirrorAt(u, m)'
  <2>1. /\ log' = log /\ spoiled' = spoiled
        /\ pc' = pc /\ pc[n] = "oppose"
        /\ \E d \in todo[n] : /\ Forget(n, d)
                              /\ todo' = [todo EXCEPT ![n] = @ \ {d}]
    BY <1>9 DEF Oppose, history
  <2>2. /\ n \in DOMAIN log /\ LabelFor(n) \in Label /\ LabelFor(n) # NoLabel
        /\ pc[n] \in Working /\ pc[n] \notin {"waiting", "done"}
    BY <2>1, UnderWay DEF Working
  <2>d. PICK d \in todo[n] : /\ Forget(n, d)
                             /\ todo' = [todo EXCEPT ![n] = @ \ {d}]
    BY <2>1
  <2>o. todo[n] \subseteq Opposing(LabelFor(n)) /\ d \in Label
    BY <2>1, <2>2, UnderWay DEF Opposing
  <2>3. /\ Whose(n) = <<u, m>> => LabelsOf(u, m)' = LabelsOf(u, m) \ {d}
        /\ Whose(n) # <<u, m>> => LabelsOf(u, m)' = LabelsOf(u, m)
    BY <2>d, <2>o, <2>2, Forgotten
  <2>4. todo'[n] = todo[n] \ {d} /\ \A k \in DOMAIN log : k # n => todo'[k] = todo[k]
    BY <1>0, <2>d DEF IInv, TypeOK
  <2>p. pc' = [pc EXCEPT ![n] = "oppose"]
    BY <2>1 DEF IInv, TypeOK
  <2>5. CASE Whose(n) # <<u, m>>
    BY <2>1, <2>2, <2>3, <2>4, <2>5, <2>p, MirrorsElsewhere
  <2>6. CASE Whose(n) = <<u, m>>
    <3>1. n \in Mine(u, m) /\ <<u, m>> \notin spoiled
      BY <2>1, <2>2, <2>6 DEF Mine
    <3>2. LabelsOf(u, m) = Said(log, Done(u, m)) \ (Opposing(LabelFor(n)) \ todo[n])
      BY <2>1, <2>2, <3>1, Alone DEF Between
    <3>3. LabelsOf(u, m)' =
            Said(log, Done(u, m)) \ (Opposing(LabelFor(n)) \ todo'[n])
      BY <2>3, <2>4, <2>6, <2>o, <3>2
    <3>4. Between("oppose", todo'[n], LabelFor(n), Said(log, Done(u, m)), LabelsOf(u, m)')
      BY <3>3 DEF Between
    <3> QED
      BY <2>1, <2>2, <2>p, <3>1, <3>4, MirrorStep
  <2> QED
    BY <2>5, <2>6
<1>10. ASSUME NEW n \in 1..MaxEvents, Delete(n) PROVE MirrorAt(u, m)'
  <2>1. /\ log' = log /\ spoiled' = spoiled
        /\ todo' = todo /\ todo[n] = {}
        /\ pc[n] = "oppose" /\ pc' = [pc EXCEPT ![n] = "insert"]
        /\ Forget(n, LabelFor(n))
    BY <1>10 DEF Delete, Goto, history
  <2>2. /\ n \in DOMAIN log /\ LabelFor(n) \in Label /\ LabelFor(n) # NoLabel
        /\ pc[n] \in Working /\ pc[n] \notin {"waiting", "done"}
    BY <2>1, UnderWay DEF Working
  <2>3. /\ Whose(n) = <<u, m>> => LabelsOf(u, m)' = LabelsOf(u, m) \ {LabelFor(n)}
        /\ Whose(n) # <<u, m>> => LabelsOf(u, m)' = LabelsOf(u, m)
    BY <2>1, <2>2, Forgotten
  <2>4. \A k \in DOMAIN log : k # n => todo'[k] = todo[k]
    BY <2>1
  <2>5. CASE Whose(n) # <<u, m>>
    BY <2>1, <2>2, <2>3, <2>4, <2>5, MirrorsElsewhere
  <2>6. CASE Whose(n) = <<u, m>>
    <3>1. n \in Mine(u, m) /\ <<u, m>> \notin spoiled
      BY <2>1, <2>2, <2>6 DEF Mine
    <3>2. LabelsOf(u, m) = Said(log, Done(u, m)) \ Opposing(LabelFor(n))
      BY <2>1, <2>2, <3>1, Alone DEF Between
    <3>3. Between("insert", todo'[n], LabelFor(n), Said(log, Done(u, m)), LabelsOf(u, m)')
      BY <2>3, <2>6, <3>2 DEF Between
    <3> QED
      BY <2>1, <2>2, <3>1, <3>3, MirrorStep
  <2> QED
    BY <2>5, <2>6
<1>11. ASSUME NEW n \in 1..MaxEvents, Insert(n) PROVE MirrorAt(u, m)'
  <2>1. /\ log' = log /\ spoiled' = spoiled
        /\ todo' = todo
        /\ pc[n] = "insert" \/ (pc[n] = "oppose" /\ todo[n] = {})
        /\ stored' = [stored EXCEPT ![HomeOf(at[n])] = @ \cup {KeyOf(n, LabelFor(n))}]
    BY <1>11 DEF Insert, Goto, history
  <2>p. PICK p \in {"failed", "publish"} : pc' = [pc EXCEPT ![n] = p]
    BY <1>11 DEF Insert, Goto
  <2>2. /\ n \in DOMAIN log /\ LabelFor(n) \in Label /\ LabelFor(n) # NoLabel
        /\ pc[n] \in Working /\ pc[n] \notin {"waiting", "done"}
    BY <2>1, UnderWay DEF Working
  <2>3. /\ Whose(n) = <<u, m>> => LabelsOf(u, m)' = LabelsOf(u, m) \cup {LabelFor(n)}
        /\ Whose(n) # <<u, m>> => LabelsOf(u, m)' = LabelsOf(u, m)
    <3>1. PICK d \in Label :
            /\ d = LabelFor(n)
            /\ stored' = [stored EXCEPT ![HomeOf(at[n])] = @ \cup {KeyOf(n, d)}]
      BY <2>1, <2>2
    <3>2. Remember(n, d)
      BY <3>1 DEF Remember
    <3>3. /\ Whose(n) = <<u, m>> => LabelsOf(u, m)' = LabelsOf(u, m) \cup {d}
          /\ Whose(n) # <<u, m>> => LabelsOf(u, m)' = LabelsOf(u, m)
      BY <2>2, <3>1, <3>2, Recorded
    <3> QED
      BY <3>1, <3>3
  <2>4. \A k \in DOMAIN log : k # n => todo'[k] = todo[k]
    BY <2>1
  <2>5. CASE Whose(n) # <<u, m>>
    BY <2>1, <2>2, <2>3, <2>4, <2>5, <2>p, MirrorsElsewhere
  <2>6. CASE Whose(n) = <<u, m>>
    <3>1. n \in Mine(u, m) /\ <<u, m>> \notin spoiled
      BY <2>1, <2>2, <2>6 DEF Mine
    <3>2. LabelsOf(u, m) \cup {LabelFor(n)} =
            (Said(log, Done(u, m)) \ Opposing(LabelFor(n))) \cup {LabelFor(n)}
      BY <2>1, <2>2, <3>1, Alone DEF Between
    <3>3. Between(p, todo'[n], LabelFor(n), Said(log, Done(u, m)), LabelsOf(u, m)')
      BY <2>3, <2>6, <2>p, <3>2 DEF Between
    <3> QED
      BY <2>1, <2>2, <2>p, <3>1, <3>3, MirrorStep
  <2> QED
    BY <2>5, <2>6
<1>12. ASSUME NEW n \in 1..MaxEvents, Publish(n) PROVE MirrorAt(u, m)'
  <2>1. /\ log' = log /\ spoiled' = spoiled
        /\ todo' = todo /\ pc[n] = "publish" /\ pc' = [pc EXCEPT ![n] = "done"]
        /\ stored' = stored
    BY <1>12 DEF Publish, Goto, history
  <2>2. /\ n \in DOMAIN log /\ LabelFor(n) \in Label /\ LabelFor(n) # NoLabel
        /\ pc[n] \in Working /\ pc[n] \notin {"waiting", "done"}
    BY <2>1, UnderWay DEF Working
  <2>3. LabelsOf(u, m)' = LabelsOf(u, m)
    BY <2>1 DEF LabelsOf
  <2>4. \A k \in DOMAIN log : k # n => todo'[k] = todo[k]
    BY <2>1
  <2>5. CASE Whose(n) # <<u, m>>
    BY <2>1, <2>2, <2>3, <2>4, <2>5, MirrorsElsewhere
  <2>6. CASE Whose(n) = <<u, m>>
    <3>1. n \in Mine(u, m) /\ <<u, m>> \notin spoiled
      BY <2>1, <2>2, <2>6 DEF Mine
    <3>2. /\ LabelsOf(u, m) =
               (Said(log, Done(u, m)) \ Opposing(LabelFor(n))) \cup {LabelFor(n)}
          /\ log[n].type = "reaction_added"
          /\ Done(u, m) \in SUBSET DOMAIN log /\ \A k \in Done(u, m) : k < n
      BY <2>1, <2>2, <3>1, Alone, UnderWay DEF Between
    <3>3. LabelsOf(u, m)' = Said(log, Done(u, m) \cup {n})
      BY <2>2, <2>3, <3>2, OneMoreSays DEF IInv
    <3> QED
      BY <2>1, <2>2, <3>1, <3>3, MirrorStep
  <2> QED
    BY <2>5, <2>6
<1>13. ASSUME NEW n \in 1..MaxEvents, Fail(n) PROVE MirrorAt(u, m)'
  <2>1. /\ log' = log /\ spoiled' = spoiled /\ todo' = todo /\ stored' = stored
        /\ pc[n] \notin {"none", "waiting", "done"} /\ pc' = [pc EXCEPT ![n] = "failed"]
    BY <1>13 DEF Fail, Goto, Over, history
  <2>2. n \in DOMAIN log
    BY <2>1 DEF IInv, LogInv
  <2>3. LabelsOf(u, m)' = LabelsOf(u, m)
    BY <2>1 DEF LabelsOf
  <2>4. CASE Whose(n) # <<u, m>>
    BY <2>1, <2>2, <2>3, <2>4, MirrorsElsewhere
  <2>5. CASE Whose(n) = <<u, m>>
    <3>1. n \in Mine(u, m) /\ <<u, m>> \notin spoiled
      BY <2>1, <2>2, <2>5 DEF Mine
    <3>2. Between("failed", todo'[n], LabelFor(n), Said(log, Done(u, m)), LabelsOf(u, m)')
      BY DEF Between
    <3> QED
      BY <2>1, <2>2, <3>1, <3>2, MirrorStep
  <2> QED
    BY <2>4, <2>5
<1>14. ASSUME NEW a \in Replica, Restart(a) PROVE MirrorAt(u, m)'
  <2>1. /\ kind = "postgres" /\ stored' = stored /\ spoiled' = spoiled
        /\ log' = log /\ todo' = todo
        /\ pc' = [n \in 1..MaxEvents |-> IF n \in Handled /\ at[n] = a THEN "failed" ELSE pc[n]]
    BY <1>14, FeedbackAssumption DEF Restart, IInv, TypeOK
  <2>2. LabelsOf(u, m)' = LabelsOf(u, m)
    BY <2>1 DEF LabelsOf
  <2>3. Mine(u, m)' = Mine(u, m) /\ Mine(u, m) \subseteq 1..MaxEvents
    BY <1>0, <2>1 DEF Mine, Whose
  <2>4. CASE \A k \in Mine(u, m) : pc'[k] = pc[k]
    BY <1>i, <2>1, <2>2, <2>4, Untouched
  <2>5. CASE \E n \in Mine(u, m) : pc'[n] # pc[n]
    <3>1. PICK n \in Mine(u, m) : pc'[n] # pc[n]
      BY <2>5
    <3>2. n \in Handled /\ pc'[n] = "failed"
      BY <2>1, <2>3, <3>1
    <3>3. \A k \in Mine(u, m) : pc'[k] \in {"waiting", "done", "failed"}
      <4>1. \A k \in Mine(u, m) : k # n => pc[k] \in {"waiting", "done"}
        BY <2>1, <3>2, Alone DEF Handled, Over
      <4> QED
        BY <2>1, <2>3, <3>2, <4>1
    <3>4. \A q, left, l, before, labels :
            q \in {"waiting", "done", "failed"} => Between(q, left, l, before, labels)
      BY DEF Between
    <3> QED
      BY <2>3, <3>2, <3>3, <3>4 DEF MirrorAt
  <2> QED
    BY <2>4, <2>5
<1>15. CASE UNCHANGED vars
  BY <1>s, <1>15 DEF vars, handlers, history
<1> QED
  BY <1>1, <1>2, <1>3, <1>4, <1>5, <1>6, <1>7, <1>8, <1>9, <1>10, <1>11, <1>12, <1>13,
     <1>14, <1>15 DEF Next
-----------------------------------------------------------------------------
(* Theorems *)

\* The invariant holds initially: nothing was posted, said or stored.
LEMMA InvInit == Init => IInv
<1> SUFFICES ASSUME Init PROVE IInv
  OBVIOUS
<1>1. DOMAIN log = {} /\ log \in Seq(Event) /\ Len(log) = 0
  BY EmptySeq DEF Init
<1>2. TypeOK
  BY <1>1, FeedbackAssumption DEF Init, TypeOK, Home
<1>3. LogInv /\ HandlerInv /\ OpposeInv
  BY <1>1 DEF Init, LogInv, HandlerInv, OpposeInv
<1>4. PostInv /\ StoredInv /\ ExpectedInv /\ SideInv
  BY DEF Init, PostInv, StoredInv, ExpectedInv, SideInv
<1>5. RaceInv
  BY <1>1 DEF RaceInv, Handled
<1>6. \A u, m : Mine(u, m) = {} /\ Done(u, m) = {}
  BY <1>1 DEF Mine, Done
<1>7. OrderInv
  BY <1>6 DEF OrderInv
<1>8. \A u, m : LabelsOf(u, m) = {}
  BY DEF LabelsOf, Init
<1>9. Said(log, {}) = {}
  BY DEF Said
<1>10. MirrorInv
  BY <1>6, <1>8, <1>9 DEF MirrorInv, MirrorAt
<1> QED
  BY <1>2, <1>3, <1>4, <1>5, <1>7, <1>10 DEF IInv

\* Each step keeps the invariant, part by part.
LEMMA InvNext == IInv /\ [Next]_vars => IInv'
BY TypeNext, LogNext, PostNext, HandlerNext, StoredNext, ExpectedNext, RaceNext, SideNext,
   OpposeNext, OrderNext, MirrorNext DEF IInv

\* Every state of the system satisfies the inductive invariant.
THEOREM InvCorrect == Spec => []IInv
BY InvInit, InvNext, PTL DEF Spec

\* The types.
THEOREM TypeCorrect == Spec => []TypeOK
<1>1. IInv => TypeOK
  BY DEF IInv
<1> QED
  BY <1>1, InvCorrect, PTL

\* Posts record the side effect before the correlation that lets feedback in,
\* and records are lost together.
THEOREM SideEffectFirst == Spec => []FeedbackHasItsSideEffect
<1>1. IInv => FeedbackHasItsSideEffect
  BY DEF IInv, StoredInv, PostInv, FeedbackHasItsSideEffect
<1> QED
  BY <1>1, InvCorrect, PTL

\* A reaction to a message that was answered for is handled as one.
THEOREM NoOrphans == Spec => []AnsweredForIsNoOrphan
<1>1. IInv => AnsweredForIsNoOrphan
  BY DEF IInv, ExpectedInv, AnsweredForIsNoOrphan
<1> QED
  BY <1>1, InvCorrect, PTL

\* Only a race of two replicas leaves both sides of a user on a message.
THEOREM OneSide == Spec => []OneSideUnlessRaced
<1>1. IInv => OneSideUnlessRaced
  BY OppositionIsMutual DEF IInv, SideInv, OneSideUnlessRaced
<1> QED
  BY <1>1, InvCorrect, PTL

\* What a user's reactions say in the end, when all were handled in turn.
LEMMA SaidInTheEndIsSaid ==
  ASSUME TypeOK, NEW u \in User, NEW m \in Message
  PROVE  SaidInTheEnd(u, m) = Said(log, Mine(u, m))
<1> DEFINE D == Mine(u, m)
           mine == {n \in DOMAIN log : Whose(n) = <<u, m>> /\ LabelFor(n) # NoLabel}
           Lab(k) == LabelOf[log[k].emoji]
           Survives == {n \in D :
             /\ Lab(n) # NoLabel
             /\ log[n].type = "reaction_added"
             /\ \A k \in D : Lab(k) # NoLabel /\ k > n =>
                  IF log[k].type = "reaction_removed" THEN Lab(k) # Lab(n)
                  ELSE Lab(n) \notin Opposing(Lab(k))}
           Remains == {n \in mine :
             /\ log[n].type = "reaction_added"
             /\ \A k \in mine : k > n =>
                  IF log[k].type = "reaction_removed" THEN Lab(k) # Lab(n)
                  ELSE Scalar[Lab(k)] * Scalar[Lab(n)] >= 0}
<1>1. \A n : n \in mine <=> n \in D /\ Lab(n) # NoLabel
  BY DEF Mine, LabelFor
<1>2. \A n \in mine : Lab(n) \in Label
  BY LogDomain DEF LabelFor
<1>3. Said(log, D) = {Lab(n) : n \in Survives} /\ SaidInTheEnd(u, m) = {Lab(n) : n \in Remains}
  BY DEF Said, SaidInTheEnd, LabelFor
<1> HIDE DEF D, mine, Lab
<1>4. \A k, n \in mine : Lab(n) \notin Opposing(Lab(k)) <=> Scalar[Lab(k)] * Scalar[Lab(n)] >= 0
  BY <1>2, OppositionIsMutual
<1>5. Survives = Remains
  BY <1>1, <1>4
<1> QED
  BY <1>3, <1>5 DEF D

\* Reactions that come in turn, once each, and are handled to the end leave the
\* feedback that they say.
THEOREM Mirrors == Spec => []MirrorsTheLog
<1>1. IInv => MirrorsTheLog
  <2> SUFFICES ASSUME IInv, NEW u \in User, NEW m \in Message, <<u, m>> \notin spoiled,
                      \A n \in DOMAIN log : Whose(n) = <<u, m>> => pc[n] = "done"
               PROVE  LabelsOf(u, m) = SaidInTheEnd(u, m)
    BY DEF MirrorsTheLog
  <2>1. \A n \in Mine(u, m) : pc[n] = "done"
    BY DEF Mine
  <2>2. Done(u, m) = Mine(u, m)
    BY <2>1 DEF Done
  <2>3. LabelsOf(u, m) = Said(log, Done(u, m))
    BY <2>1 DEF IInv, MirrorInv, MirrorAt
  <2> QED
    BY <2>2, <2>3, SaidInTheEndIsSaid DEF IInv
<1> QED
  BY <1>1, InvCorrect, PTL

=============================================================================
