---------------------------- MODULE HandoffProofs ----------------------------
(***************************************************************************)
(* Proofs about Handoff for every set of conversations, leads and admins,  *)
(* and any number of attempts, pauses and faults.                          *)
(***************************************************************************)
EXTENDS HandoffProperties, TLAPS

\* The actions that touch neither the handoff rows nor the leads.
Worker ==
  \/ \E c \in Conversation : Attempt(c)
  \/ Crash
  \/ \E a \in Admin : MessageSettles(a)

Closes(c) == Release(c) \/ TornRelease(c)

-----------------------------------------------------------------------------
(* What a step may do to the handoff of a conversation. *)

\* What pausing does: a live row stays, an absent one is opened for the cause.
LEMMA PauseOpensOne ==
  ASSUME TypeOK, NEW c \in Conversation, NEW cause \in Lead \cup {ByHand}, Pause(c, cause)
  PROVE  /\ live' \in [Conversation -> Seq(Lead \cup {ByHand})]
         /\ pauses' \in [Conversation -> Nat]
         /\ Paused(c)'
         /\ \A d \in Conversation : d # c \/ Paused(c) =>
              live'[d] = live[d] /\ pauses'[d] = pauses[d]
         /\ ~Paused(c) => live'[c] = <<cause>>
<1>1. CASE Paused(c)
  BY <1>1 DEF Pause, TypeOK, Paused
<1>2. CASE ~Paused(c)
  <2>1. Append(live[c], cause) = <<cause>>
    <3>1. live[c] = <<>>
      BY <1>2 DEF Paused
    <3>2. Append(<<>>, cause) = <<cause>>
      OBVIOUS
    <3>3. QED BY <3>1, <3>2
  <2>2. live' = [live EXCEPT ![c] = <<cause>>] /\ <<cause>> \in Seq(Lead \cup {ByHand})
    BY <1>2, <2>1 DEF Pause
  <2>3. live'[c] = <<cause>> /\ <<cause>> # <<>>
    BY <2>2 DEF TypeOK
  <2>4. pauses' = [pauses EXCEPT ![c] = @ + 1]
    BY <1>2 DEF Pause
  <2>5. pauses' \in [Conversation -> Nat]
    BY <2>4 DEF TypeOK
  <2>6. QED
    BY <1>2, <2>2, <2>3, <2>4, <2>5 DEF TypeOK, Paused
<1>3. QED BY <1>1, <1>2

\* A mark of yes or no for one conversation.
LEMMA MarkOne ==
  ASSUME NEW f \in [Conversation -> BOOLEAN], NEW c \in Conversation, NEW b \in BOOLEAN
  PROVE  /\ [f EXCEPT ![c] = b] \in [Conversation -> BOOLEAN]
         /\ [f EXCEPT ![c] = b][c] = b
         /\ \A d \in Conversation \ {c} : [f EXCEPT ![c] = b][d] = f[d]
BY Zenon

\* The histories, each with its type.
LEMMA Marks ==
  TypeOK => /\ byHand \in [Conversation -> BOOLEAN] /\ freed \in [Conversation -> BOOLEAN]
            /\ leftover \in [Conversation -> BOOLEAN] /\ requeued \in [Conversation -> BOOLEAN]
            /\ spoken \in [Conversation -> Nat] /\ sorry \in [Conversation -> Nat]
            /\ mishaps \in [Conversation -> Nat]
BY DEF TypeOK

\* What closing does, torn or not: no row is live, and the counts are zero again.
LEMMA ClosingClosesAll ==
  ASSUME TypeOK, NEW c \in Conversation, Closes(c)
  PROVE  /\ live' \in [Conversation -> Seq(Lead \cup {ByHand})]
         /\ spoken' \in [Conversation -> Nat] /\ sorry' \in [Conversation -> Nat]
         /\ mishaps' \in [Conversation -> Nat]
         /\ requeued' \in [Conversation -> BOOLEAN]
         /\ ~Paused(c)' /\ spoken'[c] = 0 /\ sorry'[c] = 0 /\ mishaps'[c] = 0
         /\ \A d \in Conversation \ {c} :
              /\ live'[d] = live[d] /\ requeued'[d] = requeued[d]
              /\ spoken'[d] = spoken[d] /\ sorry'[d] = sorry[d] /\ mishaps'[d] = mishaps[d]
<1>1. /\ live' = [live EXCEPT ![c] = <<>>] /\ requeued' = [requeued EXCEPT ![c] = FALSE]
      /\ spoken' = [spoken EXCEPT ![c] = 0] /\ sorry' = [sorry EXCEPT ![c] = 0]
      /\ mishaps' = [mishaps EXCEPT ![c] = 0]
  BY DEF Closes, Release, TornRelease, CloseRows
<1>2. <<>> \in Seq(Lead \cup {ByHand})
  OBVIOUS
<1>3. /\ requeued' \in [Conversation -> BOOLEAN]
      /\ \A d \in Conversation \ {c} : requeued'[d] = requeued[d]
  BY <1>1, MarkOne, Marks
<1>4. QED BY <1>1, <1>2, <1>3, Marks DEF TypeOK, Paused

\* What closing does to the session: it is dropped, or the release is marked.
LEMMA ClosingForgets ==
  ASSUME TypeOK, NEW c \in Conversation, Closes(c)
  PROVE  /\ session' \in [Conversation -> Nat] /\ leftover' \in [Conversation -> BOOLEAN]
         /\ Paused(c) => leftover'[c] \/ (session'[c] = 0 /\ turn[c] \notin Asked)
         /\ ~Paused(c) => session'[c] = session[c] /\ leftover'[c] = leftover[c]
         /\ \A d \in Conversation \ {c} : session'[d] = session[d] /\ leftover'[d] = leftover[d]
<1>1. CASE Release(c)
  <2>1. PICK b \in BOOLEAN : /\ leftover' = [leftover EXCEPT ![c] = b]
                             /\ b = IF Paused(c) THEN turn[c] \in Asked ELSE leftover[c]
    <3>1. leftover[c] \in BOOLEAN /\ (turn[c] \in Asked) \in BOOLEAN
      BY Marks
    <3>2. leftover' = [leftover EXCEPT ![c] = IF Paused(c) THEN turn[c] \in Asked ELSE @]
      BY <1>1 DEF Release
    <3>3. CASE Paused(c)
      <4>1. leftover' = [leftover EXCEPT ![c] = turn[c] \in Asked]
        BY <3>2, <3>3, Zenon
      <4>2. QED BY <3>1, <3>3, <4>1, Zenon
    <3>4. CASE ~Paused(c)
      <4>1. leftover' = [leftover EXCEPT ![c] = leftover[c]]
        BY <3>2, <3>4, Zenon
      <4>2. QED BY <3>1, <3>4, <4>1, Zenon
    <3>5. QED BY <3>3, <3>4
  <2>2. /\ leftover' \in [Conversation -> BOOLEAN] /\ leftover'[c] = b
        /\ \A d \in Conversation \ {c} : leftover'[d] = leftover[d]
    BY <2>1, MarkOne, Marks
  <2>3. session' = [session EXCEPT ![c] = IF Paused(c) THEN 0 ELSE @]
    BY <1>1 DEF Release
  <2>4. /\ session' \in [Conversation -> Nat]
        /\ \A d \in Conversation :
             session'[d] = IF d = c /\ Paused(c) THEN 0 ELSE session[d]
    BY <2>3 DEF TypeOK
  <2>5. QED BY <2>1, <2>2, <2>4, Zenon
<1>2. CASE TornRelease(c)
  <2>1. /\ leftover' = [leftover EXCEPT ![c] = TRUE] /\ session' = session /\ Paused(c)
    BY <1>2 DEF TornRelease
  <2>2. /\ leftover' \in [Conversation -> BOOLEAN] /\ leftover'[c] = TRUE
        /\ \A d \in Conversation \ {c} : leftover'[d] = leftover[d]
    BY <2>1, MarkOne, Marks
  <2>3. session' \in [Conversation -> Nat]
    BY <2>1 DEF TypeOK
  <2>4. QED BY <2>1, <2>2, <2>3
<1>3. QED BY <1>1, <1>2 DEF Closes

\* A fault is counted once, and only where a human has the conversation.
LEMMA FaultCounts ==
  ASSUME TypeOK, NEW c \in Conversation, Fault(c)
  PROVE  /\ faults' \in 0 .. MaxFaults /\ mishaps' \in [Conversation -> Nat]
         /\ Paused(c) => mishaps'[c] = mishaps[c] + 1
         /\ \A d \in Conversation : d # c \/ ~Paused(c) => mishaps'[d] = mishaps[d]
BY HandoffAssumption, Marks DEF Fault, TypeOK

\* The attempts, a crash and the end of a send leave the rows and leads alone.
LEMMA WorkerLeavesHandoff ==
  ASSUME Worker
  PROVE  UNCHANGED <<live, pauses, lead, byHand, freed, leftover, requeued>>
BY DEF Worker, Attempt, Arrive, Abandon, Claim, Start, StaySilent, RefuseTurn, BeginTurn, Ask,
   AskAfresh, QueryEnds, AskFails, StoreRefused, Answer, Deliver, DeliverFails, Settle, SettleFails,
   Retry, FailForGood, CatchRefused, Apologise, Crash, MessageSettles, record, history, attempt

-----------------------------------------------------------------------------
(* Types *)

\* What an attempt may do to its own variables.
LEMMA AttemptTypes ==
  ASSUME TypeOK, NEW c \in Conversation, Attempt(c)
  PROVE  /\ waiting' \in [Conversation -> BOOLEAN] /\ tries' \in [Conversation -> 0 .. MaxAttempts]
         /\ turn' \in [Conversation -> Working \cup {"idle"}]
         /\ since' \in [Conversation -> Nat] /\ session' \in [Conversation -> Nat]
<1>1. ASSUME NEW at \in Working \cup {"idle"}
      PROVE  [turn EXCEPT ![c] = at] \in [Conversation -> Working \cup {"idle"}]
  BY DEF TypeOK
<1>2. ASSUME NEW n \in Nat
      PROVE  /\ [since EXCEPT ![c] = n] \in [Conversation -> Nat]
             /\ [session EXCEPT ![c] = n] \in [Conversation -> Nat]
  BY DEF TypeOK
<1>3. [tries EXCEPT ![c] = 0] \in [Conversation -> 0 .. MaxAttempts]
  BY HandoffAssumption DEF TypeOK
<1>4. tries[c] < MaxAttempts
        => [tries EXCEPT ![c] = @ + 1] \in [Conversation -> 0 .. MaxAttempts]
  BY HandoffAssumption DEF TypeOK
<1>5. /\ [waiting EXCEPT ![c] = TRUE] \in [Conversation -> BOOLEAN]
      /\ [waiting EXCEPT ![c] = FALSE] \in [Conversation -> BOOLEAN]
  BY MarkOne DEF TypeOK
<1>6. /\ waiting \in [Conversation -> BOOLEAN] /\ tries \in [Conversation -> 0 .. MaxAttempts]
      /\ turn \in [Conversation -> Working \cup {"idle"}]
      /\ since \in [Conversation -> Nat] /\ session \in [Conversation -> Nat]
      /\ session[c] \in Nat /\ since[c] \in Nat /\ Fresh(c) \in Nat
  BY DEF TypeOK, Fresh
<1>7. CASE Arrive(c)
  BY <1>7, <1>5, <1>6 DEF Arrive, record
<1>8. CASE Abandon(c) \/ StaySilent(c) \/ RefuseTurn(c)
  BY <1>8, <1>1, <1>3, <1>4, <1>5, <1>6
  DEF Abandon, StaySilent, RefuseTurn, Start, Claim, Working, record
<1>9. CASE BeginTurn(c)
  <2>1. tries' \in [Conversation -> 0 .. MaxAttempts] /\ waiting' \in [Conversation -> BOOLEAN]
    BY <1>9, <1>4, <1>5 DEF BeginTurn, Start, Claim
  <2>2. session' = session
    BY <1>9 DEF BeginTurn, Ask, record
  <2>3. \E at \in {"asking", "resuming"}, n \in Nat :
          turn' = [turn EXCEPT ![c] = at] /\ since' = [since EXCEPT ![c] = n]
    BY <1>9, <1>6 DEF BeginTurn, Ask
  <2>4. QED BY <1>1, <1>2, <1>6, <2>1, <2>2, <2>3 DEF Working
<1>10. CASE AskAfresh(c)
  BY <1>10, <1>1, <1>2, <1>6 DEF AskAfresh, Working
<1>11. CASE AskFails(c) \/ StoreRefused(c)
  BY <1>11, <1>1, <1>2, <1>6 DEF AskFails, StoreRefused, QueryEnds, Working
<1>12. CASE Answer(c)
  BY <1>12, <1>1, <1>2, <1>6 DEF Answer, QueryEnds, Working
<1>13. CASE Deliver(c) \/ Settle(c) \/ SettleFails(c) \/ Apologise(c)
  BY <1>13, <1>1, <1>3, <1>6 DEF Deliver, Settle, SettleFails, Apologise, Working, record
<1>14. CASE DeliverFails(c)
  <2>1. \E at \in {"read", "failing"} : turn' = [turn EXCEPT ![c] = at]
    BY <1>14, Zenon DEF DeliverFails
  <2>2. QED BY <1>14, <1>1, <1>6, <2>1 DEF DeliverFails, Working, record
<1>15. CASE Retry(c) \/ FailForGood(c) \/ CatchRefused(c)
  BY <1>15, <1>1, <1>3, <1>5, <1>6 DEF Retry, FailForGood, CatchRefused, Working, record
<1>16. QED
  BY <1>7, <1>8, <1>9, <1>10, <1>11, <1>12, <1>13, <1>14, <1>15 DEF Attempt

\* What an attempt may do to the counts.
LEMMA AttemptCounts ==
  ASSUME TypeOK, NEW c \in Conversation, Attempt(c)
  PROVE  /\ spoken' \in [Conversation -> Nat] /\ sorry' \in [Conversation -> Nat]
         /\ mishaps' \in [Conversation -> Nat] /\ faults' \in 0 .. MaxFaults
         /\ sending' = sending
<1>1. CASE StoreRefused(c) \/ SettleFails(c) \/ CatchRefused(c)
  BY <1>1, FaultCounts, Marks DEF StoreRefused, QueryEnds, SettleFails, CatchRefused, said
<1>2. CASE Deliver(c)
  <2>1. [spoken EXCEPT ![c] = IF Paused(c) THEN @ + 1 ELSE @] \in [Conversation -> Nat]
    BY Marks
  <2>2. QED BY <1>2, <2>1, Marks DEF Deliver, fault, TypeOK
<1>3. CASE Apologise(c)
  <2>1. [sorry EXCEPT ![c] = IF Paused(c) THEN @ + 1 ELSE @] \in [Conversation -> Nat]
    BY Marks
  <2>2. QED BY <1>3, <2>1, Marks DEF Apologise, fault, TypeOK
<1>4. CASE \/ Arrive(c) \/ Abandon(c) \/ StaySilent(c) \/ RefuseTurn(c) \/ BeginTurn(c)
           \/ AskAfresh(c) \/ AskFails(c) \/ Answer(c) \/ DeliverFails(c) \/ Settle(c)
           \/ Retry(c) \/ FailForGood(c)
  BY <1>4, Marks
  DEF Arrive, Abandon, StaySilent, RefuseTurn, BeginTurn, Ask, AskAfresh, AskFails, Answer,
      QueryEnds, DeliverFails, Settle, Retry, FailForGood, said, fault, TypeOK
<1>5. QED BY <1>1, <1>2, <1>3, <1>4 DEF Attempt

\* Every step keeps the types.
LEMMA TypeStep == TypeOK /\ [Next]_vars => TypeOK'
<1> SUFFICES ASSUME TypeOK, [Next]_vars PROVE TypeOK'
  OBVIOUS
<1>1. ASSUME NEW c \in Conversation, Attempt(c) PROVE TypeOK'
  <2>1. Worker
    BY <1>1 DEF Worker
  <2>2. QED
    BY <1>1, <2>1, AttemptTypes, AttemptCounts, WorkerLeavesHandoff DEF TypeOK
<1>2. ASSUME NEW l \in Lead, SaveLead(l) PROVE TypeOK'
  BY <1>2 DEF TypeOK, SaveLead, attempt, said, fault, history
<1>3. ASSUME NEW c \in Conversation, PauseRoute(c) PROVE TypeOK'
  <2>1. byHand' \in [Conversation -> BOOLEAN]
    BY <1>3, MarkOne, Marks DEF PauseRoute
  <2>2. QED BY <1>3, <2>1, PauseOpensOne DEF TypeOK, PauseRoute, attempt, said, fault
<1>4. ASSUME NEW c \in Conversation, ReleaseRoute(c) PROVE TypeOK'
  <2>1. byHand' \in [Conversation -> BOOLEAN] /\ freed' \in [Conversation -> BOOLEAN]
    BY <1>4, MarkOne, Marks DEF ReleaseRoute
  <2>2. Closes(c)
    BY <1>4 DEF ReleaseRoute, Closes
  <2>3. faults' \in 0 .. MaxFaults
    BY <1>4, HandoffAssumption DEF ReleaseRoute, Release, TornRelease, TypeOK
  <2>4. QED BY <1>4, <2>1, <2>2, <2>3, ClosingClosesAll, ClosingForgets
            DEF TypeOK, ReleaseRoute, attempt
<1>5. ASSUME NEW a \in Admin, NEW c \in Conversation, MessageRoute(a, c) PROVE TypeOK'
  <2>1. byHand' \in [Conversation -> BOOLEAN]
    BY <1>5, MarkOne, Marks DEF MessageRoute
  <2>2. QED BY <1>5, <2>1, PauseOpensOne DEF TypeOK, MessageRoute, attempt, said, fault
<1>6. ASSUME NEW a \in Admin, MessageSettles(a) PROVE TypeOK'
  BY <1>6 DEF TypeOK, MessageSettles, record, attempt, said, fault, history
<1>7. ASSUME NEW l \in Lead, TakeLead(l) PROVE TypeOK'
  <2>1. ConversationOf[l] \in Conversation
    BY <1>7, HandoffAssumption DEF TakeLead
  <2>2. QED BY <1>7, <2>1, PauseOpensOne DEF TypeOK, TakeLead, SetLead, attempt, said, fault, history
<1>8. ASSUME NEW l \in Lead, TornTake(l) PROVE TypeOK'
  <2>1. ConversationOf[l] \in Conversation
    BY <1>8, HandoffAssumption DEF TornTake
  <2>2. (freed[ConversationOf[l]] \/ ~Paused(ConversationOf[l])) \in BOOLEAN
    OBVIOUS
  <2>3. freed' \in [Conversation -> BOOLEAN]
    BY <1>8, <2>1, <2>2, MarkOne, Marks DEF TornTake
  <2>4. QED BY <1>8, <2>1, <2>3, FaultCounts DEF TypeOK, TornTake, SetLead, attempt, said
<1>9. ASSUME NEW l \in Lead, HandBackLead(l) PROVE TypeOK'
  <2>1. ConversationOf[l] \in Conversation
    BY <1>9, HandoffAssumption DEF HandBackLead
  <2>2. CASE MayHandBack(l, ConversationOf[l])
    <3>1. Closes(ConversationOf[l]) /\ freed' = [freed EXCEPT ![ConversationOf[l]] = FALSE]
      BY <1>9, <2>2 DEF HandBackLead, Closes
    <3>2. freed' \in [Conversation -> BOOLEAN]
      BY <2>1, <3>1, MarkOne, Marks
    <3>3. faults' \in 0 .. MaxFaults
      BY <3>1, HandoffAssumption DEF Closes, Release, TornRelease, TypeOK
    <3>4. QED
      BY <1>9, <2>1, <3>1, <3>2, <3>3, ClosingClosesAll, ClosingForgets
      DEF TypeOK, HandBackLead, SetLead, attempt
  <2>3. CASE ~MayHandBack(l, ConversationOf[l])
    BY <1>9, <2>3 DEF TypeOK, HandBackLead, SetLead, attempt, said, fault
  <2>4. QED BY <2>2, <2>3
<1>10. ASSUME NEW l \in Lead, TornHandBack(l) PROVE TypeOK'
  <2>1. ConversationOf[l] \in Conversation
    BY <1>10, HandoffAssumption DEF TornHandBack
  <2>2. requeued' \in [Conversation -> BOOLEAN]
    BY <1>10, <2>1, MarkOne, Marks DEF TornHandBack
  <2>3. QED BY <1>10, <2>1, <2>2, FaultCounts DEF TypeOK, TornHandBack, SetLead, attempt, said
<1>11. ASSUME NEW l \in Lead, NEW status \in {"new", "in_progress", "closed"},
              MoveLead(l, status)
       PROVE  TypeOK'
  <2>1. requeued' \in [Conversation -> BOOLEAN]
    BY <1>11, HandoffAssumption, MarkOne, Marks DEF MoveLead
  <2>2. QED BY <1>11, <2>1 DEF TypeOK, MoveLead, SetLead, attempt, said, fault
<1>12. CASE Crash
  <2>1. waiting' \in [Conversation -> BOOLEAN]
    <3>1. \A c \in Conversation : (waiting[c] \/ turn[c] \notin {"idle", "apologising"}) \in BOOLEAN
      OBVIOUS
    <3>2. QED BY <1>12, <3>1, Zenon DEF Crash
  <2>2. faults' \in 0 .. MaxFaults /\ mishaps' \in [Conversation -> Nat]
    <3>1. \A c \in Conversation : (IF Paused(c) THEN mishaps[c] + 1 ELSE mishaps[c]) \in Nat
      BY Marks
    <3>2. mishaps' = [c \in Conversation |-> IF Paused(c) THEN mishaps[c] + 1 ELSE mishaps[c]]
      BY <1>12 DEF Crash
    <3>3. faults' \in 0 .. MaxFaults
      BY <1>12, HandoffAssumption DEF TypeOK, Crash
    <3>4. QED BY <3>1, <3>2, <3>3
  <2>3. turn' \in [Conversation -> Working \cup {"idle"}] /\ since' \in [Conversation -> Nat]
        /\ sending' \in [Admin -> Conversation \cup {Nobody}]
    BY <1>12 DEF Crash
  <2>4. QED BY <1>12, <2>1, <2>2, <2>3 DEF TypeOK, Crash, record, said, history
<1>13. CASE UNCHANGED vars
  BY <1>13 DEF TypeOK, vars, record, attempt, said, fault, history
<1>14. QED
  BY <1>1, <1>2, <1>3, <1>4, <1>5, <1>6, <1>7, <1>8, <1>9, <1>10, <1>11, <1>12, <1>13
  DEF Next, Console

-----------------------------------------------------------------------------
(* The agent falls silent *)

\* The part of the invariant that says so, of one conversation.
Silent(c) ==
  /\ Paused(c) => spoken[c] = 0
                  \/ (spoken[c] = 1 /\ turn[c] \notin {"noticing", "resuming", "asking", "delivering"})
  /\ Paused(c) => spoken[c] + sorry[c] <= 1 + mishaps[c]
  /\ Paused(c) /\ MaySpeak(c) => spoken[c] + sorry[c] <= mishaps[c]
  /\ ~Paused(c) => spoken[c] = 0 /\ sorry[c] = 0 /\ mishaps[c] = 0
  /\ turn[c] = "apologising" => tries[c] = 0

AllSilent == \A c \in Conversation : Silent(c)

\* The same, conversation by conversation.
LEMMA SilentParts ==
  AllSilent <=> AnswersOnce /\ WordsArePaidFor /\ CountsAreOfThePause /\ GivenUpIsForgotten
BY DEF AllSilent, Silent, AnswersOnce, WordsArePaidFor, CountsAreOfThePause, GivenUpIsForgotten

\* The invariant is what the property needs, and more.
LEMMA SilenceFollows ==
  TypeOK /\ AnswersOnce /\ WordsArePaidFor => AgentFallsSilent
BY Marks DEF AnswersOnce, WordsArePaidFor, AgentFallsSilent

\* A conversation in which nothing is said or claimed, but perhaps a fault counted.
LEMMA SilentElsewhere ==
  ASSUME TypeOK, NEW d \in Conversation, Silent(d),
         live'[d] = live[d], turn'[d] = turn[d], tries'[d] = tries[d],
         spoken'[d] = spoken[d], sorry'[d] = sorry[d],
         mishaps'[d] = mishaps[d] \/ (Paused(d) /\ mishaps'[d] = mishaps[d] + 1)
  PROVE  Silent(d)'
<1>1. spoken[d] \in Nat /\ sorry[d] \in Nat /\ mishaps[d] \in Nat
  BY Marks
<1>2. QED BY <1>1 DEF Silent, MaySpeak, Paused

\* What an attempt does to the others: nothing.
LEMMA AttemptElsewhere ==
  ASSUME TypeOK, NEW c \in Conversation, Attempt(c), NEW d \in Conversation \ {c}
  PROVE  /\ turn'[d] = turn[d] /\ tries'[d] = tries[d] /\ since'[d] = since[d]
         /\ session'[d] = session[d]
         /\ spoken'[d] = spoken[d] /\ sorry'[d] = sorry[d] /\ mishaps'[d] = mishaps[d]
BY DEF TypeOK, Attempt, Arrive, Abandon, Claim, Start, StaySilent, RefuseTurn, BeginTurn, Ask,
   AskAfresh, QueryEnds, AskFails, StoreRefused, Answer, Deliver, DeliverFails, Settle,
   SettleFails, Retry, FailForGood, CatchRefused, Apologise, Fault, record, said, fault

\* The attempt itself: what it still may say is paid for at every step.
LEMMA AttemptSilent ==
  ASSUME TypeOK, NEW c \in Conversation, Attempt(c), Silent(c)
  PROVE  Silent(c)'
<1>1. /\ spoken[c] \in Nat /\ sorry[c] \in Nat /\ mishaps[c] \in Nat
      /\ tries[c] \in 0 .. MaxAttempts /\ MaxAttempts \in Nat \ {0}
  BY Marks, HandoffAssumption DEF TypeOK
<1>2. Paused(c)' = Paused(c)
  BY WorkerLeavesHandoff DEF Worker, Paused
<1>3. CASE Arrive(c)
  BY <1>3, <1>1, SilentElsewhere DEF Arrive, record, said, fault
<1>4. CASE Abandon(c)
  <2>1. /\ tries[c] = MaxAttempts /\ turn[c] = "idle" /\ tries'[c] = 0
        /\ turn'[c] = "apologising" /\ spoken' = spoken /\ sorry' = sorry /\ mishaps' = mishaps
    BY <1>4 DEF Abandon, Claim, TypeOK, said, fault
  <2>2. QED BY <1>1, <1>2, <2>1 DEF Silent, MaySpeak
<1>5. CASE StaySilent(c) \/ RefuseTurn(c) \/ BeginTurn(c)
  <2>1. /\ turn'[c] = "read" \/ (~Paused(c) /\ turn'[c] # "apologising")
        /\ turn[c] = "idle" /\ spoken' = spoken /\ sorry' = sorry /\ mishaps' = mishaps
    BY <1>5 DEF StaySilent, RefuseTurn, BeginTurn, Ask, Start, Claim, TypeOK, said, fault
  <2>2. QED BY <1>1, <1>2, <2>1 DEF Silent, MaySpeak, Working
<1>6. CASE AskAfresh(c) \/ AskFails(c) \/ Answer(c)
  <2>1. /\ turn[c] \in Asked /\ turn'[c] \in {"asking", "failing", "delivering"}
        /\ spoken' = spoken /\ sorry' = sorry /\ mishaps' = mishaps
    BY <1>6 DEF AskAfresh, AskFails, Answer, QueryEnds, Asked, TypeOK, said, fault
  <2>2. QED BY <1>1, <1>2, <2>1 DEF Silent, MaySpeak, Working, Asked
<1>7. CASE StoreRefused(c)
  <2>1. /\ turn[c] \in Asked /\ turn'[c] = "failing" /\ spoken' = spoken /\ sorry' = sorry
        /\ mishaps'[c] = IF Paused(c) THEN mishaps[c] + 1 ELSE mishaps[c]
    BY <1>7, FaultCounts DEF StoreRefused, QueryEnds, TypeOK, said
  <2>2. QED BY <1>1, <1>2, <2>1 DEF Silent, MaySpeak, Working, Asked
<1>8. CASE Deliver(c)
  <2>1. /\ turn[c] \in {"noticing", "delivering"} /\ turn'[c] = "read"
        /\ spoken'[c] = IF Paused(c) THEN spoken[c] + 1 ELSE spoken[c]
        /\ sorry' = sorry /\ mishaps' = mishaps
    BY <1>8 DEF Deliver, TypeOK, fault
  <2>2. QED BY <1>1, <1>2, <2>1 DEF Silent, MaySpeak, Working
<1>9. CASE DeliverFails(c)
  <2>1. /\ turn[c] \in {"noticing", "delivering"} /\ turn'[c] \in {"read", "failing"}
        /\ spoken' = spoken /\ sorry' = sorry /\ mishaps' = mishaps
    BY <1>9 DEF DeliverFails, TypeOK, said, fault
  <2>2. QED BY <1>1, <1>2, <2>1 DEF Silent, MaySpeak, Working
<1>10. CASE Settle(c)
  <2>1. /\ turn'[c] = "idle" /\ tries'[c] = 0
        /\ spoken' = spoken /\ sorry' = sorry /\ mishaps' = mishaps
    BY <1>10 DEF Settle, TypeOK, said, fault
  <2>2. QED BY <1>1, <1>2, <2>1 DEF Silent, MaySpeak, Working
<1>11. CASE SettleFails(c)
  <2>1. /\ turn[c] = "read" /\ turn'[c] = "failing" /\ spoken' = spoken /\ sorry' = sorry
        /\ mishaps'[c] = IF Paused(c) THEN mishaps[c] + 1 ELSE mishaps[c]
    BY <1>11, FaultCounts DEF SettleFails, TypeOK, said
  <2>2. QED BY <1>1, <1>2, <2>1 DEF Silent, MaySpeak, Working
<1>12. CASE Retry(c)
  <2>1. /\ turn'[c] = "idle" /\ tries'[c] < MaxAttempts /\ turn[c] = "failing"
        /\ spoken' = spoken /\ sorry' = sorry /\ mishaps' = mishaps
    BY <1>12 DEF Retry, TypeOK, said, fault
  <2>2. QED BY <1>1, <1>2, <2>1 DEF Silent, MaySpeak, Working
<1>13. CASE FailForGood(c)
  <2>1. /\ turn[c] = "failing" /\ turn'[c] = "apologising" /\ tries'[c] = 0
        /\ spoken' = spoken /\ sorry' = sorry /\ mishaps' = mishaps
    BY <1>13 DEF FailForGood, TypeOK, said, fault
  <2>2. QED BY <1>1, <1>2, <2>1 DEF Silent, MaySpeak, Working
<1>14. CASE CatchRefused(c)
  <2>1. /\ turn[c] = "failing" /\ turn'[c] = "idle" /\ spoken' = spoken /\ sorry' = sorry
        /\ mishaps'[c] = IF Paused(c) THEN mishaps[c] + 1 ELSE mishaps[c]
    BY <1>14, FaultCounts DEF CatchRefused, TypeOK, said
  <2>2. QED BY <1>1, <1>2, <2>1 DEF Silent, MaySpeak, Working
<1>15. CASE Apologise(c)
  <2>1. /\ turn[c] = "apologising" /\ turn'[c] = "idle" /\ tries' = tries
        /\ sorry'[c] = sorry[c] \/ (Paused(c) /\ sorry'[c] = sorry[c] + 1)
        /\ spoken' = spoken /\ mishaps' = mishaps
    BY <1>15, Marks DEF Apologise, TypeOK, fault
  <2>2. QED BY <1>1, <1>2, <2>1 DEF Silent, MaySpeak, Working
<1>16. QED
  BY <1>3, <1>4, <1>5, <1>6, <1>7, <1>8, <1>9, <1>10, <1>11, <1>12, <1>13, <1>14, <1>15
  DEF Attempt

\* Every step keeps the agent silent, in every conversation.
LEMMA SilentStep == TypeOK /\ AllSilent /\ [Next]_vars => AllSilent'
<1> SUFFICES ASSUME TypeOK, AllSilent, [Next]_vars, NEW d \in Conversation PROVE Silent(d)'
  BY DEF AllSilent
<1>1. Silent(d) /\ spoken[d] \in Nat /\ sorry[d] \in Nat /\ mishaps[d] \in Nat
  BY Marks DEF AllSilent
<1>2. ASSUME UNCHANGED <<live, turn, tries, spoken, sorry, mishaps>> PROVE Silent(d)'
  BY <1>1, <1>2, SilentElsewhere
<1>3. ASSUME NEW c \in Conversation, NEW cause \in Lead \cup {ByHand}, Pause(c, cause),
             UNCHANGED <<turn, tries, spoken, sorry, mishaps>>
      PROVE  Silent(d)'
  <2>1. CASE d # c \/ Paused(c)
    BY <1>1, <1>3, <2>1, PauseOpensOne, SilentElsewhere
  <2>2. CASE d = c /\ ~Paused(c)
    BY <1>1, <1>3, <2>2, PauseOpensOne DEF Silent
  <2>3. QED BY <2>1, <2>2
<1>4. ASSUME NEW c \in Conversation, Closes(c), UNCHANGED <<turn, tries>> PROVE Silent(d)'
  <2>1. CASE d = c
    BY <1>1, <1>4, <2>1, ClosingClosesAll DEF Silent
  <2>2. CASE d # c
    BY <1>1, <1>4, <2>2, ClosingClosesAll, SilentElsewhere
  <2>3. QED BY <2>1, <2>2
<1>5. ASSUME NEW c \in Conversation, Fault(c), UNCHANGED <<live, turn, tries, spoken, sorry>>
      PROVE  Silent(d)'
  BY <1>1, <1>5, FaultCounts, SilentElsewhere
<1>6. ASSUME NEW c \in Conversation, Attempt(c) PROVE Silent(d)'
  <2>1. CASE d = c
    BY <1>1, <1>6, <2>1, AttemptSilent
  <2>2. CASE d # c
    BY <1>1, <1>6, <2>2, AttemptElsewhere, WorkerLeavesHandoff, SilentElsewhere DEF Worker
  <2>3. QED BY <2>1, <2>2
<1>7. ASSUME NEW c \in Conversation, PauseRoute(c) \/ \E a \in Admin : MessageRoute(a, c)
      PROVE  Silent(d)'
  BY <1>3, <1>7 DEF PauseRoute, MessageRoute, attempt, said, fault
<1>8. ASSUME NEW c \in Conversation, ReleaseRoute(c) PROVE Silent(d)'
  BY <1>4, <1>8 DEF ReleaseRoute, Closes, attempt
<1>9. ASSUME NEW l \in Lead, TakeLead(l) PROVE Silent(d)'
  BY <1>3, <1>9, HandoffAssumption DEF TakeLead, attempt, said, fault
<1>10. ASSUME NEW l \in Lead, TornTake(l) \/ TornHandBack(l) PROVE Silent(d)'
  BY <1>5, <1>10, HandoffAssumption DEF TornTake, TornHandBack, attempt, said
<1>11. ASSUME NEW l \in Lead, HandBackLead(l) PROVE Silent(d)'
  <2>1. ConversationOf[l] \in Conversation /\ UNCHANGED <<turn, tries>>
    BY <1>11, HandoffAssumption DEF HandBackLead, attempt
  <2>2. CASE MayHandBack(l, ConversationOf[l])
    BY <1>4, <1>11, <2>1, <2>2 DEF HandBackLead, Closes
  <2>3. CASE ~MayHandBack(l, ConversationOf[l])
    BY <1>2, <1>11, <2>1, <2>3 DEF HandBackLead, said, fault
  <2>4. QED BY <2>2, <2>3
<1>12. ASSUME \/ \E l \in Lead : SaveLead(l)
              \/ \E l \in Lead, status \in {"new", "in_progress", "closed"} : MoveLead(l, status)
              \/ \E a \in Admin : MessageSettles(a)
              \/ UNCHANGED vars
       PROVE  Silent(d)'
  BY <1>2, <1>12 DEF SaveLead, MoveLead, MessageSettles, vars, record, attempt, said, fault
<1>13. CASE Crash
  <2>1. /\ live' = live /\ turn'[d] = "idle" /\ spoken' = spoken /\ sorry' = sorry
        /\ mishaps'[d] = IF Paused(d) THEN mishaps[d] + 1 ELSE mishaps[d]
    BY <1>13 DEF Crash, record, said
  <2>2. Paused(d)' = Paused(d) /\ turn'[d] \notin Asked
    BY <2>1 DEF Paused, Asked
  <2>3. CASE Paused(d)
    BY <1>1, <2>1, <2>2, <2>3 DEF Silent
  <2>4. CASE ~Paused(d)
    BY <1>1, <2>1, <2>2, <2>4 DEF Silent
  <2>5. QED BY <2>3, <2>4
<1>14. QED
  BY <1>6, <1>7, <1>8, <1>9, <1>10, <1>11, <1>12, <1>13 DEF Next, Console

-----------------------------------------------------------------------------
(* The session *)

\* The part of the invariant that says so, of one conversation.
Current(c) ==
  ~Paused(c) /\ ~leftover[c] =>
    /\ session[c] # 0 => session[c] = pauses[c] + 1
    /\ turn[c] \in Asked => since[c] = pauses[c] + 1

AllCurrent == \A c \in Conversation : Current(c)

\* The same, conversation by conversation.
LEMMA CurrentParts == AllCurrent <=> SessionForgetsHandoff /\ AttemptIsCurrent
BY DEF AllCurrent, Current, SessionForgetsHandoff, AttemptIsCurrent

\* The attempt itself.
LEMMA AttemptCurrent ==
  ASSUME TypeOK, NEW c \in Conversation, Attempt(c), Current(c)
  PROVE  Current(c)'
<1>1. UNCHANGED <<live, pauses, leftover>>
  BY WorkerLeavesHandoff DEF Worker
<1>2. CASE BeginTurn(c)
  <2>1. /\ session' = session /\ ~Paused(c)
        /\ since'[c] = pauses[c] + 1 \/ (session[c] # 0 /\ since'[c] = session[c])
    BY <1>2 DEF BeginTurn, Ask, Fresh, record, TypeOK
  <2>2. QED BY <1>1, <2>1 DEF Current, Paused
<1>3. CASE AskAfresh(c)
  <2>1. session'[c] = 0 /\ since'[c] = IF Paused(c) THEN pauses[c] ELSE pauses[c] + 1
    BY <1>3 DEF AskAfresh, Fresh, TypeOK
  <2>2. QED BY <1>1, <2>1 DEF Current, Paused
<1>4. CASE AskFails(c) \/ StoreRefused(c) \/ Answer(c)
  <2>1. turn[c] \in Asked /\ turn'[c] \notin Asked
    BY <1>4 DEF AskFails, StoreRefused, Answer, QueryEnds, TypeOK, Asked
  <2>2. session'[c] \in {session[c], 0, since[c]}
    BY <1>4 DEF AskFails, StoreRefused, Answer, TypeOK
  <2>3. QED BY <1>1, <2>1, <2>2 DEF Current, Paused
<1>5. CASE Arrive(c)
  BY <1>1, <1>5 DEF Current, Paused, Arrive, record
<1>6. CASE Abandon(c) \/ StaySilent(c) \/ RefuseTurn(c) \/ Retry(c) \/ FailForGood(c)
           \/ CatchRefused(c)
  <2>1. turn'[c] \notin Asked /\ session' = session
    BY <1>6 DEF Abandon, StaySilent, RefuseTurn, Retry, FailForGood, CatchRefused, Asked, TypeOK, record
  <2>2. QED BY <1>1, <2>1 DEF Current, Paused
<1>7. CASE Deliver(c) \/ DeliverFails(c) \/ Settle(c) \/ SettleFails(c) \/ Apologise(c)
  <2>1. turn'[c] \notin Asked /\ session' = session
    BY <1>7 DEF Deliver, DeliverFails, Settle, SettleFails, Apologise, Asked, TypeOK, record
  <2>2. QED BY <1>1, <2>1 DEF Current, Paused
<1>8. QED BY <1>2, <1>3, <1>4, <1>5, <1>6, <1>7 DEF Attempt

\* Every step keeps the sessions current.
LEMMA SessionStep == TypeOK /\ AllCurrent /\ [Next]_vars => AllCurrent'
<1> SUFFICES ASSUME TypeOK, AllCurrent, [Next]_vars, NEW d \in Conversation PROVE Current(d)'
  BY DEF AllCurrent
<1>1. Current(d)
  BY DEF AllCurrent
<1>2. ASSUME live'[d] = live[d], pauses'[d] = pauses[d], session'[d] = session[d],
             leftover'[d] = leftover[d],
             turn'[d] = "idle" \/ (turn'[d] = turn[d] /\ since'[d] = since[d])
      PROVE  Current(d)'
  BY <1>1, <1>2 DEF Current, Paused, Asked
<1>3. ASSUME NEW c \in Conversation, NEW cause \in Lead \cup {ByHand}, Pause(c, cause),
             UNCHANGED <<turn, since, session, leftover>>
      PROVE  Current(d)'
  <2>1. CASE d # c \/ Paused(c)
    BY <1>2, <1>3, <2>1, PauseOpensOne
  <2>2. CASE d = c /\ ~Paused(c)
    BY <1>3, <2>2, PauseOpensOne DEF Current
  <2>3. QED BY <2>1, <2>2
<1>4. ASSUME NEW c \in Conversation, Closes(c), UNCHANGED <<turn, since, pauses>>
      PROVE  Current(d)'
  <2>1. CASE d # c
    BY <1>2, <1>4, <2>1, ClosingClosesAll, ClosingForgets
  <2>2. CASE d = c /\ Paused(c)
    BY <1>4, <2>2, ClosingForgets DEF Current
  <2>3. CASE d = c /\ ~Paused(c)
    BY <1>1, <1>4, <2>3, ClosingForgets DEF Current
  <2>4. QED BY <2>1, <2>2, <2>3
<1>5. ASSUME NEW c \in Conversation, Attempt(c) PROVE Current(d)'
  <2>1. CASE d = c
    BY <1>1, <1>5, <2>1, AttemptCurrent
  <2>2. CASE d # c
    BY <1>2, <1>5, <2>2, AttemptElsewhere, WorkerLeavesHandoff DEF Worker
  <2>3. QED BY <2>1, <2>2
<1>6. ASSUME NEW c \in Conversation, PauseRoute(c) \/ \E a \in Admin : MessageRoute(a, c)
      PROVE  Current(d)'
  BY <1>3, <1>6 DEF PauseRoute, MessageRoute, attempt
<1>7. ASSUME NEW c \in Conversation, ReleaseRoute(c) PROVE Current(d)'
  BY <1>4, <1>7 DEF ReleaseRoute, Closes, attempt
<1>8. ASSUME NEW l \in Lead, TakeLead(l) PROVE Current(d)'
  BY <1>3, <1>8, HandoffAssumption DEF TakeLead, attempt, history
<1>9. ASSUME NEW l \in Lead, TornTake(l) \/ TornHandBack(l) PROVE Current(d)'
  BY <1>2, <1>9 DEF TornTake, TornHandBack, attempt
<1>10. ASSUME NEW l \in Lead, HandBackLead(l) PROVE Current(d)'
  <2>1. ConversationOf[l] \in Conversation /\ UNCHANGED <<turn, since, pauses>>
    BY <1>10, HandoffAssumption DEF HandBackLead, attempt
  <2>2. CASE MayHandBack(l, ConversationOf[l])
    BY <1>4, <1>10, <2>1, <2>2 DEF HandBackLead, Closes
  <2>3. CASE ~MayHandBack(l, ConversationOf[l])
    BY <1>2, <1>10, <2>1, <2>3 DEF HandBackLead
  <2>4. QED BY <2>2, <2>3
<1>11. ASSUME \/ \E l \in Lead : SaveLead(l)
              \/ \E l \in Lead, status \in {"new", "in_progress", "closed"} : MoveLead(l, status)
              \/ \E a \in Admin : MessageSettles(a)
              \/ UNCHANGED vars
       PROVE  Current(d)'
  BY <1>2, <1>11 DEF SaveLead, MoveLead, MessageSettles, vars, record, attempt, history
<1>12. CASE Crash
  BY <1>2, <1>12 DEF Crash, record, history
<1>13. QED
  BY <1>5, <1>6, <1>7, <1>8, <1>9, <1>10, <1>11, <1>12 DEF Next, Console

-----------------------------------------------------------------------------
(* The handoff rows and the leads *)

\* What the rows and the leads keep.
RowsInv == OneLiveHandoff /\ ByHandIsWanted /\ HeldLeadKeepsSilence /\ HandBackStrandsNobody

\* Steps that change no row, and leads only as the histories account for.
LEMMA QuietStep ==
  ASSUME RowsInv,
         UNCHANGED <<live, byHand>>,
         \A c \in Conversation : (freed[c] => freed'[c]) /\ (requeued[c] => requeued'[c]),
         \A l \in Lead :
           \/ lead'[l] = lead[l]
           \/ ConversationOf[l] = Nobody
           \/ lead'[l] = "closed"
           \/ /\ lead'[l] = "in_progress"
              /\ Paused(ConversationOf[l]) \/ freed'[ConversationOf[l]]
           \/ /\ lead'[l] = "new"
              /\ lead[l] \in {"in_progress", "closed"} /\ Paused(ConversationOf[l])
                   => requeued'[ConversationOf[l]]
  PROVE  RowsInv'
<1>1. OneLiveHandoff' /\ ByHandIsWanted'
  BY DEF RowsInv, OneLiveHandoff, ByHandIsWanted, Paused
<1>2. HeldLeadKeepsSilence'
  <2>1. SUFFICES ASSUME NEW l \in Lead, lead'[l] = "in_progress", ConversationOf[l] # Nobody
                 PROVE  Paused(ConversationOf[l]) \/ freed'[ConversationOf[l]]
    BY Zenon DEF HeldLeadKeepsSilence, Paused
  <2>2. ConversationOf[l] \in Conversation
    BY <2>1, HandoffAssumption
  <2>3. QED BY <2>1, <2>2 DEF RowsInv, HeldLeadKeepsSilence
<1>3. HandBackStrandsNobody'
  <2>1. SUFFICES ASSUME NEW c \in Conversation, CausedByLead(c)', ~requeued'[c]
                 PROVE  \E l \in Lead : ConversationOf[l] = c
                                        /\ lead'[l] \in {"in_progress", "closed"}
    BY Zenon DEF HandBackStrandsNobody
  <2>2. CausedByLead(c) /\ Paused(c) /\ ~requeued[c]
    BY <2>1 DEF CausedByLead, Paused
  <2>3. PICK l \in Lead : ConversationOf[l] = c /\ lead[l] \in {"in_progress", "closed"}
    BY <2>2 DEF RowsInv, HandBackStrandsNobody
  <2>4. lead'[l] \in {"in_progress", "closed"}
    BY <2>1, <2>2, <2>3, HandoffAssumption
  <2>5. QED BY <2>3, <2>4
<1>4. QED BY <1>1, <1>2, <1>3 DEF RowsInv

\* Pausing for a cause that is accounted for.
LEMMA PauseStep ==
  ASSUME TypeOK, RowsInv, NEW c \in Conversation, NEW cause \in Lead \cup {ByHand},
         Pause(c, cause),
         UNCHANGED <<freed, requeued>>,
         byHand' = byHand \/ byHand' = [byHand EXCEPT ![c] = TRUE],
         cause = ByHand => byHand'[c],
         \/ lead' = lead /\ cause = ByHand
         \/ /\ cause \in Lead
            /\ ConversationOf[cause] = c
            /\ lead' = [lead EXCEPT ![cause] = "in_progress"]
  PROVE  RowsInv'
<1>1. Paused(c)' /\ \A d \in Conversation : live'[d] = live[d] \/ (d = c /\ live'[d] = <<cause>>)
  BY PauseOpensOne
<1>2. Len(<<cause>>) = 1 /\ Head(<<cause>>) = cause
  OBVIOUS
<1>3. \A d \in Conversation : byHand[d] => byHand'[d]
  <2>1. \A d \in Conversation \ {c} : [byHand EXCEPT ![c] = TRUE][d] = byHand[d]
    BY MarkOne, Marks
  <2>2. [byHand EXCEPT ![c] = TRUE][c]
    BY MarkOne, Marks
  <2>3. CASE byHand' = byHand
    BY <2>3
  <2>4. CASE byHand' = [byHand EXCEPT ![c] = TRUE]
    BY <2>1, <2>2, <2>4, Zenon
  <2>5. QED BY <2>3, <2>4
<1>4. OneLiveHandoff'
  <2>1. ASSUME NEW d \in Conversation PROVE Len(live'[d]) <= 1
    <3>1. CASE live'[d] = live[d]
      BY <3>1 DEF RowsInv, OneLiveHandoff
    <3>2. CASE live'[d] = <<cause>>
      BY <1>2, <3>2
    <3>3. QED BY <1>1, <3>1, <3>2
  <2>2. QED BY <2>1 DEF OneLiveHandoff
<1>5. ByHandIsWanted'
  BY <1>1, <1>2, <1>3, HandoffAssumption DEF RowsInv, ByHandIsWanted, Paused
<1>6. \A l \in Lead : lead'[l] = lead[l] \/ (ConversationOf[l] = c /\ lead'[l] = "in_progress")
  <2>1. CASE lead' = lead
    BY <2>1
  <2>2. CASE lead' = [lead EXCEPT ![cause] = "in_progress"] /\ ConversationOf[cause] = c
    BY <2>2 DEF TypeOK
  <2>3. QED BY <2>1, <2>2
<1>7. HeldLeadKeepsSilence'
  BY <1>1, <1>6, HandoffAssumption DEF RowsInv, HeldLeadKeepsSilence, Paused
<1>8. HandBackStrandsNobody'
  <2>1. SUFFICES ASSUME NEW d \in Conversation, CausedByLead(d)', ~requeued[d]
                 PROVE  \E l \in Lead : ConversationOf[l] = d
                                        /\ lead'[l] \in {"in_progress", "closed"}
    BY Zenon DEF HandBackStrandsNobody
  <2>2. CASE live'[d] = live[d]
    BY <1>6, <2>1, <2>2 DEF RowsInv, HandBackStrandsNobody, CausedByLead, Paused
  <2>3. CASE d = c /\ live'[d] = <<cause>>
    <3>1. cause # ByHand
      BY <1>2, <2>1, <2>3 DEF CausedByLead
    <3>2. cause \in Lead /\ ConversationOf[cause] = c /\ lead'[cause] = "in_progress"
      BY <3>1 DEF TypeOK
    <3>3. QED BY <2>3, <3>2
  <2>4. QED BY <1>1, <2>2, <2>3
<1>9. QED BY <1>4, <1>5, <1>7, <1>8 DEF RowsInv

\* Releasing a conversation of which nothing is held, or because it was asked.
LEMMA ReleaseStep ==
  ASSUME TypeOK, RowsInv, NEW c \in Conversation, Closes(c),
         \A d \in Conversation \ {c} : byHand'[d] = byHand[d] /\ freed'[d] = freed[d],
         \A l \in Lead : ConversationOf[l] # c => lead'[l] = lead[l],
         freed'[c] \/ \A l \in Lead : ConversationOf[l] = c => lead'[l] # "in_progress"
  PROVE  RowsInv'
<1>1. /\ ~Paused(c)'
      /\ \A d \in Conversation \ {c} : live'[d] = live[d] /\ requeued'[d] = requeued[d]
  BY ClosingClosesAll
<1>2. live'[c] = <<>> /\ Len(<<>>) = 0
  BY <1>1 DEF Paused
<1>3. OneLiveHandoff' /\ ByHandIsWanted'
  BY <1>1, <1>2 DEF RowsInv, OneLiveHandoff, ByHandIsWanted, Paused
<1>4. HeldLeadKeepsSilence'
  BY <1>1, HandoffAssumption DEF RowsInv, HeldLeadKeepsSilence, Paused
<1>5. HandBackStrandsNobody'
  BY <1>1, HandoffAssumption DEF RowsInv, HandBackStrandsNobody, CausedByLead, Paused
<1>6. QED BY <1>3, <1>4, <1>5 DEF RowsInv

\* Every step keeps the rows and the leads in agreement.
LEMMA RowsStep == TypeOK /\ RowsInv /\ [Next]_vars => RowsInv'
<1> SUFFICES ASSUME TypeOK, RowsInv, [Next]_vars PROVE RowsInv'
  OBVIOUS
<1>1. CASE Worker
  BY <1>1, WorkerLeavesHandoff, QuietStep
<1>2. CASE UNCHANGED vars
  BY <1>2, QuietStep DEF vars, record, history
<1>3. ASSUME NEW l \in Lead, SaveLead(l) PROVE RowsInv'
  <2>1. \A k \in Lead : lead'[k] = lead[k] \/ (lead[k] = "none" /\ lead'[k] = "new")
    BY <1>3 DEF SaveLead, TypeOK
  <2>2. QED BY <1>3, <2>1, QuietStep DEF SaveLead, history
<1>4. ASSUME NEW c \in Conversation, PauseRoute(c) \/ \E a \in Admin : MessageRoute(a, c)
      PROVE  RowsInv'
  <2>1. Pause(c, ByHand) /\ UNCHANGED <<lead, freed, requeued>>
        /\ byHand' = [byHand EXCEPT ![c] = TRUE]
    BY <1>4 DEF PauseRoute, MessageRoute
  <2>2. byHand'[c]
    BY <2>1, MarkOne, Marks
  <2>3. QED BY <2>1, <2>2, PauseStep
<1>5. ASSUME NEW c \in Conversation, ReleaseRoute(c) PROVE RowsInv'
  <2>1. /\ Closes(c) /\ lead' = lead
        /\ byHand' = [byHand EXCEPT ![c] = FALSE]
        /\ freed' = [freed EXCEPT ![c] = TRUE]
    BY <1>5 DEF ReleaseRoute, Closes
  <2>2. freed'[c] /\ \A d \in Conversation \ {c} : byHand'[d] = byHand[d] /\ freed'[d] = freed[d]
    BY <2>1, MarkOne, Marks
  <2>3. QED BY <2>1, <2>2, ReleaseStep
<1>6. ASSUME NEW l \in Lead, TakeLead(l) PROVE RowsInv'
  <2>1. /\ ConversationOf[l] \in Conversation /\ Pause(ConversationOf[l], l)
        /\ UNCHANGED <<byHand, freed, requeued>>
        /\ lead' = [lead EXCEPT ![l] = "in_progress"]
    BY <1>6, HandoffAssumption DEF TakeLead, SetLead, history
  <2>2. QED BY <2>1, PauseStep, HandoffAssumption
<1>7. ASSUME NEW l \in Lead, TornTake(l) PROVE RowsInv'
  <2>1. /\ ConversationOf[l] \in Conversation /\ UNCHANGED <<live, byHand, requeued>>
        /\ lead' = [lead EXCEPT ![l] = "in_progress"]
    BY <1>7, HandoffAssumption DEF TornTake, SetLead
  <2>2. PICK b \in BOOLEAN : /\ freed' = [freed EXCEPT ![ConversationOf[l]] = b]
                             /\ b = (freed[ConversationOf[l]] \/ ~Paused(ConversationOf[l]))
    BY <1>7, <2>1, Zenon DEF TornTake
  <2>3. /\ freed'[ConversationOf[l]] = (freed[ConversationOf[l]] \/ ~Paused(ConversationOf[l]))
        /\ \A d \in Conversation \ {ConversationOf[l]} : freed'[d] = freed[d]
    BY <2>1, <2>2, MarkOne, Marks
  <2>4. \A k \in Lead : lead'[k] = (IF k = l THEN "in_progress" ELSE lead[k])
    BY <2>1 DEF TypeOK
  <2>5. \A c \in Conversation : (freed[c] => freed'[c]) /\ (requeued[c] => requeued'[c])
    BY <2>1, <2>3
  <2>6. QED BY <2>1, <2>3, <2>4, <2>5, QuietStep
<1>8. ASSUME NEW l \in Lead, HandBackLead(l) PROVE RowsInv'
  <2> DEFINE c == ConversationOf[l]
  <2>1. /\ c \in Conversation /\ lead[l] = "in_progress" /\ byHand' = byHand
        /\ lead' = [lead EXCEPT ![l] = "new"]
    BY <1>8, HandoffAssumption DEF HandBackLead, SetLead
  <2>2. \A k \in Lead : lead'[k] = (IF k = l THEN "new" ELSE lead[k])
    BY <2>1 DEF TypeOK
  <2>3. CASE MayHandBack(l, c)
    <3>1. Closes(c) /\ freed' = [freed EXCEPT ![c] = FALSE]
      BY <1>8, <2>3 DEF HandBackLead, Closes
    <3>2. \A d \in Conversation \ {c} : byHand'[d] = byHand[d] /\ freed'[d] = freed[d]
      BY <2>1, <3>1, MarkOne, Marks
    <3>3. \A k \in Lead : ConversationOf[k] = c => lead'[k] # "in_progress"
      BY <2>2, <2>3 DEF MayHandBack, Holding
    <3>4. \A k \in Lead : ConversationOf[k] # c => lead'[k] = lead[k]
      BY <2>2
    <3>5. QED BY <2>1, <3>1, <3>2, <3>3, <3>4, ReleaseStep
  <2>4. CASE ~MayHandBack(l, c)
    <3>1. UNCHANGED <<live, freed, requeued>>
      BY <1>8, <2>4 DEF HandBackLead
    <3>2. OneLiveHandoff' /\ ByHandIsWanted' /\ HeldLeadKeepsSilence'
      BY <2>1, <2>2, <3>1
      DEF RowsInv, OneLiveHandoff, ByHandIsWanted, HeldLeadKeepsSilence, Paused
    <3>3. ASSUME NEW d \in Conversation, CausedByLead(d)', ~requeued'[d]
          PROVE  \E k \in Lead : ConversationOf[k] = d /\ lead'[k] \in {"in_progress", "closed"}
      <4>1. CausedByLead(d) /\ ~requeued[d]
        BY <3>1, <3>3 DEF CausedByLead, Paused
      <4>2. CASE d = c
        <5>1. PICK k \in Holding(c) \ {l} : TRUE
          BY <2>4, <4>1, <4>2 DEF MayHandBack, CausedByLead
        <5>2. QED BY <2>2, <4>2, <5>1 DEF Holding
      <4>3. CASE d # c
        BY <2>2, <4>1, <4>3 DEF RowsInv, HandBackStrandsNobody
      <4>4. QED BY <4>2, <4>3
    <3>4. HandBackStrandsNobody'
      BY <3>3 DEF HandBackStrandsNobody
    <3>5. QED BY <3>2, <3>4 DEF RowsInv
  <2>5. QED BY <2>3, <2>4
<1>9. ASSUME NEW l \in Lead, TornHandBack(l) PROVE RowsInv'
  <2>1. /\ ConversationOf[l] \in Conversation /\ UNCHANGED <<live, byHand, freed>>
        /\ lead' = [lead EXCEPT ![l] = "new"]
        /\ requeued' = [requeued EXCEPT ![ConversationOf[l]] = TRUE]
    BY <1>9, HandoffAssumption DEF TornHandBack, SetLead
  <2>2. /\ requeued'[ConversationOf[l]]
        /\ \A d \in Conversation \ {ConversationOf[l]} : requeued'[d] = requeued[d]
    <3>1. ASSUME NEW c \in Conversation, requeued' = [requeued EXCEPT ![c] = TRUE]
          PROVE  requeued'[c] /\ \A d \in Conversation \ {c} : requeued'[d] = requeued[d]
      BY <3>1, MarkOne, Marks
    <3>2. QED BY <2>1, <3>1
  <2>3. \A k \in Lead : lead'[k] = (IF k = l THEN "new" ELSE lead[k])
    BY <2>1 DEF TypeOK
  <2>4. QED BY <2>1, <2>2, <2>3, QuietStep
<1>10. ASSUME NEW l \in Lead, NEW status \in {"new", "in_progress", "closed"},
              MoveLead(l, status)
       PROVE  RowsInv'
  <2>1. /\ UNCHANGED <<live, byHand, freed>>
        /\ lead' = [lead EXCEPT ![l] = status]
        /\ \/ ConversationOf[l] = Nobody
           \/ status = "closed"
           \/ status = "new" /\ lead[l] # "in_progress"
    BY <1>10 DEF MoveLead, SetLead
  <2>2. \/ requeued' = requeued
        \/ /\ ConversationOf[l] \in Conversation
           /\ requeued' = [requeued EXCEPT ![ConversationOf[l]] = TRUE]
    BY <1>10, HandoffAssumption DEF MoveLead
  <2>3. \A d \in Conversation : requeued[d] => requeued'[d]
    BY <2>2, MarkOne, Marks
  <2>4. ConversationOf[l] # Nobody /\ status = "new" /\ lead[l] = "closed"
          /\ Paused(ConversationOf[l]) => requeued'[ConversationOf[l]]
    <3>1. SUFFICES ASSUME ConversationOf[l] # Nobody, status = "new", lead[l] = "closed",
                          Paused(ConversationOf[l])
                   PROVE  requeued'[ConversationOf[l]]
      OBVIOUS
    <3>2. ConversationOf[l] \in Conversation
      BY <3>1, HandoffAssumption
    <3>3. requeued' = [requeued EXCEPT ![ConversationOf[l]] = TRUE]
      BY <1>10, <3>1 DEF MoveLead
    <3>4. QED BY <3>2, <3>3, MarkOne, Marks
  <2>5. lead[l] \in {"none", "new", "in_progress", "closed"}
    BY DEF TypeOK
  <2>6. \A k \in Lead : lead'[k] = (IF k = l THEN status ELSE lead[k])
    BY <2>1 DEF TypeOK
  <2>7. QED BY <2>1, <2>3, <2>4, <2>5, <2>6, QuietStep
<1>11. QED
  BY <1>1, <1>2, <1>3, <1>4, <1>5, <1>6, <1>7, <1>8, <1>9, <1>10 DEF Next, Console, Worker

-----------------------------------------------------------------------------
(* The theorems *)

\* The invariant holds at first.
LEMMA InitIInv == Init => IInv
<1> SUFFICES ASSUME Init PROVE IInv
  OBVIOUS
<1>1. TypeOK
  <2>1. <<>> \in Seq(Lead \cup {ByHand})
    OBVIOUS
  <2>2. QED BY <2>1, HandoffAssumption DEF Init, TypeOK
<1>2. Len(<<>>) = 0
  OBVIOUS
<1>3. QED
  BY <1>1, <1>2, HandoffAssumption
  DEF Init, IInv, OneLiveHandoff, AnswersOnce, WordsArePaidFor, CountsAreOfThePause,
      GivenUpIsForgotten, SessionForgetsHandoff, AttemptIsCurrent, HeldLeadKeepsSilence,
      HandBackStrandsNobody, CausedByLead, ByHandIsWanted, Paused, Asked

\* Every step preserves the inductive invariant.
LEMMA StepIInv == IInv /\ [Next]_vars => IInv'
<1> SUFFICES ASSUME IInv, [Next]_vars PROVE IInv'
  OBVIOUS
<1>1. TypeOK /\ AllSilent /\ AllCurrent /\ RowsInv
  BY SilentParts, CurrentParts DEF IInv, RowsInv
<1>2. TypeOK' /\ AllSilent' /\ AllCurrent' /\ RowsInv'
  BY <1>1, TypeStep, SilentStep, SessionStep, RowsStep
<1>3. /\ AnswersOnce' /\ WordsArePaidFor' /\ CountsAreOfThePause' /\ GivenUpIsForgotten'
      /\ SessionForgetsHandoff' /\ AttemptIsCurrent'
  BY <1>2, SilentParts, CurrentParts, PTL
<1>4. QED BY <1>2, <1>3 DEF IInv, RowsInv

\* Everything below follows from it.
THEOREM InductiveInvariant == Spec => []IInv
BY InitIInv, StepIInv, PTL DEF Spec

\* Type correctness of the handoff rows, the leads and the attempts.
THEOREM TypeInvariant == Spec => []TypeOK
BY InductiveInvariant, PTL DEF IInv

\* A single release always gives the conversation back.
THEOREM OneHandoffAtATime == Spec => []OneLiveHandoff
BY InductiveInvariant, PTL DEF IInv

\* After a pause the customer reads one more message of the agent at most, and
\* one more for each fault since, however attempts, retries, given up batches,
\* pauses and restarts interleave.
THEOREM PauseSilencesAgent == Spec => []AgentFallsSilent
<1>1. IInv => AgentFallsSilent
  BY SilenceFollows DEF IInv
<1>2. QED BY <1>1, InductiveInvariant, PTL

\* No session survives the handoff it ends before, unless its release was torn
\* between its two commits or found the agent being asked.
THEOREM ReleaseForgetsSession == Spec => []SessionForgetsHandoff
BY InductiveInvariant, PTL DEF IInv

\* A lead in somebody's hands keeps the agent out of its conversation, unless
\* its release was asked for or the request that took it ended before it paused.
THEOREM HeldLeadSilences == Spec => []HeldLeadKeepsSilence
BY InductiveInvariant, PTL DEF IInv

\* Handing back leads strands nobody unless a closed lead is reopened, or a
\* hand-back ended before it released.
THEOREM NobodyStranded == Spec => []HandBackStrandsNobody
BY InductiveInvariant, PTL DEF IInv

\* No lead undoes a pause that was set by hand, torn requests included.
THEOREM ByHandStands == Spec => PauseByHandStands
<1>1. IInv /\ [Next]_vars =>
        \A c \in Conversation :
          Paused(c) /\ Head(live[c]) = ByHand /\ live'[c] # live[c] => byHand[c] /\ ~byHand'[c]
  <2> SUFFICES ASSUME IInv, [Next]_vars, NEW c \in Conversation,
                      Paused(c), Head(live[c]) = ByHand, live'[c] # live[c]
               PROVE  byHand[c] /\ ~byHand'[c]
    OBVIOUS
  <2> TypeOK
    BY DEF IInv
  <2>1. byHand[c]
    BY DEF IInv, ByHandIsWanted
  <2>2. ASSUME NEW d \in Conversation, NEW cause \in Lead \cup {ByHand}, Pause(d, cause)
        PROVE  FALSE
    BY <2>2, PauseOpensOne
  <2>3. CASE Worker
    BY <2>3, WorkerLeavesHandoff
  <2>4. ASSUME NEW d \in Conversation, ReleaseRoute(d) PROVE ~byHand'[c]
    <3>1. d = c
      BY <2>4, ClosingClosesAll DEF ReleaseRoute, Closes
    <3>2. byHand' = [byHand EXCEPT ![c] = FALSE]
      BY <2>4, <3>1 DEF ReleaseRoute
    <3>3. QED BY <3>2, MarkOne, Marks
  <2>5. ASSUME NEW l \in Lead, HandBackLead(l) PROVE FALSE
    <3>1. ConversationOf[l] \in Conversation
      BY <2>5, HandoffAssumption DEF HandBackLead
    <3>2. MayHandBack(l, ConversationOf[l]) /\ Closes(ConversationOf[l])
      BY <2>5 DEF HandBackLead, Closes
    <3>3. c = ConversationOf[l]
      BY <3>1, <3>2, ClosingClosesAll
    <3>4. QED BY <3>2, <3>3 DEF MayHandBack
  <2>6. ASSUME NEW l \in Lead, TakeLead(l) PROVE FALSE
    BY <2>2, <2>6, HandoffAssumption DEF TakeLead
  <2>7. ASSUME NEW d \in Conversation, PauseRoute(d) \/ \E a \in Admin : MessageRoute(a, d)
        PROVE  FALSE
    BY <2>2, <2>7 DEF PauseRoute, MessageRoute
  <2>8. ASSUME \/ \E l \in Lead : SaveLead(l) \/ TornTake(l) \/ TornHandBack(l)
               \/ \E l \in Lead, s \in {"new", "in_progress", "closed"} : MoveLead(l, s)
               \/ UNCHANGED vars
        PROVE  FALSE
    BY <2>8 DEF SaveLead, TornTake, TornHandBack, MoveLead, vars, record
  <2>9. QED
    BY <2>1, <2>3, <2>4, <2>5, <2>6, <2>7, <2>8 DEF Next, Console, Worker
<1>2. QED BY <1>1, InductiveInvariant, PTL DEF Spec, PauseByHandStands
=============================================================================
