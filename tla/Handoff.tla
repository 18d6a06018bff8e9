------------------------------- MODULE Handoff -------------------------------
(***************************************************************************)
(* Who is talking to the customer: the agent or a human.                   *)
(*                                                                         *)
(* The console (server/src/admin/console.ts) pauses and releases a         *)
(* conversation, sends a person's words into it, and moves its leads; the  *)
(* rows live in conversation_handoff, leads and sessions                   *)
(* (server/src/data/repo.ts).  The worker looks at the pause ONCE, when an *)
(* attempt starts (index.ts onMessage), and then awaits the agent, stores  *)
(* the session (agent/runtime.ts) and awaits the transport, while the      *)
(* console's handlers run in between.                                      *)
(*                                                                         *)
(* A request of the console that writes twice does so in two commits.  No  *)
(* other handler runs between them, but the process may die there, or      *)
(* SQLite refuse the second: a Torn action is the first of them alone, and *)
(* a death is that step and then a Crash.                                  *)
(*                                                                         *)
(* A transcript is modelled by the number of handoffs that were over when  *)
(* it began, plus one; a turn that resumes it adds to it and keeps the     *)
(* number.  One older than the last handoff knows nothing of what the      *)
(* human and the customer said.                                            *)
(*                                                                         *)
(* spoken, sorry, mishaps, byHand, freed, leftover and requeued are        *)
(* history.                                                                *)
(***************************************************************************)
EXTENDS Naturals, Sequences, FiniteSets

CONSTANTS
  Conversation,
  Lead,
  ConversationOf,  \* Nobody: a lead without provenance, or an agent's key
  AskOf,           \* what a lead asks for: (phone, type, product)
  Admin,           \* console sessions that may send a message
  ByHand,          \* the cause (lead_id NULL) of a pause set by hand
  Nobody,
  Refusing,        \* conversations the kill switch or the rate limiter refuses
  MaxAttempts,     \* MAX_BATCH_ATTEMPTS
  MaxPauses,       \* bound: pauses of one conversation
  MaxFaults        \* bound: deaths, refused statements, lost answers

ASSUME HandoffAssumption ==
  /\ ConversationOf \in [Lead -> Conversation \cup {Nobody}]
  /\ Nobody \notin Conversation
  /\ ByHand \notin Lead
  /\ MaxAttempts \in Nat \ {0}
  /\ MaxPauses \in Nat
  /\ MaxFaults \in Nat

VARIABLES
  live,      \* causes of the handoff rows not released, oldest first
  pauses,    \* handoff rows ever opened
  lead,      \* status of each lead, "none" before it is captured
  session,   \* the stored session's transcript, 0 for none
  waiting,   \* rows of the customer wait for an attempt
  tries,     \* claims spent on the batch that is at work, or waits again
  turn,      \* where the attempt is
  since,     \* the transcript the agent is being asked in, 0 for none
  sending,   \* the conversation an admin's message is being sent into
  faults,
  spoken,    \* replies and notices read since the live handoff was opened
  sorry,     \* apologies read since then
  mishaps,   \* faults since then
  byHand,    \* an admin took the conversation by hand and has not released it
  freed,     \* its leads may be held and the agent there: a release was asked
             \* for, or the lead was taken by a request that never paused
  leftover,  \* the last release was torn, or found the agent being asked
  requeued   \* a lead went back to the queue past the hand-back: it was
             \* closed, or its hand-back was torn

record  == <<live, pauses, lead, session>>
attempt == <<waiting, tries, turn, since>>
said    == <<spoken, sorry>>
fault   == <<faults, mishaps>>
history == <<byHand, freed, leftover, requeued>>
vars    == <<record, attempt, sending, said, fault, history>>

\* "resuming": the agent is asked in a stored session, "asking": in a new one.
\* "read": the customer has what there was to read, and the rows are to be
\* settled.  "apologising": they are settled as failed already.
Working == {"noticing", "resuming", "asking", "delivering", "read", "failing", "apologising"}

Asked == {"resuming", "asking"}

Paused(c) == live[c] # <<>>

\* Leads from conversation c that a human still holds (countLeadsHolding).
Holding(c) == {l \in Lead : ConversationOf[l] = c /\ lead[l] = "in_progress"}

Init ==
  /\ live = [c \in Conversation |-> <<>>]
  /\ pauses = [c \in Conversation |-> 0]
  /\ lead = [l \in Lead |-> IF ConversationOf[l] = Nobody THEN "new" ELSE "none"]
  /\ session = [c \in Conversation |-> 0]
  /\ waiting = [c \in Conversation |-> FALSE]
  /\ tries = [c \in Conversation |-> 0]
  /\ turn = [c \in Conversation |-> "idle"]
  /\ since = [c \in Conversation |-> 0]
  /\ sending = [a \in Admin |-> Nobody]
  /\ faults = 0
  /\ spoken = [c \in Conversation |-> 0]
  /\ sorry = [c \in Conversation |-> 0]
  /\ mishaps = [c \in Conversation |-> 0]
  /\ byHand = [c \in Conversation |-> FALSE]
  /\ freed = [c \in Conversation |-> FALSE]
  /\ leftover = [c \in Conversation |-> FALSE]
  /\ requeued = [c \in Conversation |-> FALSE]

\* A statement about c is refused, or an answer about c is lost.
Fault(c) ==
  /\ faults < MaxFaults
  /\ faults' = faults + 1
  /\ mishaps' = [mishaps EXCEPT ![c] = IF Paused(c) THEN @ + 1 ELSE @]

-----------------------------------------------------------------------------
(* The attempt: batcher, onMessage, runAgentTurn. *)

Arrive(c) ==
  /\ ~waiting[c]
  /\ waiting' = [waiting EXCEPT ![c] = TRUE]
  /\ UNCHANGED <<record, tries, turn, since, sending, said, fault, history>>

\* One job at a time runs in a conversation; it takes all rows that wait.
Claim(c) ==
  /\ waiting[c]
  /\ turn[c] = "idle"
  /\ waiting' = [waiting EXCEPT ![c] = FALSE]

\* The claim is one too many: failed at once, and apologised for without a look
\* at the pause.  (Refused, the settlement leaves the rows to the next claim.)
Abandon(c) ==
  /\ Claim(c)
  /\ tries[c] = MaxAttempts
  /\ tries' = [tries EXCEPT ![c] = 0]
  /\ turn' = [turn EXCEPT ![c] = "apologising"]
  /\ UNCHANGED <<record, since, sending, said, fault, history>>

\* The claim pays for an attempt.
Start(c) ==
  /\ Claim(c)
  /\ tries[c] < MaxAttempts
  /\ tries' = [tries EXCEPT ![c] = @ + 1]

\* A human has this conversation: onMessage returns without a word.
StaySilent(c) ==
  /\ Start(c)
  /\ Paused(c)
  /\ turn' = [turn EXCEPT ![c] = "read"]
  /\ UNCHANGED <<record, since, sending, said, fault, history>>

\* The kill switch or the rate limiter answers with a static notice instead.
RefuseTurn(c) ==
  /\ Start(c)
  /\ ~Paused(c)
  /\ c \in Refusing
  /\ turn' = [turn EXCEPT ![c] = "noticing"]
  /\ UNCHANGED <<record, since, sending, said, fault, history>>

\* A transcript that begins now.
Fresh(c) == IF Paused(c) THEN pauses[c] ELSE pauses[c] + 1

\* getSessionId (an expired session is not resumed), then runQuery.
Ask(c) ==
  /\ \/ /\ turn' = [turn EXCEPT ![c] = "asking"]
        /\ since' = [since EXCEPT ![c] = Fresh(c)]
     \/ /\ session[c] # 0
        /\ turn' = [turn EXCEPT ![c] = "resuming"]
        /\ since' = [since EXCEPT ![c] = session[c]]
  /\ UNCHANGED <<record, sending, said, fault, history>>

\* Faulty variant: no gate on the pause.
BeginTurnUngated(c) == Start(c) /\ Ask(c)

BeginTurn(c) ==
  /\ Start(c)
  /\ ~Paused(c)
  /\ Ask(c)

\* The save_lead tool: a lead is new unless the same ask is still open.
SaveLead(l) ==
  /\ ConversationOf[l] # Nobody
  /\ turn[ConversationOf[l]] \in Asked
  /\ lead[l] = "none"
  /\ \A k \in Lead : AskOf[k] = AskOf[l] => lead[k] \notin {"new", "in_progress"}
  /\ lead' = [lead EXCEPT ![l] = "new"]
  /\ UNCHANGED <<live, pauses, session, attempt, sending, said, fault, history>>

\* The resumed session is gone: forget it and ask once more without it.
AskAfresh(c) ==
  /\ turn[c] = "resuming"
  /\ turn' = [turn EXCEPT ![c] = "asking"]
  /\ session' = [session EXCEPT ![c] = 0]
  /\ since' = [since EXCEPT ![c] = Fresh(c)]
  /\ UNCHANGED <<live, pauses, lead, waiting, tries, sending, said, fault, history>>

\* The agent is asked no more.
QueryEnds(c, next) ==
  /\ turn[c] \in Asked
  /\ turn' = [turn EXCEPT ![c] = next]
  /\ since' = [since EXCEPT ![c] = 0]
  /\ UNCHANGED <<live, pauses, lead, waiting, tries, sending, said, history>>

\* The query failed with nothing stale to recover from.
AskFails(c) ==
  /\ turn[c] = "asking"
  /\ QueryEnds(c, "failing")
  /\ UNCHANGED <<session, fault>>

\* clearSessionId or setSessionId is refused, and the attempt fails with it.
StoreRefused(c) ==
  /\ QueryEnds(c, "failing")
  /\ Fault(c)
  /\ UNCHANGED session

\* Faulty variant: also stores the session of a result that names none.
AnswerUnnamed(c) ==
  /\ QueryEnds(c, "delivering")
  /\ session' \in {[session EXCEPT ![c] = Nobody], [session EXCEPT ![c] = since[c]]}
  /\ UNCHANGED fault

\* The agent answered: its session is dropped (a publish ended the work),
\* stored, or not named by the result; then the reply is handed to the transport.
Answer(c) ==
  /\ QueryEnds(c, "delivering")
  /\ session' \in {session, [session EXCEPT ![c] = 0], [session EXCEPT ![c] = since[c]]}
  /\ UNCHANGED fault

\* A reply or a notice reaches the customer.
Deliver(c) ==
  /\ turn[c] \in {"noticing", "delivering"}
  /\ turn' = [turn EXCEPT ![c] = "read"]
  /\ spoken' = [spoken EXCEPT ![c] = IF Paused(c) THEN @ + 1 ELSE @]
  /\ UNCHANGED <<record, waiting, tries, since, sending, sorry, fault, history>>

\* It does not: a reply fails its attempt, a notice is dropped (or was never
\* due: the limiter says so once).
DeliverFails(c) ==
  /\ turn[c] \in {"noticing", "delivering"}
  /\ turn' = [turn EXCEPT ![c] = IF @ = "noticing" THEN "read" ELSE "failing"]
  /\ UNCHANGED <<record, waiting, tries, since, sending, said, fault, history>>

\* markInboxBatchDone.  Rows that arrived meanwhile are another batch.
Settle(c) ==
  /\ turn[c] = "read"
  /\ turn' = [turn EXCEPT ![c] = "idle"]
  /\ tries' = [tries EXCEPT ![c] = 0]
  /\ UNCHANGED <<record, waiting, since, sending, said, fault, history>>

\* The transport's answer is lost, or markInboxBatchDone is refused: either
\* reaches the catch, and the attempt has failed.
SettleFails(c) ==
  /\ turn[c] = "read"
  /\ turn' = [turn EXCEPT ![c] = "failing"]
  /\ Fault(c)
  /\ UNCHANGED <<record, waiting, tries, since, sending, said, history>>

\* With attempts left the rows wait for the next, with whatever joined them.
Retry(c) ==
  /\ turn[c] = "failing"
  /\ tries[c] < MaxAttempts
  /\ turn' = [turn EXCEPT ![c] = "idle"]
  /\ waiting' = [waiting EXCEPT ![c] = TRUE]
  /\ UNCHANGED <<record, tries, since, sending, said, fault, history>>

\* The last attempt failed.
FailForGood(c) ==
  /\ turn[c] = "failing"
  /\ tries[c] = MaxAttempts
  /\ tries' = [tries EXCEPT ![c] = 0]
  /\ turn' = [turn EXCEPT ![c] = "apologising"]
  /\ UNCHANGED <<record, waiting, since, sending, said, fault, history>>

\* A statement in the catch is refused: the rows stay claimed, for the next claim.
CatchRefused(c) ==
  /\ turn[c] = "failing"
  /\ turn' = [turn EXCEPT ![c] = "idle"]
  /\ waiting' = [waiting EXCEPT ![c] = TRUE]
  /\ Fault(c)
  /\ UNCHANGED <<record, tries, since, sending, said, history>>

\* onBatchFailure: the apology is sent, and read or not.
Apologise(c) ==
  /\ turn[c] = "apologising"
  /\ turn' = [turn EXCEPT ![c] = "idle"]
  /\ sorry' \in {sorry, [sorry EXCEPT ![c] = IF Paused(c) THEN @ + 1 ELSE @]}
  /\ UNCHANGED <<record, waiting, tries, since, sending, spoken, fault, history>>

-----------------------------------------------------------------------------
(* The handoff rows. *)

\* Faulty variant: opens a second row over a live one.
PauseAgain(c, cause) ==
  /\ pauses[c] < MaxPauses
  /\ live' = [live EXCEPT ![c] = Append(@, cause)]
  /\ pauses' = [pauses EXCEPT ![c] = @ + 1]

\* pauseConversation: an existing live row is kept as it is, cause included.
Pause(c, cause) ==
  IF Paused(c)
    THEN UNCHANGED <<live, pauses>>
    ELSE /\ pauses[c] < MaxPauses
         /\ live' = [live EXCEPT ![c] = Append(@, cause)]
         /\ pauses' = [pauses EXCEPT ![c] = @ + 1]

\* releaseConversation closes every live row, and the next one counts from zero.
CloseRows(c) ==
  /\ live' = [live EXCEPT ![c] = <<>>]
  /\ spoken' = [spoken EXCEPT ![c] = 0]
  /\ sorry' = [sorry EXCEPT ![c] = 0]
  /\ mishaps' = [mishaps EXCEPT ![c] = 0]
  /\ requeued' = [requeued EXCEPT ![c] = FALSE]

\* Faulty variant: hands the conversation back with its old session.
ReleaseKeepingSession(c) ==
  /\ CloseRows(c)
  /\ leftover' = [leftover EXCEPT ![c] = IF Paused(c) THEN turn[c] \in Asked ELSE @]
  /\ UNCHANGED <<session, faults>>

\* releaseConversation, then clearSessionId if it closed any.
Release(c) ==
  /\ CloseRows(c)
  /\ session' = [session EXCEPT ![c] = IF Paused(c) THEN 0 ELSE @]
  /\ leftover' = [leftover EXCEPT ![c] = IF Paused(c) THEN turn[c] \in Asked ELSE @]
  /\ UNCHANGED faults

\* The rows are closed, and the session is still there.
TornRelease(c) ==
  /\ Paused(c)
  /\ CloseRows(c)
  /\ leftover' = [leftover EXCEPT ![c] = TRUE]
  /\ faults < MaxFaults /\ faults' = faults + 1
  /\ UNCHANGED session

-----------------------------------------------------------------------------
(* The console. *)

\* POST /admin/conversation/pause
PauseRoute(c) ==
  /\ Pause(c, ByHand)
  /\ byHand' = [byHand EXCEPT ![c] = TRUE]
  /\ UNCHANGED <<lead, session, attempt, sending, said, fault, freed, leftover, requeued>>

\* POST /admin/conversation/release.  After a torn one it closes nothing, and so
\* drops no session either.
ReleaseRoute(c) ==
  /\ Release(c) \/ TornRelease(c)
  /\ byHand' = [byHand EXCEPT ![c] = FALSE]
  /\ freed' = [freed EXCEPT ![c] = TRUE]
  /\ UNCHANGED <<pauses, lead, attempt, sending>>

\* POST /admin/conversation/message: pause first, then hand it to the transport.
MessageRoute(a, c) ==
  /\ sending[a] = Nobody
  /\ Pause(c, ByHand)
  /\ byHand' = [byHand EXCEPT ![c] = TRUE]
  /\ sending' = [sending EXCEPT ![a] = c]
  /\ UNCHANGED <<lead, session, attempt, said, fault, freed, leftover, requeued>>

\* The transport answered or failed; the pause stays either way.
MessageSettles(a) ==
  /\ sending[a] # Nobody
  /\ sending' = [sending EXCEPT ![a] = Nobody]
  /\ UNCHANGED <<record, attempt, said, fault, history>>

\* Faulty variant: a hand-back undoes a pause set by hand.
MayHandBackManual(l, c) == Paused(c) /\ Holding(c) \ {l} = {}

\* Faulty variant: looks at no other lead of the conversation.
MayHandBackAlone(l, c) == Paused(c) /\ Head(live[c]) # ByHand

\* Faulty variant: counts l itself, whose status is read before it is written.
MayHandBackCounted(l, c) ==
  /\ Paused(c)
  /\ Head(live[c]) # ByHand
  /\ Holding(c) = {}

\* Handing lead l back also hands conversation c back: a lead caused the
\* pause, and no other lead of c is held.
MayHandBack(l, c) ==
  /\ Paused(c)
  /\ Head(live[c]) # ByHand
  /\ Holding(c) \ {l} = {}

SetLead(l, status) ==
  /\ lead[l] # "none"
  /\ lead' = [lead EXCEPT ![l] = status]

\* POST /admin/lead/status with in_progress: taking a lead pauses.
TakeLead(l) ==
  LET c == ConversationOf[l] IN
  /\ c # Nobody
  /\ SetLead(l, "in_progress")
  /\ Pause(c, l)
  /\ UNCHANGED <<session, attempt, sending, said, fault, history>>

\* The lead is taken, and its conversation is not paused by it.
TornTake(l) ==
  LET c == ConversationOf[l] IN
  /\ c # Nobody
  /\ SetLead(l, "in_progress")
  /\ freed' = [freed EXCEPT ![c] = @ \/ ~Paused(c)]
  /\ Fault(c)
  /\ UNCHANGED <<live, pauses, session, attempt, sending, said, byHand, leftover, requeued>>

\* ... from in_progress to new: the hand-back, released or not.
HandBackLead(l) ==
  LET c == ConversationOf[l] IN
  /\ c # Nobody
  /\ lead[l] = "in_progress"
  /\ SetLead(l, "new")
  /\ IF MayHandBack(l, c)
       THEN /\ Release(c) \/ TornRelease(c)
            /\ freed' = [freed EXCEPT ![c] = FALSE]
       ELSE UNCHANGED <<live, session, said, fault, freed, leftover, requeued>>
  /\ UNCHANGED <<pauses, attempt, sending, byHand>>

\* The lead is back in the queue and its pause stays.  The same request again is
\* no hand-back any more: the lead is not in_progress.
TornHandBack(l) ==
  LET c == ConversationOf[l] IN
  /\ c # Nobody
  /\ lead[l] = "in_progress"
  /\ MayHandBack(l, c)
  /\ SetLead(l, "new")
  /\ requeued' = [requeued EXCEPT ![c] = TRUE]
  /\ Fault(c)
  /\ UNCHANGED <<live, pauses, session, attempt, sending, said, byHand, freed, leftover>>

\* ... every other transition leaves the handoff as it is.
MoveLead(l, status) ==
  LET c == ConversationOf[l] IN
  /\ \/ c = Nobody
     \/ status = "closed"
     \/ status = "new" /\ lead[l] # "in_progress"
  /\ SetLead(l, status)
  /\ requeued' = IF c # Nobody /\ status = "new" /\ lead[l] = "closed" /\ Paused(c)
                   THEN [requeued EXCEPT ![c] = TRUE]
                   ELSE requeued
  /\ UNCHANGED <<live, pauses, session, attempt, sending, said, fault, byHand, freed, leftover>>

\* The process dies with its attempts and requests; the inbox replays every batch
\* that is not settled, and its claims stay spent.
Crash ==
  /\ faults < MaxFaults
  /\ faults' = faults + 1
  /\ mishaps' = [c \in Conversation |-> IF Paused(c) THEN mishaps[c] + 1 ELSE mishaps[c]]
  /\ waiting' = [c \in Conversation |-> waiting[c] \/ turn[c] \notin {"idle", "apologising"}]
  /\ turn' = [c \in Conversation |-> "idle"]
  /\ since' = [c \in Conversation |-> 0]
  /\ sending' = [a \in Admin |-> Nobody]
  /\ UNCHANGED <<record, tries, said, history>>

Attempt(c) ==
  \/ Arrive(c) \/ Abandon(c) \/ StaySilent(c) \/ RefuseTurn(c) \/ BeginTurn(c)
  \/ AskAfresh(c) \/ AskFails(c) \/ StoreRefused(c) \/ Answer(c)
  \/ Deliver(c) \/ DeliverFails(c) \/ Settle(c) \/ SettleFails(c)
  \/ Retry(c) \/ FailForGood(c) \/ CatchRefused(c) \/ Apologise(c)

Console ==
  \/ \E c \in Conversation : PauseRoute(c) \/ ReleaseRoute(c)
  \/ \E a \in Admin : MessageSettles(a) \/ \E c \in Conversation : MessageRoute(a, c)
  \/ \E l \in Lead : TakeLead(l) \/ TornTake(l) \/ HandBackLead(l) \/ TornHandBack(l)
  \/ \E l \in Lead, status \in {"new", "in_progress", "closed"} : MoveLead(l, status)

Next ==
  \/ \E c \in Conversation : Attempt(c)
  \/ \E l \in Lead : SaveLead(l)
  \/ Console
  \/ Crash

Spec == Init /\ [][Next]_vars
=============================================================================
